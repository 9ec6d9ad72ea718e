--------------------------- MODULE MCGeneratedCode --------------------------
(* Requests modelled on the protos that tsgrpc-codegen is tested with.     *)
EXTENDS GeneratedCodeProperties

NoComments == << >>

Plain(name, number, type) ==
    [name |-> name, number |-> number, repeated |-> FALSE, type |-> type,
     typeName |-> << >>, oneof |-> NoOneof, optional |-> FALSE]
Of(name, number, type, typeName) == [Plain(name, number, type) EXCEPT !.typeName = typeName]
Repeated(f) == [f EXCEPT !.repeated = TRUE]
Optional(f, oneof) == [f EXCEPT !.optional = TRUE, !.oneof = oneof]
Member(f, oneof) == [f EXCEPT !.oneof = oneof]

Enum(name, values) ==
    [name |-> name, values |-> [i \in DOMAIN values |-> [name |-> values[i][1], number |-> values[i][2]]]]
Message(name, fields, nested, enums, oneofs) ==
    [name |-> name, mapEntry |-> FALSE, fields |-> fields, nested |-> nested, enums |-> enums,
     oneofs |-> oneofs]
MapEntry(name, key, value) ==
    [Message(name, <<[key EXCEPT !.name = <<"key">>, !.number = 1],
                     [value EXCEPT !.name = <<"value">>, !.number = 2]>>, << >>, << >>, << >>)
     EXCEPT !.mapEntry = TRUE]
Method(name, input, output, serverStreaming) ==
    [name |-> name, input |-> input, output |-> output, clientStreaming |-> FALSE,
     serverStreaming |-> serverStreaming]

Google(name) == <<"google", "protobuf", name>>
Flag(name, args) == <<[name |-> name, args |-> args]>>

-----------------------------------------------------------------------------
(* A message for each way to have a scalar.                                *)

Integral ==
    <<"int32", "uint32", "sint32", "fixed32", "sfixed32", "int64", "uint64", "sint64", "fixed64",
      "sfixed64", "bool", "string", "bytes">>
WithOptional == <<"int32", "uint32", "int64", "uint64", "bool", "string", "bytes">>

ScalarFile ==
    [path |-> <<<<"scalars">>>>, package |-> <<"s">>, enums |-> << >>,
     dependencies |-> <<<<<<"google">>, <<"protobuf">>, <<"wrappers">>>>>>,
     services |-> << >>,
     comments |-> <<4, 0, 2, 13>> :> Flag("representation", "hexpad")
                  @@ <<4, 0, 2, 14>> :> Flag("representation", "decimalpad")
                  @@ <<4, 0, 2, 15>> :> Flag("representation", "hex"),
     messages |-> <<
        Message("Scalars",
            [i \in 1 .. 13 |-> Plain(<<"f", Integral[i]>>, i, Integral[i])]
            \o <<Plain(<<"hex", "_", "pad">>, 14, "fixed64"),
                 Plain(<<"decimal", "_", "pad">>, 15, "fixed64"),
                 Plain(<<"hex">>, 16, "uint64")>>, << >>, << >>, << >>),
        Message("Optionals",
            [i \in DOMAIN WithOptional |->
                Optional(Plain(<<"f", WithOptional[i]>>, i, WithOptional[i]), i - 1)],
            << >>, << >>, [i \in DOMAIN WithOptional |-> <<"_", "f", WithOptional[i]>>]),
        Message("Lists",
            [i \in 1 .. 13 |-> Repeated(Plain(<<"f", Integral[i]>>, 20 - i, Integral[i]))],
            << >>, << >>, << >>),
        Message("Floats",
            <<Plain(<<"single">>, 1, "float"), Plain(<<"double">>, 2, "double"),
              Optional(Plain(<<"optional">>, 3, "float"), 0),
              Repeated(Plain(<<"list">>, 4, "double")),
              Of(<<"wrapped">>, 5, "message", Google("DoubleValue"))>>,
            << >>, << >>, <<<<"_", "optional">>>>)>>]

-----------------------------------------------------------------------------
(* importable/importMe.proto: a type with a surrogate, an enum of proto2.  *)

Importable == <<"ex", "ample", "importable">>
Type(name) == <<"ex", "ample", name>>

ImportFile ==
    [path |-> <<<<"importable">>, <<"import", "me">>>>, package |-> Importable,
     dependencies |-> << >>, enums |-> << >>, services |-> << >>,
     comments |-> <<4, 1>> :> Flag("has-surrogate", NoFlag),
     messages |-> <<
        Message("Imported", <<Plain(<<"str">>, 1, "string")>>, << >>,
            <<Enum("EnumForImport",
                   <<<<<<"EnumForImport", "_", "yes">>, 1>>, <<<<"no">>, -1>>>>)>>, << >>),
        Message("Args", <<Plain(<<"value">>, 1, "string")>>, << >>, << >>, << >>)>>]

(* example.proto: references inward, outward, sideways and to other files. *)
Outer == Type("Outer")
Inner ==
    Message("Inner",
        <<Plain(<<"int", "_", "fixed">>, 13, "sfixed32"),
          Of(<<"nested">>, 17, "message", Append(Outer, "Nested")),
          Of(<<"nested", "enum">>, 18, "enum", Append(Outer, "NestEnumeration"))>>,
        << >>, << >>, << >>)

MapOf(word, number, entry) == Repeated(Of(<<"map", "_", word>>, number, "message", Append(Outer, entry)))

OuterMessage ==
    Message("Outer",
        <<Of(<<"enum", "_", "val">>, 1, "enum", Type("EnumType")),
          Of(<<"inner">>, 2, "message", Type("Inner")),
          Repeated(Of(<<"inners">>, 3, "message", Type("Inner"))),
          Of(<<"recursive">>, 4, "message", Outer),
          Member(Of(<<"inner", "_", "option">>, 25, "message", Type("Inner")), 0),
          Member(Plain(<<"int", "_", "option">>, 26, "int32"), 0),
          Member(Of(<<"imported", "_", "option">>, 30, "message", Append(Importable, "Args")), 0),
          Of(<<"nested">>, 27, "message", Append(Outer, "Nested")),
          Of(<<"imported">>, 28, "message", Append(Importable, "Imported")),
          Of(<<"enum", "_", "imported">>, 29, "enum",
             Importable \o <<"Imported", "EnumForImport">>),
          Of(<<"surrogate">>, 32, "message", Append(Importable, "Args")),
          Of(<<"deep">>, 33, "message", Outer \o <<"Nested", "DoubleNested">>)>>,
        <<Message("Nested",
            <<Repeated(Of(<<"enums">>, 1, "enum", Append(Outer, "NestEnumeration"))),
              Of(<<"inner">>, 2, "message", Type("Inner"))>>,
            <<Message("DoubleNested", <<Plain(<<"b">>, 1, "bool")>>, << >>,
                <<Enum("Deep", <<<<<<"deep", "_", "none">>, 0>>>>)>>, << >>)>>,
            << >>, << >>)>>,
        <<Enum("NestEnumeration",
            <<<<<<"NestEnumeration", "_", "black">>, 0>>, <<<<"NestEnumeration", "_", "red">>, 1>>>>)>>,
        <<<<"union">>>>)

MapsMessage ==
    LET Entry1 == MapEntry("IntsEntry", Plain(<< >>, 0, "int32"), Plain(<< >>, 0, "int64"))
        Entry2 == MapEntry("InnersEntry", Plain(<< >>, 0, "string"), Of(<< >>, 0, "message", Type("Inner")))
        Entry3 == MapEntry("BoolsEntry", Plain(<< >>, 0, "bool"), Of(<< >>, 0, "enum", Type("EnumType")))
        Entry4 == MapEntry("LongsEntry", Plain(<< >>, 0, "sint64"), Of(<< >>, 0, "message", Append(Importable, "Args")))
        Field(word, number, entry) ==
            Repeated(Of(<<"map", word>>, number, "message", Type("Maps") \o <<entry>>))
    IN  Message("Maps",
            <<Field("ints", 20, "IntsEntry"), Field("inners", 21, "InnersEntry"),
              Field("bools", 22, "BoolsEntry"), Field("longs", 23, "LongsEntry")>>,
            <<Entry1, Entry2, Entry3, Entry4>>, << >>, << >>)

Maybes ==
    Message("Maybes",
        <<Of(<<"a">>, 1, "message", Google("Int64Value")), Of(<<"b">>, 2, "message", Google("StringValue")),
          Of(<<"c">>, 3, "message", Google("BoolValue")), Of(<<"d">>, 4, "message", Google("Timestamp")),
          Of(<<"e">>, 5, "message", Google("Duration")),
          Repeated(Of(<<"f">>, 6, "message", Google("UInt32Value"))),
          Optional(Of(<<"g">>, 7, "enum", Type("EnumType")), 1),
          Member(Plain(<<"h">>, 8, "string"), 0), Member(Plain(<<"i">>, 9, "uint64"), 0)>>,
        << >>, << >>, <<<<"h", "_", "or", "_", "i">>, <<"_", "g">>>>)

ExampleFile ==
    [path |-> <<<<"api">>, <<"v1">>, <<"example">>>>, package |-> <<"ex", "ample">>,
     dependencies |-> <<<<<<"importable">>, <<"import", "me">>>>,
                        <<<<"google">>, <<"protobuf">>, <<"wrappers">>>>,
                        <<<<"google">>, <<"protobuf">>, <<"timestamp">>>>,
                        <<<<"google">>, <<"protobuf">>, <<"duration">>>>>>,
     enums |-> <<Enum("EnumType", <<<<<<"EnumType", "_", "none">>, 0>>, <<<<"EnumType", "_", "one">>, 1>>>>)>>,
     comments |-> NoComments,
     messages |-> <<Inner, OuterMessage, MapsMessage, Maybes,
        Message("ResultEvent",
            <<Of(<<"subscription", "_", "state">>, 1, "enum", Type("EnumType")),
              Repeated(Of(<<"records">>, 2, "message", Type("ResultEvent") \o <<"Record">>))>>,
            <<Message("Record", <<Plain(<<"key">>, 1, "string"), Plain(<<"value">>, 2, "string")>>,
                      << >>, << >>, << >>)>>, << >>, << >>),
        Message("ArgsList",
            <<Repeated(Of(<<"all", "args">>, 1, "message", Append(Importable, "Args"))),
              Plain(<<"count">>, 2, "int32")>>, << >>, << >>, << >>)>>,
     services |-> <<[name |-> "ServiceOne", methods |-> <<
        Method(<<"unary">>, Type("Inner"), Append(Importable, "Imported"), FALSE),
        Method(<<"stream">>, Append(Outer, "Nested"), Append(Importable, "Imported"), TRUE),
        [Method(<<"upload">>, Type("Inner"), Type("Inner"), FALSE) EXCEPT !.clientStreaming = TRUE],
        Method(<<"subscription">>, Append(Importable, "Args"), Type("ResultEvent"), TRUE)>>]>>]

(* What google ships: rendered too, as any file of the request.            *)
GoogleFile(word, messages) ==
    [path |-> <<<<"google">>, <<"protobuf">>, <<word>>>>, package |-> <<"google", "protobuf">>,
     dependencies |-> << >>, enums |-> << >>, services |-> << >>, comments |-> NoComments,
     messages |-> messages]
Holder(name, type) == Message(name, <<Plain(<<"value">>, 1, type)>>, << >>, << >>, << >>)
Moment(name) ==
    Message(name, <<Plain(<<"seconds">>, 1, "int64"), Plain(<<"nanos">>, 2, "int32")>>,
            << >>, << >>, << >>)

WrappersFile ==
    GoogleFile("wrappers", <<
        Holder("DoubleValue", "double"), Holder("FloatValue", "float"),
        Holder("Int64Value", "int64"), Holder("UInt64Value", "uint64"),
        Holder("Int32Value", "int32"), Holder("UInt32Value", "uint32"),
        Holder("BoolValue", "bool"), Holder("StringValue", "string"), Holder("BytesValue", "bytes")>>)
TimestampFile == GoogleFile("timestamp", <<Moment("Timestamp")>>)
DurationFile == GoogleFile("duration", <<Moment("Duration")>>)

GroupFile ==
    [ScalarFile EXCEPT !.comments = << >>, !.dependencies = << >>, !.messages = <<
        Message("HasGroup", <<Of(<<"group">>, 1, "group", <<"s", "HasGroup", "Group">>)>>,
                << >>, << >>, << >>)>>]

MCRequests ==
    {<<WrappersFile, ScalarFile>>,
     <<ImportFile, WrappersFile, TimestampFile, DurationFile, ExampleFile>>,
     <<ImportFile, GroupFile>>}

(* Around every edge of a byte, a word, two words and what is exact.       *)
MCNumberSamples ==
    {0, 1, -1, 5, 7, 8, -8, 63, 64, -64, 511, 512, 4095, 4096, 8191, 8192, -8192, -8193, 16383,
     16384, 16385, -16384, 32767, 32768, 99999, 123456, -123456, 999999, 1048575, 1048576,
     4194303, 8388607, -8388607, 8388608, 100000000, 134217727, -134217728, 134217728, 268435455}

(* Every exponent of a double, and mantissas around what a float holds.    *)
MCFloatSamples ==
    {NaN, Infinite(0), Infinite(1)}
    \cup {Finite(sign, m) : sign \in {0, 1}, m \in {0, 1, 2, 63, 127}}
    \cup {Finite(0, (128 + m) * 2 ^ e) : m \in {0, 1, 15, 16, 17, 32, 48, 64, 80, 96, 111, 112, 113, 127},
                                        e \in 0 .. 13}
    \cup {Finite(1, (128 + m) * 2 ^ e) : m \in {0, 16, 96}, e \in {0, 7, 13}}
=============================================================================
