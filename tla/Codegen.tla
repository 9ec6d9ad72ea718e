------------------------------ MODULE Codegen -------------------------------
(***************************************************************************)
(* The code generator: what codegen.ts, preprocess.ts, names.ts, paths.ts  *)
(* and proto-field-types.ts make of the descriptors protoc hands over.     *)
(* The output is not text but what the text says: imports, placeholders,   *)
(* definitions, type declarations and services, with the identifiers that  *)
(* refer from one to the other.                                            *)
(*                                                                         *)
(* The name of a type is the sequence of its segments.  The name of a      *)
(* field, a oneof, a method or an enum value is the sequence of its words, *)
(* with "_" where the proto has one.  A path of a file is the sequence of  *)
(* its directories and its base, each a sequence of words:                 *)
(* <<"importable">>, <<"import", "me">> for importable/importMe.proto.  A  *)
(* source location is a sequence of numbers.                               *)
(* A descriptor has the fields of the proto of that name:                  *)
(*   file     [path, package, dependencies, messages, enums, services,     *)
(*             comments: location -> sequence of flags [name, args]]       *)
(*   message  [name, mapEntry, fields, nested, enums, oneofs]              *)
(*   enum     [name, values: sequence of [name, number]]                   *)
(*   field    [name, number, repeated, type, typeName, oneof, optional]    *)
(*   service  [name, methods]                                              *)
(*   method   [name, input, output, clientStreaming, serverStreaming]      *)
(* where oneof is an index, from 0, or NoOneof.                            *)
(***************************************************************************)
EXTENDS Integers, Sequences, SequencesExt, TLC

NoOneof == -1
NoFlag == ""

(* Array.prototype.find *)
Find(seq, Test(_)) == Head(SelectSeq(seq, Test))
Finds(seq, Test(_)) == SelectSeq(seq, Test) # << >>

-----------------------------------------------------------------------------
(* names.ts and paths.ts *)

(* The common prefix goes, but the last segment always stays. *)
NsRelative(name, context) ==
    LET i == CHOOSE i \in 0 .. Len(name) - 1 :
                /\ i <= Len(context) /\ SubSeq(name, 1, i) = SubSeq(context, 1, i)
                /\ \/ i = Len(name) - 1 \/ i = Len(context)
                   \/ name[i + 1] # context[i + 1]
    IN  SubSeq(name, i + 1, Len(name))

(* camelCase and pascalCase leave nothing but the words; the case of their *)
(* first letters is not modelled.                                          *)
CamelCase(name) == SelectSeq(name, LAMBDA word : word # "_")

ImportNameFor(path) == FlattenSeq(path)

(* From the directory of one file to another. *)
RelativeImportPath(target, from) ==
    LET dir == Front(from)
        shared == CHOOSE i \in 0 .. Len(dir) :
                    /\ i < Len(target) /\ SubSeq(dir, 1, i) = SubSeq(target, 1, i)
                    /\ i = Len(dir) \/ i = Len(target) - 1 \/ dir[i + 1] # target[i + 1]
    IN  [i \in 1 .. Len(dir) - shared |-> <<"..">>] \o SubSeq(target, shared + 1, Len(target))

-----------------------------------------------------------------------------
(* preprocess.ts *)

FieldDefs(list, path) ==
    [i \in DOMAIN list |->
        [oneof |-> IF list[i].optional THEN NoOneof ELSE list[i].oneof,
         path |-> path \o <<2, i - 1>>] @@ list[i]]

EnumDefs(ns, list, path, listField) ==
    [i \in DOMAIN list |->
        [kind |-> "enum", fqName |-> Append(ns, list[i].name),
         path |-> path \o <<listField, i - 1>>] @@ list[i]]

IsMapType(m) == m.mapEntry

(* The oneofs with a member that is not an optional field. *)
OneofDecls(m) ==
    LET real == SelectSeq([i \in DOMAIN m.oneofs |-> i],
                    LAMBDA i : \E f \in Range(m.fields) : f.oneof = i - 1 /\ ~f.optional)
    IN  [k \in DOMAIN real |-> m.oneofs[real[k]]]

(* The index in the path is that among the messages, or the map entries. *)
RECURSIVE MessageDefs(_, _, _, _)
MessageDefs(ns, list, path, listField) ==
    [i \in DOMAIN list |->
        LET m == list[i]
            fq == Append(ns, m.name)
            here == path \o <<listField, i - 1>>
        IN  [kind |-> "message", name |-> m.name, fqName |-> fq, path |-> here,
             oneofs |-> OneofDecls(m),
             nested |-> MessageDefs(fq, SelectSeq(m.nested, LAMBDA n : ~IsMapType(n)), here, 3),
             mapTypes |-> MessageDefs(fq, SelectSeq(m.nested, IsMapType), here, 3),
             enums |-> EnumDefs(fq, m.enums, here, 4),
             fields |-> FieldDefs(m.fields, here)]]

CommentFlags(file, path) == IF path \in DOMAIN file.comments THEN file.comments[path] ELSE << >>

(* Every type of a file, at the location protoc gives it. *)
RECURSIVE RecurseTypes(_, _, _, _, _, _)
RecurseTypes(ns, msgs, enums, messagesField, enumsField, path) ==
    {[name |-> Append(ns, enums[i].name), path |-> path \o <<enumsField, i - 1>>] :
        i \in DOMAIN enums}
    \cup UNION {
        LET here == path \o <<messagesField, i - 1>>
            name == Append(ns, msgs[i].name)
        IN  {[name |-> name, path |-> here]}
            \cup RecurseTypes(name, msgs[i].nested, msgs[i].enums, 3, 4, here) :
        i \in DOMAIN msgs}

TypesOf(file) == RecurseTypes(file.package, file.messages, file.enums, 4, 5, << >>)

GetSurrogates(files) ==
    LET flagged == UNION {{t.name : t \in {t \in TypesOf(file) :
                            \E flag \in Range(CommentFlags(file, t.path)) :
                                flag.name = "has-surrogate"}} : file \in Range(files)}
    IN  [name \in flagged |-> Last(name)]

(* The file that declares each type; the last one, should there be two. *)
BuildDeclarationsMap(files) ==
    FoldLeft(LAMBDA map, file :
                [n \in {t.name : t \in TypesOf(file)} |->
                    [package |-> file.package, path |-> file.path]] @@ map,
             << >>, files)

-----------------------------------------------------------------------------
(* proto-field-types.ts.  A TypeScript type of a built-in is the set of    *)
(* the kinds of value it admits.                                           *)

LongTypes == {"int64", "uint64", "fixed64", "sfixed64", "sint64"}
NumberTypes ==
    {"double", "float", "int32", "fixed32", "uint32", "sfixed32", "sint32"}
ScalarTypes == LongTypes \cup NumberTypes \cup {"bool", "string", "bytes"}

(* A long is a string; a caller may give a number instead. *)
Kind(type) ==
    CASE type \in NumberTypes             -> "number"
      [] type \in LongTypes \cup {"string"} -> "string"
      [] OTHER                            -> type
LooseKinds(type) == {Kind(type)} \cup (IF type \in LongTypes THEN {"number"} ELSE {})

(* The well-known messages, and the type each holds. *)
Wrappers ==
    [DoubleValue |-> "double", FloatValue |-> "float", Int64Value |-> "int64",
     UInt64Value |-> "uint64", Int32Value |-> "int32", UInt32Value |-> "uint32",
     BoolValue |-> "bool", StringValue |-> "string", BytesValue |-> "bytes",
     Timestamp |-> "timestamp", Duration |-> "duration"]

WellKnown(name) ==
    Len(name) = 3 /\ SubSeq(name, 1, 2) = <<"google", "protobuf">> /\ name[3] \in DOMAIN Wrappers

BuiltIn(type, packed, presence) ==
    [builtin |-> TRUE, packed |-> packed, proto |-> type, presence |-> presence,
     strict |-> {Kind(type)} \cup (IF presence = "wrapper" THEN {"undefined"} ELSE {}),
     loose |-> LooseKinds(type),
     defaultRep |-> IF type \in LongTypes THEN "decimal" ELSE NoFlag]

Custom(name, wrap) ==
    [builtin |-> FALSE, packed |-> wrap = "enumeration", proto |-> name,
     nullable |-> wrap = "message", wrap |-> wrap]

(* A group has no such info: the generator throws. *)
Implemented(f) == f.type # "group"

FieldTypeInfo(f) ==
    CASE f.type \in ScalarTypes ->
            BuiltIn(f.type, f.type \notin {"string", "bytes"},
                    IF f.optional THEN "optional" ELSE "always")
      [] f.type = "enum" -> Custom(f.typeName, "enumeration")
      [] f.type = "message" /\ WellKnown(f.typeName) ->
            BuiltIn(Wrappers[f.typeName[3]], FALSE, "wrapper")
      [] f.type = "message" -> Custom(f.typeName, "message")

-----------------------------------------------------------------------------
(* codegen.ts: identifiers *)

(* What the rendering of a file knows: [file, imports, surrogates, name];  *)
(* name is the scope that relative names are relative to.                  *)
Identifier(root, path) == [root |-> root, path |-> path]
Here == << >>
FromSurrogates == <<"Surrogates">>

(* Mutant: an imported type is named relative to this file's package. *)
MutJsIdentifier(protoType, context) ==
    IF protoType \in DOMAIN context.surrogates
    THEN Identifier(FromSurrogates, <<context.surrogates[protoType]>>)
    ELSE LET import == context.imports[protoType] IN
         IF import.path = context.file.path
         THEN Identifier(Here, NsRelative(protoType, context.name))
         ELSE Identifier(ImportNameFor(import.path),
                         NsRelative(protoType, context.file.package))

JsIdentifier(protoType, context) ==
    IF protoType \in DOMAIN context.surrogates
    THEN Identifier(FromSurrogates, <<context.surrogates[protoType]>>)
    ELSE IF protoType \notin DOMAIN context.imports
            \/ context.imports[protoType].path = context.file.path
    THEN Identifier(Here, NsRelative(protoType, context.name))
    ELSE Identifier(ImportNameFor(context.imports[protoType].path),
                    NsRelative(protoType, context.imports[protoType].package))

(* A writer and reader of the library is named by its presence, its type   *)
(* and its representation; that of another type is the type's own.         *)
NameOfBuiltInType(type, variation) ==
    <<type.proto, IF variation # NoFlag THEN variation ELSE type.defaultRep>>

TypeCodec(type, context, variation) ==
    IF type.builtin
    THEN [wrap |-> type.presence, of |-> NameOfBuiltInType(type, variation)]
    ELSE [wrap |-> type.wrap, of |-> JsIdentifier(type.proto, context)]

GetRepresentationVariation(path, file) ==
    LET IsRep(flag) == flag.name = "representation"
        flags == CommentFlags(file, path)
    IN  IF Finds(flags, IsRep) THEN Find(flags, IsRep).args ELSE NoFlag

-----------------------------------------------------------------------------
(* codegen.ts: enums *)

EnumValToJsName(enumName, valName) ==
    LET pascal == CamelCase(valName)
    IN  IF pascal # << >> /\ Head(pascal) = enumName THEN Tail(pascal) ELSE pascal

EnumValue(jsName, number) == [jsName |-> jsName, number |-> number]

GetEnumValues(e) ==
    LET values == [i \in DOMAIN e.values |->
            EnumValue(EnumValToJsName(e.name, e.values[i].name), e.values[i].number)]
    IN  IF \E v \in Range(values) : v.number = 0 THEN values
        ELSE <<EnumValue(<<"Unspecified">>, 0)>> \o values

RenderEnumTypeDecl(e, scope) ==
    [kind |-> "enum", protoName |-> Append(scope, e.name), values |-> GetEnumValues(e)]

RenderEnumDef(e, context) ==
    [kind |-> "enum", is |-> NsRelative(e.fqName, context.name), values |-> GetEnumValues(e)]

-----------------------------------------------------------------------------
(* codegen.ts: the fields of a message *)

(* The key and value of each map entry, by the name of the entry. *)
MapTypes(m) ==
    [name \in {t.fqName : t \in Range(m.mapTypes)} |->
        LET entry == CHOOSE t \in Range(m.mapTypes) : t.fqName = name
        IN  [key |-> CHOOSE f \in Range(entry.fields) : f.number = 1,
             value |-> CHOOSE f \in Range(entry.fields) : f.number = 2]]

IsMap(f, maps) == f.type = "message" /\ f.typeName \in DOMAIN maps
IsRepeated(f, maps) == f.repeated /\ ~IsMap(f, maps)

NonOneofFields(m) == SelectSeq(m.fields, LAMBDA f : f.oneof = NoOneof)
OneofFields(m, index) == SelectSeq(m.fields, LAMBDA f : f.oneof = index)

(* An element is a built-in, or what the declaration of its type says. *)
ElementType(type, strict, context) ==
    IF type.builtin THEN [builtin |-> TRUE, kinds |-> IF strict THEN type.strict ELSE type.loose]
    ELSE [builtin |-> FALSE, strict |-> strict, of |-> JsIdentifier(type.proto, context)]

(* Mutant: a message is always there. *)
MutOrUndefined(type, strict, context) == FALSE

OrUndefined(type, strict, context) ==
    ~type.builtin /\ type.nullable /\ strict /\ type.proto \notin DOMAIN context.surrogates

(* A loose map may be a Map or an object, a strict one is an object. *)
MessageFieldTypeDecl(strict, f, context, maps) ==
    LET type == FieldTypeInfo(IF IsMap(f, maps) THEN maps[f.typeName].value ELSE f)
    IN  [name |-> CamelCase(f.name), optional |-> ~strict \/ f.optional,
         form |-> IF IsMap(f, maps) THEN "map" ELSE IF IsRepeated(f, maps) THEN "array" ELSE "one",
         undefined |-> ~f.repeated /\ OrUndefined(type, strict, context),
         element |-> ElementType(type, strict, context)]

OneofFieldTypeDecl(strict, oneof, f, context) ==
    LET type == FieldTypeInfo(f)
    IN  [name |-> CamelCase(f.name), case |-> IF strict THEN CamelCase(oneof) ELSE << >>,
         undefined |-> ~strict \/ OrUndefined(type, strict, context),
         element |-> ElementType(type, strict, context)]

(* The alternative with no member names the oneof as the proto does. *)
OneofTypeDecl(strict, oneof, fields, context) ==
    [none |-> IF strict THEN oneof ELSE << >>,
     members |-> [i \in DOMAIN fields |-> OneofFieldTypeDecl(strict, oneof, fields[i], context)]]

Form(f, type, maps) ==
    IF IsMap(f, maps) THEN "map"
    ELSE IF IsRepeated(f, maps) THEN IF type.packed THEN "packed" ELSE "repeated"
    ELSE "one"

(* What is written and read for a field.  A map of a @representation has   *)
(* its key and its value in that representation.                           *)
MessageFieldCodec(f, context, maps) ==
    LET variation == GetRepresentationVariation(f.path, context.file)
        Codec(of) == TypeCodec(FieldTypeInfo(of), context, variation)
    IN  [number |-> f.number, name |-> CamelCase(f.name), form |-> Form(f, FieldTypeInfo(f), maps)]
        @@ IF IsMap(f, maps)
           THEN [key |-> Codec(maps[f.typeName].key), value |-> Codec(maps[f.typeName].value)]
           ELSE [value |-> Codec(f)]

(* A member of a oneof is looked up in no map. *)
OneofFieldWrite(f, context) == MessageFieldCodec(f, context, << >>)

(* A member of a oneof is read under the name of the oneof. *)
MessageFieldRead(f, context, m) ==
    [oneof |-> IF f.oneof + 1 \in DOMAIN m.oneofs THEN m.oneofs[f.oneof + 1] ELSE << >>]
    @@ MessageFieldCodec(f, context, MapTypes(m))

RenderMessageDefine(m, context) ==
    LET fields == NonOneofFields(m) IN
    [kind |-> "message", is |-> NsRelative(m.fqName, context.name),
     writes |-> [i \in DOMAIN fields |-> MessageFieldCodec(fields[i], context, MapTypes(m))],
     oneofs |-> [k \in DOMAIN m.oneofs |->
                    LET members == OneofFields(m, k - 1)
                    IN  [i \in DOMAIN members |-> OneofFieldWrite(members[i], context)]],
     reads |-> [i \in DOMAIN m.fields |-> MessageFieldRead(m.fields[i], context, m)]]

-----------------------------------------------------------------------------
(* codegen.ts: the types of a file *)

(* Mutant: the enums of a nested message are forgotten. *)
RECURSIVE MutFlatten(_)
MutFlatten(types) ==
    FlattenSeq([i \in DOMAIN types |->
        IF types[i].kind = "enum" THEN <<types[i]>>
        ELSE <<types[i]>> \o MutFlatten(types[i].nested)])

RECURSIVE Flatten(_)
Flatten(types) ==
    FlattenSeq([i \in DOMAIN types |->
        IF types[i].kind = "enum" THEN <<types[i]>>
        ELSE <<types[i]>> \o types[i].enums \o Flatten(types[i].nested)])

RenderTypeDefines(types, context) ==
    LET all == Flatten(types)
    IN  [i \in DOMAIN all |-> IF all[i].kind = "enum" THEN RenderEnumDef(all[i], context)
                              ELSE RenderMessageDefine(all[i], context)]

(* An object for every type, in those of the types it is nested in. *)
RECURSIVE RenderPlaceholders(_)
RenderPlaceholders(types) ==
    [i \in DOMAIN types |->
        [name |-> types[i].name, kind |-> types[i].kind,
         nested |-> IF types[i].kind = "enum" THEN << >>
                    ELSE RenderPlaceholders(types[i].enums \o types[i].nested)]]

(* A message declares its types relative to itself. *)
RECURSIVE RenderTypeDecls(_, _, _)
RenderTypeDecls(enums, messages, context) ==
    [i \in DOMAIN enums |-> RenderEnumTypeDecl(enums[i], context.name)]
    \o FlattenSeq([i \in DOMAIN messages |->
        LET m == messages[i]
            inside == [context EXCEPT !.name = Append(context.name, m.name)]
            fields == NonOneofFields(m)
            Fields(strict) == [j \in DOMAIN fields |->
                                  MessageFieldTypeDecl(strict, fields[j], inside, MapTypes(m))]
            Oneofs(strict) == [k \in DOMAIN m.oneofs |->
                                  OneofTypeDecl(strict, m.oneofs[k], OneofFields(m, k - 1), inside)]
        IN  <<[kind |-> "message", protoName |-> inside.name,
               strict |-> Fields(TRUE), strictOneofs |-> Oneofs(TRUE),
               loose |-> Fields(FALSE), looseOneofs |-> Oneofs(FALSE)]>>
            \o RenderTypeDecls(m.enums, m.nested, inside)])

-----------------------------------------------------------------------------
(* codegen.ts: services *)

FindType(types, name) == SelectSeq(Flatten(types), LAMBDA t : t.fqName = name)

FieldNamed(type, name) == SelectSeq(type.fields, LAMBDA f : f.name = name)

IsSubscription(type) == FieldNamed(type, <<"subscription", "_", "state">>) # << >>

(* A stream of the changes of keyed records, as far as this file declares  *)
(* the types, is reduced by key.                                           *)
DetectMethodReducer(method, types) ==
    LET output == FindType(types, method.output)
        records == FieldNamed(output[1], <<"records">>)
        record == FindType(types, records[1].typeName)
    IN  IF /\ method.serverStreaming
           /\ output # << >> /\ output[1].kind = "message"
           /\ IsSubscription(output[1]) /\ records # << >>
           /\ record # << >> /\ record[1].kind = "message"
           /\ Len(record[1].fields) >= 2 /\ FieldNamed(record[1], <<"key">>) # << >>
        THEN "keepLastByKey" ELSE "keepAll"

(* A method that streams requests is left out. *)
RenderService(svc, types, context) ==
    LET rendered == SelectSeq(svc.methods, LAMBDA method : ~method.clientStreaming)
    IN  [name |-> svc.name, fqName |-> Append(context.name, svc.name),
         methods |-> [i \in DOMAIN rendered |->
            LET method == rendered[i] IN
            [name |-> CamelCase(method.name), wireName |-> method.name,
             encode |-> JsIdentifier(method.input, context),
             decode |-> JsIdentifier(method.output, context),
             reducer |-> IF method.serverStreaming THEN DetectMethodReducer(method, types)
                         ELSE NoFlag]]]

-----------------------------------------------------------------------------
(* codegen.ts: a file *)

Import(name, from) == [name |-> name, from |-> from]

RenderDependencyImport(dep, path) ==
    CASE dep = <<<<"google">>, <<"protobuf">>, <<"wrappers">>>> -> << >>
      [] dep \in {<<<<"google">>, <<"protobuf">>, <<"duration">>>>,
                  <<<<"google">>, <<"protobuf">>, <<"timestamp">>>>} ->
            <<Import(<<"timelib">>, <<<<"@js-joda", "core">>>>)>>
      [] OTHER -> <<Import(ImportNameFor(dep), RelativeImportPath(dep, path))>>

(* Each line once. *)
Unique(lines) ==
    LET first == SelectSeq([i \in DOMAIN lines |-> i],
                           LAMBDA i : \A j \in 1 .. i - 1 : lines[j] # lines[i])
    IN  [k \in DOMAIN first |-> lines[first[k]]]

PathToRoot(path) == [i \in 1 .. Len(path) - 1 |-> <<"..">>]

RenderProtoFile(file, imports, surrogates) ==
    LET enums == EnumDefs(file.package, file.enums, << >>, 5)
        messages == MessageDefs(file.package, file.messages, << >>, 4)
        context == [file |-> file, imports |-> imports, surrogates |-> surrogates,
                    name |-> file.package]
    IN  [path |-> file.path,
         imports |-> Unique(FlattenSeq([i \in DOMAIN file.dependencies |->
                        RenderDependencyImport(file.dependencies[i], file.path)]))
                     \o IF DOMAIN surrogates = {} THEN << >>
                        ELSE <<Import(FromSurrogates, PathToRoot(file.path) \o <<<<"surrogates">>>>)>>,
         placeholders |-> RenderPlaceholders(enums \o messages),
         decls |-> RenderTypeDecls(enums, messages, context),
         defines |-> RenderTypeDefines(enums \o messages, context),
         services |-> [i \in DOMAIN file.services |->
                          RenderService(file.services[i], messages, context)]]
=============================================================================
