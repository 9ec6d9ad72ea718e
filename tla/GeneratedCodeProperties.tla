----------------------- MODULE GeneratedCodeProperties ----------------------
(***************************************************************************)
(* What is expected of generated code: that every reference in it finds    *)
(* the type it stands for, that it writes what protobuf prescribes for the *)
(* descriptors, reads what it wrote, and reads what its types declare.     *)
(* Protobuf is defined here a second time, from the descriptors and from   *)
(* integers: the bytes of every value, and the names references lead to.   *)
(* Of the model it takes what a request says, not what is made of it: names*)
(* in camel case, the types of a file, the well-known wrappers, surrogates,*)
(* representations, and the kinds of value a program has.                  *)
(***************************************************************************)
EXTENDS GeneratedCode

-----------------------------------------------------------------------------
(* The types of the request: [name, scope, of, file]                       *)

RECURSIVE MessagesIn(_, _, _)
MessagesIn(ns, messages, path) ==
    UNION {{[name |-> Append(ns, m.name), of |-> m, file |-> path]}
           \cup MessagesIn(Append(ns, m.name), m.nested, path) : m \in Range(messages)}

RECURSIVE EnumsIn(_, _, _, _)
EnumsIn(ns, enums, messages, path) ==
    {[name |-> Append(ns, e.name), of |-> e, file |-> path] : e \in Range(enums)}
    \cup UNION {EnumsIn(Append(ns, m.name), m.enums, m.nested, path) : m \in Range(messages)}

AllMessages == UNION {MessagesIn(g.package, g.messages, g.path) : g \in Range(request)}
AllEnums == UNION {EnumsIn(g.package, g.enums, g.messages, g.path) : g \in Range(request)}
Described(name) == CHOOSE m \in AllMessages : m.name = name
EnumNamed(name) == CHOOSE e \in AllEnums : e.name = name
PackageOf(path) == (CHOOSE g \in Range(request) : g.path = path).package

IsMapField(f) == f.type = "message" /\ ~WellKnown(f.typeName) /\ Described(f.typeName).of.mapEntry
Entry(f, number) == CHOOSE g \in Range(Described(f.typeName).of.fields) : g.number = number
InOneof(f) == f.oneof # NoOneof /\ ~f.optional
Declared(f) == IF IsMapField(f) THEN Entry(f, 2) ELSE f

-----------------------------------------------------------------------------
(* Types and references                                                    *)

TypeOK ==
    /\ plugin \in {"running", "done", "thrown"}
    /\ request \in Requests \cup {<< >>}
    /\ Len(rendered) <= Len(request)
    /\ \A i \in DOMAIN rendered : rendered[i].path = request[i].path
    /\ exchange.step \in {"none", "encoded", "decoded", "reencoded", "redecoded"}
    /\ exchange.step # "none" =>
            /\ plugin = "done"
            /\ \A i \in DOMAIN exchange.bytes : exchange.bytes[i] \in 0 .. 2 ^ ByteBits - 1

RECURSIVE Tree(_, _)
Tree(ns, placeholders) ==
    FlattenSeq([i \in DOMAIN placeholders |->
        LET here == Append(ns, placeholders[i].name)
        IN  <<<<here, placeholders[i].kind>>>> \o Tree(here, placeholders[i].nested)])

(* A placeholder is an object without a codec until it is defined, and a   *)
(* type of TypeScript without a value until it has one: each type of the   *)
(* proto has one placeholder, one definition and one declaration.          *)
EachDefinedOnce ==
    \A file \in Range(rendered) :
        LET package == PackageOf(file.path)
            types == {<<m.name, "message">> : m \in {m \in AllMessages : m.file = file.path /\ ~m.of.mapEntry}}
                     \cup {<<e.name, "enum">> : e \in {e \in AllEnums : e.file = file.path}}
            Once(seq) == IsInjective(seq) /\ Range(seq) = types
        IN  /\ Once(Tree(package, file.placeholders))
            /\ Once([i \in DOMAIN file.defines |->
                        <<package \o file.defines[i].is, file.defines[i].kind>>])
            /\ Once([i \in DOMAIN file.decls |-> <<file.decls[i].protoName, file.decls[i].kind>>])

(* What TypeScript takes an identifier for, inside the namespace scope: of *)
(* the types with the first name of its path, that of the innermost        *)
(* namespace.                                                              *)
Resolved(file, scope, id) ==
    LET package == PackageOf(file.path)
        names == {t.name : t \in AllMessages \cup AllEnums}
        Sees(i) == SubSeq(scope, 1, i) \o SubSeq(id.path, 1, 1) \in names
        seen == {i \in Len(package) .. Len(scope) : Sees(i)}
    IN
    CASE IsSurrogate(id) -> {n \in DOMAIN Surrogates : Surrogates[n] = id.path[1]}
      [] id.root = Here ->
            {SubSeq(scope, 1, i) \o id.path : i \in {i \in seen : \A j \in seen : j <= i}}
      [] OTHER -> {PackageOf(target.path) \o target.is :
                      target \in {t \in Targets(file, id) : t.path \in {g.path : g \in Range(request)}}}

(* The references of a file: <<scope, identifier, the type meant>>.        *)
RefersTo(file) ==
    LET package == PackageOf(file.path)
        IsCustom(f) == f.type = "enum" \/ (f.type = "message" /\ ~WellKnown(f.typeName))
        InDefine(d) ==
            LET fields == Described(package \o d.is).of.fields
            IN  {<<package, d.reads[i].value.of, Declared(fields[i]).typeName>> :
                    i \in {i \in DOMAIN fields : IsCustom(Declared(fields[i]))}}
        InDecl(d) ==
            LET fields == SelectSeq(Described(d.protoName).of.fields, LAMBDA f : ~InOneof(f))
            IN  {<<d.protoName, d.strict[i].element.of, Declared(fields[i]).typeName>> :
                    i \in {i \in DOMAIN fields : IsCustom(Declared(fields[i]))}}
        InService(s, t) ==
            UNION {{<<package, m.encode, n.input>>, <<package, m.decode, n.output>>} :
                   <<m, n>> \in {<<m, n>> \in Range(s.methods) \X Range(t.methods) :
                                    m.wireName = n.name}}
        source == CHOOSE g \in Range(request) : g.path = file.path
    IN  UNION {InDefine(d) : d \in {d \in Range(file.defines) : d.kind = "message"}}
        \cup UNION {InDecl(d) : d \in {d \in Range(file.decls) : d.kind = "message"}}
        \cup UNION {InService(file.services[i], source.services[i]) : i \in DOMAIN file.services}

(* Names are cut down to what is needed from where they stand, imported    *)
(* files are renamed and found from the directory of the importing one:    *)
(* every reference still leads to the type the proto means.                *)
ReferencesResolve ==
    \A file \in Range(rendered) : \A r \in RefersTo(file) :
        Resolved(file, r[1], r[2]) = {r[3]}

-----------------------------------------------------------------------------
(* The wire format, from the documentation of protobuf                     *)

Wide(type) == type \in LongTypes
SignedType(type) == type \in {"int32", "int64", "sint32", "sint64", "sfixed32", "sfixed64"}

(* The integer a value stands for.                                         *)
Integer(v, base) ==
    CASE "number" \in DOMAIN v -> v.number
      [] "bool" \in DOMAIN v -> v.bool
      [] "digits" \in DOMAIN v ->
            LET n == FoldLeft(LAMBDA k, d : k * base + d, 0, v.digits.digits)
            IN  IF v.digits.negative THEN 0 - n ELSE n

(* The bytes of an integer, base 2^VarintBits, the last without the mark.  *)
Leb128(n) ==
    LET radix == 2 ^ VarintBits
        length == CHOOSE k \in 1 .. 10 : n < radix ^ k /\ (k = 1 \/ n >= radix ^ (k - 1))
    IN  [i \in 1 .. length |->
            ((n \div radix ^ (i - 1)) % radix) + (IF i < length THEN radix ELSE 0)]

Bytes(n, count) == [i \in 1 .. count |-> (n \div 2 ^ (ByteBits * (i - 1))) % (2 ^ ByteBits)]

PrescribedInteger(type, n) ==
    LET word == 2 ^ WordBits
        double == n % (word * word)
    IN
    CASE type \in {"sint32", "sint64"} -> Leb128(IF n >= 0 THEN 2 * n ELSE -2 * n - 1)
      [] type \in {"fixed32", "sfixed32"} -> Bytes(n % word, 4)
      [] type \in {"fixed64", "sfixed64"} -> Bytes(double % word, 4) \o Bytes(double \div word, 4)
      [] OTHER -> Leb128(double)

IsFloating(type) == type \in {"float", "double"}
Prefixed(bytes) == Leb128(Len(bytes)) \o bytes

(* A scalar field without presence is left out when it is zero.            *)
PrescribedScalar(number, type, variation, v, present) ==
    LET base == IF variation \in {"hex", "hexpad"} THEN 2 ^ HexBits ELSE 10
        n == Integer(v, base)
        content == CASE type = "string" -> v.text [] type = "bytes" -> v.bytes
        Tagged(wireType, data) ==
            (IF number = NoNumber THEN << >> ELSE Leb128(8 * number + wireType)) \o data
    IN
    CASE type \in {"string", "bytes"} ->
            IF content = << >> /\ ~present THEN << >> ELSE Tagged(2, Prefixed(content))
      [] type \notin {"string", "bytes"} ->
            IF n = 0 /\ ~present THEN << >>
            ELSE Tagged(CASE type \in {"fixed32", "sfixed32"} -> 5
                          [] type \in {"fixed64", "sfixed64"} -> 1
                          [] OTHER -> 0, PrescribedInteger(type, n))

EnumInteger(f, v) ==
    CASE "enum" \in DOMAIN v -> v.enum.number
      [] "enumNumber" \in DOMAIN v -> v.enumNumber
      [] "enumName" \in DOMAIN v ->
            LET e == EnumNamed(f.typeName).of
                named == {d \in Range(e.values) : EnumValToJsName(e.name, d.name) = v.enumName}
            IN  IF named = {} THEN 0 ELSE (CHOOSE d \in named : TRUE).number

Variation(file, f, path) ==
    LET flags == IF path \in DOMAIN file.comments THEN file.comments[path] ELSE << >>
        own == SelectSeq(flags, LAMBDA flag : flag.name = "representation")
    IN  IF own = << >> THEN NoFlag ELSE own[1].args

(* Present: the field has a value of its own, were it the default.         *)
RECURSIVE PrescribedMessage(_, _), PrescribedValue(_, _, _, _)
PrescribedValue(f, v, variation, present) ==
    CASE f.type = "enum" ->
            PrescribedScalar(f.number, "int32", NoFlag, [number |-> EnumInteger(f, v)], present)
      [] f.type \notin {"enum", "message"} ->
            PrescribedScalar(f.number, f.type, variation, v, present)
      [] f.type = "message" /\ WellKnown(f.typeName) ->
            LET of == Wrappers[f.typeName[3]]
                time == IF of = "timestamp" THEN v.timestamp ELSE v.duration
            IN  Leb128(8 * f.number + 2) \o Prefixed(
                    IF of \in {"timestamp", "duration"}
                    THEN PrescribedScalar(1, "int64", NoFlag, [number |-> time.seconds], FALSE)
                         \o PrescribedScalar(2, "int32", NoFlag, [number |-> time.nanos], FALSE)
                    ELSE PrescribedScalar(1, of, variation, v, FALSE))
      [] f.type = "message" /\ ~WellKnown(f.typeName) ->
            IF v = DefaultSurrogate THEN << >>
            ELSE Leb128(8 * f.number + 2) \o Prefixed(PrescribedMessage(f.typeName,
                IF f.typeName \in DOMAIN Surrogates THEN FromSurrogate(v) ELSE v))

Absent(f, v) ==
    \/ v = Undefined
    \/ f.type \in LongTypes /\ ~f.repeated /\ v = [digits |-> [negative |-> FALSE, digits |-> << >>]]
    \/ f.type = "message" /\ f.typeName \in DOMAIN Surrogates /\ v = DefaultSurrogate

KeyOf(f, name) ==
    CASE "boolName" \in DOMAIN name -> [bool |-> IF name.boolName = "true" THEN 1 ELSE 0]
      [] OTHER -> name

(* Fields in the order of the proto, those of oneofs after the others.     *)
PrescribedMessage(name, v) ==
    LET m == Described(name)
        file == CHOOSE g \in Range(request) : g.path = m.file
        location == (CHOOSE t \in TypesOf(file) : t.name = name).path
        Value(f) == v.fields[CamelCase(f.name)]
        Has(i) == CamelCase(m.of.fields[i].name) \in DOMAIN v.fields /\ ~Absent(m.of.fields[i], Value(m.of.fields[i]))
        EntriesOf(f) == IF "map" \in DOMAIN Value(f) THEN Value(f).map
                      ELSE [i \in DOMAIN Value(f).object |->
                              <<KeyOf(f, Value(f).object[i][1]), Value(f).object[i][2]>>]
        Field(i) ==
            LET f == m.of.fields[i]
                variation == Variation(file, f, location \o <<2, i - 1>>)
            IN
            CASE IsMapField(f) ->
                    FlattenSeq([k \in DOMAIN EntriesOf(f) |-> Leb128(8 * f.number + 2) \o Prefixed(
                        PrescribedValue(Entry(f, 1), EntriesOf(f)[k][1], variation, FALSE)
                        \o PrescribedValue(Entry(f, 2), EntriesOf(f)[k][2], variation, FALSE))])
              [] ~IsMapField(f) /\ f.repeated ->
                    IF f.type \in {"string", "bytes", "message"}
                    THEN FlattenSeq([k \in DOMAIN Value(f).items |->
                            PrescribedValue(f, Value(f).items[k], variation, TRUE)])
                    ELSE IF Value(f).items = << >> THEN << >>
                    ELSE Leb128(8 * f.number + 2) \o Prefixed(
                        FlattenSeq([k \in DOMAIN Value(f).items |->
                            PrescribedValue([f EXCEPT !.number = NoNumber], Value(f).items[k], variation, TRUE)]))
              [] OTHER -> PrescribedValue(f, Value(f), variation, f.optional \/ InOneof(f))
        InOrder(inOneof) ==
            SelectSeq([i \in DOMAIN m.of.fields |-> i],
                      LAMBDA i : InOneof(m.of.fields[i]) = inOneof /\ Has(i))
    IN  FlattenSeq([k \in DOMAIN InOrder(FALSE) |-> Field(InOrder(FALSE)[k])])
        \o FlattenSeq([k \in DOMAIN InOrder(TRUE) |-> Field(InOrder(TRUE)[k])])

ExchangedName ==
    PackageOf(exchange.file) \o ExchangedDef.is

(* The names of the oneof members that are set, or would be.               *)
Sent(f) == IF f.name \in DOMAIN exchange.value.fields THEN exchange.value.fields[f.name] ELSE Undefined

FloatingMessage(name) == \E f \in Range(Described(name).of.fields) : IsFloating(f.type)

(* Where the code does not write what protobuf prescribes: a member of a   *)
(* oneof and an optional enum that have their default value.               *)
DefaultWithPresence(name, v) ==
    \E f \in Range(Described(name).of.fields) :
        /\ InOneof(f) \/ (f.optional /\ f.type = "enum")
        /\ CamelCase(f.name) \in DOMAIN v.fields
        /\ LET value == v.fields[CamelCase(f.name)] IN
           /\ ~Absent(f, value)
           /\ CASE f.type = "enum" -> EnumInteger(f, value) = 0
                [] f.type = "string" -> value.text = << >>
                [] f.type = "bytes" -> value.bytes = << >>
                [] f.type = "message" -> FALSE
                [] OTHER -> Integer(value, 10) = 0

(* A message is encoded to the bytes protobuf prescribes for its           *)
(* descriptor: the numbers, wire types and lengths of the writers that the *)
(* generator names, the two's complement, zigzag and word arithmetic of    *)
(* write-value.ts, whatever form the program gave each value.              *)
WireIsPrescribed ==
    exchange.step = "encoded" =>
        LET name == ExchangedName IN
        \/ FloatingMessage(name) \/ DefaultWithPresence(name, exchange.value)
        \/ exchange.bytes = PrescribedMessage(name, exchange.value)

-----------------------------------------------------------------------------
(* What is read                                                            *)

Modulo(type, n) ==
    LET size == IF Wide(type) THEN 2 ^ (2 * WordBits) ELSE 2 ^ WordBits
    IN  IF SignedType(type) /\ n % size >= size \div 2 THEN (n % size) - size ELSE n % size

FloatMagnitudes ==
    {m * FloatLeast : m \in 0 .. 2 ^ FloatMantissaBits - 1}
    \cup {(2 ^ FloatMantissaBits + m) * FloatLeast * 2 ^ e :
             m \in 0 .. 2 ^ FloatMantissaBits - 1, e \in 0 .. 2 ^ FloatExponentBits - 3}

Distance(a, b) == IF a < b THEN b - a ELSE a - b

(* The mantissa of a float is rounded up to the next power of two, and the *)
(* exponent does not follow: what is read is half of what it should be.    *)
CarriesOver(v) ==
    /\ v.is = "finite" /\ v.n >= FloatMin /\ v.n <= FloatMax
    /\ Round(v.n, Power(Exponent(v.n) - FloatMantissaBits)) = 2 ^ (FloatMantissaBits + 1)

SameFloat(type, sent, got) ==
    CASE type = "double" \/ sent.is # "finite" -> got = sent
      [] type = "float" /\ sent.is = "finite" ->
            IF sent.n > FloatMax THEN got = Infinite(sent.sign)
            ELSE CarriesOver(sent)
                 \/ /\ got.is = "finite" /\ got.sign = sent.sign /\ got.n \in FloatMagnitudes
                    /\ \A n \in FloatMagnitudes : Distance(got.n, sent.n) <= Distance(n, sent.n)

SameScalar(of, sent, got) ==
    LET base == IF of[2] \in {"hex", "hexpad"} THEN 2 ^ HexBits ELSE 10 IN
    CASE "float" \in DOMAIN sent -> SameFloat(of[1], sent.float, got.float)
      [] {"text", "bytes", "timestamp", "duration"} \cap DOMAIN sent # {} -> got = sent
      [] OTHER -> Modulo(of[1], Integer(sent, base)) = Integer(got, base)

RECURSIVE SameMessage(_, _, _, _)
SameValue(file, codec, sent, got) ==
    CASE codec.wrap \in {"always", "optional", "wrapper"} ->
            IF sent = Undefined \/ (codec.wrap = "optional" /\ IsNil(sent)) THEN got = DefVal(file, codec)
            ELSE IF IsNil(sent) THEN got = ZeroOf(codec.of)
            ELSE SameScalar(codec.of, sent, got)
      [] codec.wrap = "enumeration" ->
            IF sent = Undefined THEN got.enum.number = 0
            ELSE "enum" \in DOMAIN got /\ got.enum \in Range(Definition(file, codec.of).def.values)
                 /\ CASE "enumName" \in DOMAIN sent -> got.enum.jsName = sent.enumName
                      [] "enumNumber" \in DOMAIN sent -> got.enum.number = sent.enumNumber
                      [] OTHER -> got = sent
      [] codec.wrap = "message" ->
            IF IsSurrogate(codec.of) THEN got = (IF sent = Undefined THEN DefaultSurrogate ELSE sent)
            ELSE IF sent = Undefined THEN got = Undefined
            ELSE LET type == Definition(file, codec.of)
                 IN  SameMessage(type.file, type.def, sent, got)

(* A list of surrogates is read as if it were packed, and what comes last  *)
(* replaces the rest: of what was sent, some items are lost.               *)
IsSurrogateList(f) == f.form = "repeated" /\ f.value.wrap = "message" /\ IsSurrogate(f.value.of)

SameField(file, f, sent, got) ==
    LET Same(v, w) == SameValue(file, f.value, v, w)
        named == IF "map" \in DOMAIN sent
                 THEN [i \in DOMAIN sent.map |-> <<KeyName(sent.map[i][1]), sent.map[i][2]>>]
                 ELSE sent.object
    IN
    CASE f.form = "one" -> Same(sent, got)
      [] f.form # "one" /\ sent = Undefined -> got = FieldDefault(file, f)
      [] IsSurrogateList(f) /\ sent # Undefined -> Range(got.items) \subseteq Range(sent.items)
      [] f.form \in {"packed", "repeated"} /\ ~IsSurrogateList(f) /\ sent # Undefined ->
            /\ Len(got.items) = Len(sent.items)
            /\ \A i \in DOMAIN sent.items : Same(sent.items[i], got.items[i])
      [] f.form = "map" /\ sent # Undefined ->
            /\ Len(got.object) = Len(named)
            /\ \A i \in DOMAIN named :
                  got.object[i][1] = named[i][1] /\ Same(named[i][2], got.object[i][2])

SameMessage(file, def, sent, got) ==
    \A f \in Range(def.reads) :
        SameField(file, f, IF f.name \in DOMAIN sent.fields THEN sent.fields[f.name] ELSE Undefined,
                  got.fields[f.name])

(* What is decoded is what was encoded: every property that was given has  *)
(* its value, in the strict form, and every other one the default.  Two    *)
(* properties are held to less, where the code does not give back what it  *)
(* wrote: a float whose mantissa rounds up to a power of two (CarriesOver) *)
(* and a list of surrogates, of which no item is made up (IsSurrogateList).*)
FieldsRoundTrip ==
    exchange.step = "decoded" =>
        SameMessage(FileAt(exchange.file), ExchangedDef, exchange.value, exchange.read)

(* The kind of a value, as the declarations name it.                       *)
KindOf(v) ==
    CASE {"number", "float"} \cap DOMAIN v # {} -> "number"
      [] {"digits", "text"} \cap DOMAIN v # {} -> "string"
      [] OTHER -> CHOOSE kind \in DOMAIN v : TRUE

Fits(element, v) ==
    IF element.builtin THEN KindOf(v) \in element.kinds
    ELSE IF IsSurrogate(element.of) THEN {"surrogate", "surrogateDefault"} \cap DOMAIN v # {}
    ELSE {"fields", "enum"} \cap DOMAIN v # {}

FitsField(d, v) ==
    \/ v = Undefined /\ (d.undefined \/ d.optional)
    \/ CASE d.form = "one" -> Fits(d.element, v)
         [] d.form = "array" -> "items" \in DOMAIN v /\ \A i \in DOMAIN v.items : Fits(d.element, v.items[i])
         [] d.form = "map" -> "object" \in DOMAIN v /\ \A i \in DOMAIN v.object : Fits(d.element, v.object[i][2])

(* What is decoded is of the strict type that was declared: no property is *)
(* undefined, or of another kind, unless the declaration says so; of a     *)
(* oneof the member that was read.                                         *)
DecodedFitsDeclaration ==
    exchange.step = "decoded" =>
        LET decl == CHOOSE d \in Range(FileAt(exchange.file).decls) : d.protoName = ExchangedName
            fields == exchange.read.fields
        IN  /\ \A d \in Range(decl.strict) : d.name \in DOMAIN fields /\ FitsField(d, fields[d.name])
            /\ \A k \in DOMAIN decl.strictOneofs :
                    LET oneof == decl.strictOneofs[k]
                        case == exchange.read.cases[oneof.none]
                    IN  case # << >> => \E d \in Range(oneof.members) :
                            /\ d.name = case
                            /\ Fits(d.element, fields[case])

(* A decoded message is one that encode takes.  The properties of a        *)
(* prototype are there for the "in" of the generated code whatever was     *)
(* read, and may not change what is written; a message with a oneof is the *)
(* exception, see OneofSurvives.                                           *)
ReencodesAlike ==
    exchange.step = "redecoded" =>
        (DOMAIN exchange.read.cases = {} => exchange.readAgain = exchange.read)

(* "make sure that exactly one of them gets encoded": of the members of a  *)
(* oneof, the one that a decoded message has.                              *)
OneofSurvives ==
    exchange.step = "redecoded" => exchange.readAgain.cases = exchange.read.cases
=============================================================================
