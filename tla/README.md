# Verification of tsgrpc

TLA+ models of [dmgtech/tsgrpc](..), a TypeScript gRPC stack (code generator,
protobuf codec, React hook, browser and React Native drivers), the TLC
configurations that model-check them, and proofs that TLAPS checks.
`PROJECT.json` lists the runs, the mutants that show each property can fail,
the source lines of every definition, the findings, the hazards and the
theorems.

    tlc -workers 2 -config MCGrpcBridge.cfg MCGrpcBridge
    tlapm GrpcBridge_proofs.tla

## 1. The system

| Component | State it keeps | Operations | Talks to |
|---|---|---|---|
| `react-native-grpc/src` (`index.tsx`, `callState.ts`) | the emitter and its listener, `callStates` (id -> queue, waiter), `pingResolves`, one suspended async function per call | `unaryCall`, `serverStreamingCall`, `ping`, `shutdown`, `onCallEvent` | native module: promises (`createCall`, `ping`) and events (`grpc-call`, `grpc-pong`) |
| Android module (`GrpcModule.kt`) | `nextId`, `activeCalls`, a single-threaded executor, the channel | `createCall`, `ping`, `send`, `check`; the observer's `onMessage`, `onClose` | gRPC (observer threads), JavaScript |
| iOS module (`Grpc.swift`) | the same, on an `OperationQueue` | the same; only unary calls are carried | the same |
| codec writer (`writer.ts`) | buffer, cursor, index, level stack, counters; the process-wide shared writer and its in-use flag | `begin`, `end`, `writeByte`, `writeBlock`, `finish`, `clear`; `useWriter` | everything that encodes a message |
| codec reader (`reader.ts`, `read-value.ts`, `field-types.ts`, `messages.ts`) | cursor of a reader; vtable and unknown fields of a message being decoded | `tag`, `skip`, value readers, field readers (`repeated`, `map`, `oneof`, `maybe`, messages), `decode` | generated code |
| codec field writers (`write-field.ts`, `write-value.ts`) | none (uses the writer) | one writer per field type, packed, map and message writers | the writer |
| codec enumerations, surrogates, reducers, services | none | `define`, converters, `keepLast`, `keepAll`, `keepLastByKey`, method objects | hook, generated code |
| `tsgrpc-react` | React state (`current`, `finished`, `stale`, ...), the cancel scope of the last effect, one loop per effect | `useExternalState`: effect, cleanup, streaming loop with retry, unary call | React, `@dmgtech/cancelable`, `tsgrpc` |
| `tsgrpc` | the driver of a context | `use`, `unaryCall` | a driver |
| `tsgrpc-driver-web` | channel cache, defaults; one subscription per stream | `configure`, unary and streaming calls over grpc-web, cancel | grpc-web, a pub-sub library |
| `tsgrpc-driver-react-native` | none | `unaryCall` with defaults for the address; a stream that is empty | `react-native-grpc` |
| `tsgrpc-codegen` | import and name tables while one file is generated | descriptors to TypeScript text | protoc |

What is hard here:

- *Three schedulers in one call.* A React Native call crosses the JavaScript
  event loop (tasks, then microtasks to exhaustion), the native executor (one
  task at a time) and gRPC's own threads. The end of a call, its messages, the
  answer to `createCall`, a rejection, `shutdown` and an early `return` of the
  consumer meet in any order.
- *Loops that outlive their component.* The hook's loops sleep, read streams and
  retry; the component re-renders, changes its request, or goes away.
- *A writer that produces bytes out of order.* A length is known after the
  content it precedes; the writer keeps an index with holes and sorts it out at
  the end. A process-wide writer is shared by callers that nest and throw.
- *A reader that must stay in step.* A field skipped by one byte too few turns
  values into tags.
- *64-bit integers in a language that has none.* They are two words, a double
  that is exact up to a point, or a string of digits, with shifts that work
  modulo 2^32 and divisions in chunks.
- *Two programs that have to agree.* The generator names writers, readers,
  types and imports; the codec gives the names their meaning, and a declaration
  is only as good as what the reader returns.
- *A stream between two clocks.* grpc-web publishes events whenever they come, a
  generator reads them when it is asked, a reducer folds changes into a state.

What makes each component correct:

- bridge: an event reaches the call it belongs to, once, in order, and a caller
  learns the end after the last message; nothing awaited is forgotten; the maps
  on both sides do not leak and do not drop a call that runs;
- writer: `finish` returns the bytes of a message written level by level with
  lengths in front; the shared writer is usable after every use and nobody gets
  another's bytes;
- hook: what is shown is of the request that was rendered last; a canceled loop
  leaves no stream open and stops; a live one is retried;
- reader: what a writer of the format produced is read back, whatever unknown
  fields surround it and however a field was split;
- generator and codec: a reference in a generated file leads to the type the
  proto means, the bytes are those protobuf prescribes, every field comes back,
  as the type that was declared, and can be encoded again;
- drivers: a call goes where its configuration says and in the clear only if it
  says so; a stream is read whole and in order, its reader is released, and the
  reduced records are those of the server.

## 2. Modules

| Module | Models |
|---|---|
| `GrpcBridge` | `react-native-grpc`: JavaScript, native module, gRPC threads, together |
| `CallService` | abstract: what a caller is promised |
| `GrpcBridgeRefinement` | the refinement mapping from `GrpcBridge` to `CallService` |
| `NestingWriter` | `allocateNestingWriter` |
| `NestedBuffers` | abstract: a stack of byte strings (the tests' own mock writer, with `finish` and `clear`) |
| `SharedWriter` | `allocateSharedWriter` and `useSharedWriter` |
| `ExternalState` | `useExternalState` with React, the network and `cancelable` |
| `FieldWriters` | `write-field.ts`: the bytes of a field, by its type |
| `MessageDecode` | the readers of messages and fields, on what `FieldWriters` writes |
| `ScalarCodec` | integers of `write-value.ts`, `read-value.ts`, and the strings of `join64.ts` |
| `FloatCodec` | `float` and `double` of the same files |
| `Codegen` | the generator, from descriptors to what each file defines and refers to |
| `GeneratedCode` | a run of the generator, and what it rendered at work: encode, decode, encode again |
| `GeneratedCodeProperties` | protobuf a second time, from descriptors and integers, and what is expected of generated code |
| `Drivers` | `tsgrpc`, its two drivers, the stream of grpc-web events and `keepLastByKey` |
| `DecodableInputs` | what the theorems about `MessageDecode` ask of its inputs |
| `GrpcBridge_proofs`, `GrpcBridgeDelivery_proofs` | theorems about `GrpcBridge`: its maps; what it delivers, and that it implements `CallService` |
| `MessageDecode_proofs` | theorems about `MessageDecode` and the bytes of `FieldWriters` |
| `NestingWriter_proofs`, `SharedWriter_proofs`, `ExternalState_proofs`, `Drivers_proofs` | theorems about the module of that name |
| `NaturalSets` | induction over the natural numbers, for those proofs |
| `MCGrpcBridge`, `MCNestingWriter`, `MCMessageDecode`, `MCGeneratedCode`, `MCDrivers` | instances for TLC |

### GrpcBridge

One TLA+ action is one run-to-completion piece of code: a synchronous call by
the application (`StartCall`, `Ping`, `Pull`, `Return`, `Shutdown`), a microtask
(`Register`, `ResumeUnary`, `ResumeStream`), a JavaScript task (`TakeCreated`,
`TakeRejected`, `TakeEvent`, `TakePong`, `TakeSent`), an executor task
(`RunCreateCall`, `RunPing`, `RunEmit`), the native modules thread
(`NativeCreateCall`) or a callback of a gRPC thread (`OnNext`, `OnCompleted`,
`OnError`). `pc[c]` says where the async function of call `c` is suspended,
`handed[c]` what the promise it awaited resolved to. `callState.ts` appears as
operators on `callStates` with the names of its functions.

Assumed of the platform, and used by the model: the React Native bridge
delivers each message as its own JavaScript task, in the order sent, and
microtasks run before the next task (`MicrotasksDrained`); executors are FIFO;
promise resolutions and events use one channel (`toJs`). The *application* acts
at any time, also between two microtasks, which is more than a real event loop
allows. `Platforms` are the native modules of the instance, `platform` is the
one the program runs on, chosen once. `UnaryCalls` and `StreamCalls` are
invocations, not methods; the payload of the k-th message of a server is the
number k. A unary server sends at most one message. `check` and `send` of the
native modules are never called from JavaScript and are left out; so is the
channel cache. When gRPC reports a failure of a call whose request could not be
sent, it may do so at once, later or never (`LaunchThrows`, `OnError`).

`CallService` has no bridge: a call is started, launched or refused, the server
produces messages 1, 2, ... and closes; the caller takes them in order, and
learns the end only after it took them all. The mapping hides the queues: a
caller awaiting anything is `pending`, `delivered` is what it took.

### NestingWriter, NestedBuffers, SharedWriter

`NestingWriter` has the variables of the closure in `writer.ts`: `buffer`,
`cursor`, `index`, `levelStack`, `written`, `uncommitted`. A store beyond the
end of a `Uint8Array` does nothing and a `subarray` is clipped, as in
JavaScript. `output` is what the last operation returned. `NestedBuffers` has
`begin`, `end` and the writes of the reference writer of the repository's tests
(`test/mock.ts`), and `finish` and `clear`, which that writer does not have, as
`writer.ts` promises them; a `Throw` changes nothing there. The refinement
mapping reads its stack of buffers off the index: the pieces between two open
holes are a level.

`SharedWriter` models `useSharedWriter` with callbacks as an explicit stack of
uses: a callback may write, open levels, use the shared writer again, throw, or
have the shared writer replaced under it.

### FieldWriters, MessageDecode

A *part* is one call of a field writer: a number, the type of the field, a value
(one item of a repeated field, one entry of a map). `FieldWriters` turns parts
into bytes; a message of the model is a sequence of parts, so it may have fields
in any order, fields that come several times, and fields its reader does not
know or knows with another type. The state of `MessageDecode` is that of the
loop in `makeMessageVTableReader`: the cursor, the vtable and the unknown
fields. `TakeField` is one turn of it, with everything inside the field; the
readers are operators that return a value, a returned `Error`, a thrown one, or
that they never return, and where the cursor is then. `MergeAll` is the
reference: parts merged one after the other by the rules of protobuf, without a
byte.

A message inside a field is read by a reader of the same kind (`createMessage` and
`makeMessageReader` in `messages.ts`). A recursive operator would put the module
beyond the prover, so the module is *given* the writer and reader of what is
inside, `WriteContents` and `ReadContents`, what such a message should be
(`MergeContents`) and its type (`IsContents`), as the code's field types are
given their content readers. The `.cfg` gives it its own operators
(`ReadContents <- InnerRead`, which is `ReadFields`, and so on), and messages nest
without end. The loops of the readers (`Loop`) take at most one turn per byte; each
turn takes a byte or more, so they take all they need. `TypeOK` says of an inner message that each of
its slots holds a value of its field, at every depth.

The left-out inputs. `Whole` keeps packed chunks that are not the first of their
field out of the outermost message, and `MCParts` has none of the following,
because the code is known not to decode them as protobuf says; the operators
model what it does, and adding the input to `MCParts` shows it:

- a second packed chunk of a field replaces the first (`field-types.ts:216`), in
  the outermost message and in the blocks of an inner one;
- an unknown field of 128 bytes or more (`read-value.ts:263`; run `message_long`);
- an unknown field inside a wrapper message is not skipped (`field-types.ts:69`);
- a oneof member of the wrong wire type is stored as an `Error`
  (`field-types.ts:256`);
- a repeated *message* field of another wire type is not skipped
  (`messages.ts:264` with `field-types.ts:219`);
- a oneof member that holds a default value is not written (`codegen.ts:295`),
  so its reader does not learn which member was set.

### ScalarCodec, FloatCodec, Codegen, GeneratedCode

The state of `GeneratedCode` is a run of the plugin (`RunPlugin`, `RenderFile`,
`RenderThrows`, `PluginDone`) and one message on its way (`Encode`, `Decode`,
then `Reencode` of what was read and `Decode` once more). The data are in the
operators, in two layers that meet in names:

- `Codegen` makes of a file descriptor a record of what its text says: imports,
  placeholders, definitions (for each field the writer and the reader), strict
  and loose declarations, services. An identifier is a root (this file, or the
  name of an import) and a path. Its operators have the names of the functions
  of `codegen.ts`, `preprocess.ts`, `names.ts` and `proto-field-types.ts`.
- `GeneratedCode` gives the writers and readers their meaning
  (`WriteContents`, `ReadContents`) from `write-field.ts`, `field-types.ts`,
  `messages.ts`, `enums.ts`, `customize.ts`; the words and bytes are those of
  `ScalarCodec` and `FloatCodec`. A reference is looked up as the module system
  does (`Targets`, `Definition`), so a wrong one has no meaning and TLC stops.

Widths are parameters. A word has 4 septets and a rest, as 32 = 4 * 7 + 4; the
instance has septets of 3 bits and words of 14, so 64 bits become 28 and stay
inside the integers of TLC with all the boundaries where they were: the byte,
the word, the sign, the exact integers (2^23 for 2^53), the chunks of
`unsignedDecimal` (10 bits and 3 digits for 24 and 7). A float has 6 bits and a
double 12, with denormals, infinities, NaN and rounding from one to the other.

`GeneratedCodeProperties` is the reference. It does not use the operators that
write, only those that say what a request and a value are (names in camel case,
the types of a file, wrappers, surrogates, representations): `PrescribedMessage` goes over the *descriptor* with arithmetic on
integers (`Leb128`, `Bytes`, two's complement as `% 2^n`) and the wire types of
the protobuf documentation. `Resolved` is how TypeScript finds a name inside
nested namespaces, `RefersTo` what the proto means there.

What the properties leave out, each by name in the module:

- `WireIsPrescribed` skips messages with floating point (`FloatingMessage`;
  `FieldsRoundTrip` holds those to the nearest float there is) and
  `DefaultWithPresence`: a oneof member (`codegen.ts:295`) and an optional enum
  (`codegen.ts:216`, the writer of an enum does not know of presence) that hold
  their default are not written, where protobuf writes them. `OneofSurvives`
  does not see this either: it is about which member is written;
- `CarriesOver`: the mantissa of a float that rounds up to the next power of two
  loses the carry (`write-value.ts:168`), and half the value is read;
- `IsSurrogateList`: the codec made by `usingSurrogate` has no `wireType`
  (`customize.ts:40`; `NoWireType`), so `repeated` (`field-types.ts:209`) takes
  each item for a packed chunk that replaces the list. Of a list of surrogates
  the last item that was written comes back, or nothing if that one has no
  content; `FieldsRoundTrip` asks only that no item is made up.
  `WireIsPrescribed`, `DecodedFitsDeclaration` and `ReencodesAlike` hold of such
  lists (`ArgsList` in the instance) without an exception;
- `ReencodesAlike` leaves messages with a oneof to `OneofSurvives` (run `oneof`).

What the requests leave out, because the generated file would not compile or
not run: nested types that shadow the one meant (`names.ts:20`), two files
whose import names coincide (`names.ts:25`, which replaces the first separator
only), optional fields of the types whose optional writer the library lacks, a
map whose keys take the `@representation` of its values (`codegen.ts:272`),
comments of types nested behind a map entry (`preprocess.ts:74` filters before
it numbers), a surrogate whose field is left out of a message that is encoded
(`fromSurrogate` gets `undefined`), and proto groups except that they throw
(`RenderThrows`). An enum number that the reader does not know throws
(`enums.ts:58`); the samples are known ones. The decoded form of a map is an
object, which is what the declarations say; the repository's `README.md:62`
speaks of a `Map`. That JavaScript lists keys that look like numbers first is
not modelled.

### Drivers

`driver` is the context's; `calls[c]` and `streams[s]` say what became of a call.
A configuration is what `configure` fills in: kind, host (with the scheme it may
carry), port, `secure`. `Uri` and `NativeAddress` are the two address
computations. A stream has two ends: the handlers of `callStream` (`OnData`,
`OnError`, `OnStatus`, `OnEnd`), which grpc-web calls in the orders its protocol
allows, and the loop that reads (`TakeEvent`, `TakeEnd`), which reduces what it
gets. Between them is the subscription, `published`. `Cancel` and `Leave` come at
any time. The channel map is not state: a channel is made of its key alone.
Streams always go to the page's own origin: the path that is handed to
grpc-web has no host in front, whatever the configuration says.

Not in the inputs of `keepLastByKey`: a first message with a tombstone or with a
key twice (the first message becomes the state as it is, `reducers.ts:17`; the
model states this as `SnapshotsAssumption`) and values that are falsy but not
absent (a new one is dropped, `reducers.ts:35`; every value of the model but
`Absent` stands for one that is true).

### ExternalState

A *generation* is one run of the effect: its request, whether it was canceled,
its call and where its loop is suspended. React renders and runs effects as it
pleases (`Render`, `Effect`, `Unmount`); JavaScript runs to completion, so while
a loop is between its dispatch and the registration of its call's cancel
(`pc = "sending"`) only an effect flushed by that dispatch runs (`Quiet`).
`RegisterRunsLate` is the behaviour of the external `cancelable` package
(registering with a canceled scope runs the callback at once); it is a constant
because the source of the package is not in the repository.

## 3. Runs

All bounds are in the `.cfg` files.

| Run | Question | Bounds |
|---|---|---|
| `bridge` | safety and refinement of the bridge, on Android and on iOS | a unary call, a stream of up to two messages, a ping, one shutdown: 665,000 states |
| `bridge_live` | liveness on Android: `createCall` answered, awaited call progresses, ping returns | the same with one message: 220,000 states |
| `bridge_ios_ping` | ping on iOS (violated) | one ping |
| `writer` | index, counters and result of the writer | 8 bytes, two open levels, a buffer of 2 that grows both ways, base-2 varints |
| `shared_writer` | re-entrant and failing uses | three uses, two writers, two bytes each |
| `external_state` | staleness, orphans, retry | two streams and a unary request, three generations, two responses |
| `external_keepall` | keepAll keeps all (violated) | one stream, one generation, two responses |
| `message_decode` | types, in step, merged, mismatches throw; and, as `ASSUME`s, that these inputs are such as the theorems ask for | up to three of 26 parts: 78,000 states |
| `message_long` | a long unknown field is skipped (violated) | up to two of two parts |
| `generated_code` | references, wire format, round trip, declarations, re-encoding | three requests of two to five files, 39 integers, 218 floating point numbers: 17,900 states |
| `oneof` | a decoded oneof survives encoding (violated) | the same |
| `drivers` | addresses, order and completeness of a stream, reduced state, release of the reader | five configurations, a call, a stream of up to three messages: 303,000 states |

Why these bounds: on the bridge, two calls are enough for an event to be given
to the wrong one, and two messages plus an end for any pair to be swapped, lost
or repeated; every queue of the model then holds three items at once. For the
writer, varints of one binary digit make a level of two bytes already need a
length of two bytes, so the width of a length varies within eight bytes of
message; two levels give a hole inside a hole. In the hook, three generations
give a loop that is two requests old, and a component that returns to an
earlier request. In `message_decode` three pieces give a field, what comes
between, and the same field again; a byte of a varint carries three bits (`Base
= 8`), so tags take two bytes and both widths of a value occur, while the loops
of the readers are those for 128. In `generated_code` the requests are those of
the generator's tests (every scalar type in every form, references inward,
outward, sideways and to other files, maps, oneofs, optional fields, well-known
types, surrogates, representations); a message has one field, with every
sample, or all of them at once; the integers stand on both sides of every
boundary above. In `drivers` the configurations are those that take another
branch of an address; three messages give a snapshot, a change, and a change of
what was changed or removed. Model values are not declared symmetric: with one
call of each kind there is nothing to gain.

`CHECK_DEADLOCK FALSE` is set where the system may stop: every call settled, a
component gone, a callback returned. The writer, the generator and the drivers
(a program may always select a driver) never stop and are checked for deadlock.

**Fairness.** Weak fairness of each microtask, of the native modules thread, of
JavaScript tasks and of the executor: these are run-to-completion queues that
nothing blocks. Nothing is assumed of the application (it may never pull a
stream again) nor of the network (a server may never answer), so the liveness
properties start from what has already arrived. In `ExternalState` effects and
the registration of a cancel are weakly fair; a timer is strongly fair, because
another loop's run-to-completion turn can disable it again and again but does
not starve it. In `Drivers` only the reader is fair: the event loop resumes a
generator whose next event is there; nothing is assumed of grpc-web, the server
or the program. Nothing ends a subscription after a cancel, so `ReaderReleased`
starts from a call that failed or was closed.

**Mutants.** Each property of a passing run has a mutated definition (`Mut...`,
beside the original) that breaks it: a dropped guard, a missing reset, `pop` for
`shift`, an event given to every caller that waits.

## 4. Findings

Each is a run that TLC refutes against a sentence of the repository:

1. `bridge_ios_ping`: the iOS pong carries `"1.0"`, the listener looks for the
   key `1`; `ping()` never returns.
2. `external_keepall`: the streaming loop never assigns its reduced state, so
   `keepAll` keeps the last response only.
3. `message_long`: `skip` takes the length of a block from the last byte of its
   prefix, so the reader goes out of step after an unknown field of 128 bytes or
   more. The test of a long block has a wrong prefix and agrees with the code.
4. `oneof`: the generated `writeContents` takes the first member of a oneof that
   is `"in"` the message; a decoded message has a getter for each on its
   prototype, so encoding what was decoded loses every member but the first.

Known divergences without a run, described where they are modelled: on iOS,
`createCall` answers a streaming call with the id of a call that was never
started, and its consumer waits for ever (`LaunchNothing`); a packed chunk
replaces those before it, and a message of a surrogate in a repeated field the
messages before it (`field-types.ts:216`; the inputs of `message_decode` have no
chunk that is replaced, see `Whole`, so `DecodesParts` says nothing of it, and
`FieldsRoundTrip` has the exception `IsSurrogateList`); a `createCall` whose
launch throws after the call went into `activeCalls` (`GrpcModule.kt:146`) may
leave it there if gRPC reports nothing, which `ActiveCallsTracked` admits for a
call that was aborted; the lists of left-out inputs above.

Not a run, because no sentence of the repository settles it: a stream that ends
without an error keeps its result "current" through the delay before the next
call. `isRetryableError` is always true, so the dispatch of "did-end" at
`tsgrpc-react.ts:213` is not reached for a stream.

## 5. Proofs

Every theorem holds for all values of the constants: any calls, messages,
configurations, capacities, and bounds as large as one likes. The assumptions are
the named `ASSUME`s of the modules, which TLC evaluates in every run, and the
hypotheses stated in theorems (`Capacity > 0`, `RegisterRunsLate`, `InputsFit` or
`Nested` with `InputsIn`) that are explained below. Each invariant is proved by a stronger, inductive one: `Init`
has it, each action keeps it (one lemma per action or group of actions that
change the same part of the state), and it implies what was to be shown.

| Module | Theorem | Says |
|---|---|---|
| `GrpcBridge_proofs` | `TypeCorrect` | `[]TypeOK` |
| | `WaitersCorrect` | `[]WaiterDiscipline` |
| | `EntriesReclaimed` | `[]CallStatesReclaimed` |
| `GrpcBridgeDelivery_proofs` | `ActiveCallsExact` | `[]ActiveCallsTracked` |
| | `NothingIsLost` | `[]NothingLost` |
| | `BridgeImplements` | the bridge implements `CallService` |
| `NestingWriter_proofs` | `NestingWriterTypes`, `HolesFollowLevels`, `PiecesCoverOnce` | `[]TypeOK`, `[]HolesAreOpen`, `[]PiecesTile` |
| | `BufferNeverShort`, `LengthsAreRight` | `[]BufferHoldsMessage`, `[]CountsAgree` |
| | `WriterImplements` | the writer implements `NestedBuffers` |
| `SharedWriter_proofs` | `SharedWriterTypes`, `SharedWriterUsable`, `SharedWriterResults` | `[]TypeOK`, `[]AlwaysUsable`, `[]ResultIsOwn` |
| `ExternalState_proofs` | `HookTypes`, `HookOneLive`, `HookShowsRequest`, `HookFollowsRender`, `HookNoOrphan` | `[]TypeOK`, `[]OneLiveGeneration`, `[]ShownIsOfRequest`, `[]ShownFollowsRender`, `[]NoOrphanStream` |
| `Drivers_proofs` | `CallsSentAsConfigured`, `StreamsAreWhole`, `StateReduced` | `[]SentAsConfigured`, `[]StreamIsWhole`, `[]StateFollowsServer` |
| `MessageDecode_proofs` | `TypeCorrect`, `StaysInStep`, `DecodesWhatWasWritten`, `ThrowsOnlyOnMismatch` | `InputsFit` implies `[]TypeOK`, `[]InStep`, `[]DecodesParts`, `[]ThrowsOnMismatch` |
| | `DoneIsAll` | when decoding is done, all parts are in the message |
| | `NestedMessagesRead`, `NestedInputsDecoded` | the same for messages in messages, without hypotheses about inner readers |

**The bridge's maps** (`GrpcBridge_proofs`). `WaiterDiscipline` is not inductive. A
continuation that resumes with another call's id, or an answer to `createCall`
delivered twice, would break it, so the proof carries `BridgeInv`, the
conjunction of

- `TypeInv`: the types, with the range of ids;
- `TokenInv`: the request of a call to `createCall`, its task in the executor and
  its answer on the way back are in at most one place at a time, once, and only
  while the call is "creating";
- `IdInv`: every id in `rpcs` is below the next one to be given; the id of a
  call that was answered, and the id in an answer on its way, is the one under
  which `rpcs` knows that call;
- `EntryInv`: `WaiterDiscipline`, `CallStatesReclaimed`, and that the events
  queued under an id bear that id (`QueuesOwn`), without which taking an event
  from a queue could complete, and remove, the entry of another call.

**What is delivered** (`GrpcBridgeDelivery_proofs`). `NothingLost` speaks of four
queues at once: tasks of the executor, messages to JavaScript, the queue of a
`callState` and the event a resumed caller was handed. `DeliveryInv` adds to
`BridgeInv`

- `ActiveInv`: the task that tells of the end of a call is there at most once, and
  a call is in `activeCalls` while it runs or that task waits;
- `SoundInv`: an event, wherever it waits, says what gRPC reported (no end of a
  call that runs, no message that was not sent), also in a queue of another step;
- `PlaceInv`: what a call holds at each place of its function; that an id belongs
  to one call; and that the answer to `createCall` is in front of the call's
  events on their way to JavaScript;
- `FlowInv`: the numbers taken, handed over, queued, on the way and in the executor
  are 1, 2, ... without a gap or a repetition. The number of a message is its own,
  the end has the number after the last, an event of another call has none; a
  queue `Carries` the numbers from `lo` to `hi`, and the lemmas about `Carries` say
  what an event added, taken or removed makes of it. A queue is never taken
  apart by call, which is why none of this needs `SelectSeq`.

**The bridge implements `CallService`** (`GrpcBridgeDelivery_proofs`):
`RefinementInv` adds `RefusedInv`, that of a call that was turned down gRPC has
sent nothing. Then each action of the bridge maps to an action of
`CallService` or changes nothing that is mapped. The proof attempt corrected
`CallService`: its `Produce` let a unary server send `MaxMessages` messages, which
no instance with `MaxMessages = 1` could tell from the one it may send.

**The nesting writer** (`NestingWriter_proofs`). `BaseInv` says of index and level
stack (`Structure`) that the open levels point at the holes, in order, that every
other entry is a piece of what is committed, and that the pieces cover each
committed byte once. It holds for every capacity. `WriterInv` adds that the
buffer holds all that was written, and that the counters are the lengths of what
`finish` would dump for each level. This one needs `Capacity > 0`: doubling an empty
buffer makes no room, so a writer allocated with an initial capacity of 0 would drop
its first byte (the default is 16384, `writer.ts:25`, and nothing but tests passes another
one). `WriterImplements` follows action by action: `Now` is the stack of buffers
as a function of the level, and each operation does to it what it does to the
reference writer's. `end` is the hard case: the bytes of the level move behind the
length in the index, not in the buffer.

**The shared writer** (`SharedWriter_proofs`): `OneUse`, a callback inside a callback
never gets a writer, and `LentIsOwn`, the lent writer holds what its user wrote
and every other one is empty, however uses ended and whenever the writer was
replaced.

**The hook** (`ExternalState_proofs`): `ShownIsOfLast`, only the last generation
dispatches, and `StreamInStep`, where a canceled or ended loop may be with its
stream open. `HookNoOrphan` has `RegisterRunsLate` as its hypothesis, the
behaviour the hook expects of `cancelable`: without it a loop canceled inside its own
dispatch registers its cancel too late.

**The drivers** (`Drivers_proofs`). `CallStates` gives a waiting call the address that
its own driver computes, and `ConfigurationsAssumption` the values `secure` may
have. `InTransit` says what was sent is what was read, then the data of the
first `n` events that wait, with no data behind an error or status; an error waits
until the reader throws it (`ErrorKept`). For `StateFollowsServer`, `Reduces` shows
that one turn of `keepLastByKey` keeps each key once and makes of a state, as a
set of records, what the change makes of it (`Updated`); `NextServerRecords` shows
the same of the server. The invariant `ReducedInv` puts them together.
`SnapshotsAssumption` states what the code takes for granted of a first message
(see Drivers above).

**Decoding** (`MessageDecode_proofs`). The inductive invariant is `IInv`: the input is
one that `Init` may choose, and `Reading`: what was read is the first `read`
parts, all of them readable, the cursor is behind their bytes, the message is what
they make; and if decoding stopped, it threw on the next part, which does not
fit, or is done with all of them. That `TakeField` keeps it is about one part, and
goes by what the readers make of the writers' bytes:

- a varint is read back as the number (`VarintOf` is a recursive function; that
  its bytes end where the reader stops, and carry the number, is proved by
  induction), a block as its bytes, a tag as its number and wire type, wherever
  they stand in the input;
- `skip` goes behind a value of any wire type, except a block whose length takes
  two bytes, which is the defect of run `message_long`;
- the loops of packed fields and wrappers, of entries, and of inner messages end
  exactly at the end of their block;
- each field type then does to its slot what `Combine` says.

`InputsFit` is what is asked of the inputs. It says in `PartReads` that the readers
of the messages inside answer as they should, and of each part, in `Fit`, that it has

- the type the reader knows for its number, or a packed form of it;
- or a wire type that does not fit. Not in a oneof (`field-types.ts:256`) and not
  for a repeated message (`messages.ts:264`), which are not read as protobuf says;
  and not a block for a repeated number, whose reader takes it for a packed chunk;
- or a number the reader does not know, and if it is a block, a short one.

The first of these exclusions are the left-out inputs listed above; `Whole` leaves
out the later packed chunks. A block that is no packed chunk of the type the reader
knows is garbage to any reader of protobuf, and no part of `MCParts` is one.

`NestedMessagesRead` removes the hypothesis about the inner readers. A *task* is
what a reader is to do: read these pieces into this message. `Nested` says of a
set of tasks that each has fitting pieces, that the given operators are the
module's own on it (`Tied`, as the `.cfg` has it) and that the tasks inside it are in
the set and less deep. By induction on the depth every task is `Done`: its reader
takes all bytes of the pieces and makes the message `MergeAll` makes. `InputsIn`
says that the tasks inside the inputs are in the set, and `NestedInputsDecoded` has
the four properties from these two. The hypotheses can be met: TLC evaluates on
the instance of `message_decode` that all parts fit after whatever may come before
them (`PartsFit`) and that the tasks inside them are nested (`TasksNest`).

**Induction.** The prover cannot instantiate an induction rule, which takes a
predicate. It can use one about *sets*: `NaturalSets` proves, from the
well-foundedness of `<`, that a set with 0 and the successor of each member is
`Nat`. With it `NestingWriter_proofs`, `Drivers_proofs` and `MessageDecode_proofs`
prove what the recursive functions of their models compute: `VarintOf` (a length
is a run of bytes), `WriteBytes`, the joined pieces of a level, `Chosen` (the
items at some positions, once each, in order), the turns of a `Loop`, and
`MergeAll`.

**Only model-checked**: `ScalarCodec`, `FloatCodec`, `Codegen`, `GeneratedCode` and
`GeneratedCodeProperties`, whose values, types and descriptors are trees walked by
RECURSIVE operators, which puts the modules beyond the prover; and liveness
under fairness (`CreateCallAnswered`, `AwaitedCallProgresses`, `PingReturns`,
`StreamRetried`, `CanceledLoopStops`, `ReaderReleased`).

## 6. Not modelled, and why

- Message contents and marshalling (base64, protobuf of payloads) in the bridge,
  the hook and the drivers: no property depends on them.
- `check` and `send` of the native modules: no caller.
- `toJSON` of a decoded message and the `create` of a surrogate: conversions of a
  finished value, with no state.
- `TextEncoder` and `TextDecoder`: the platform's; a string is its bytes.
- Of the generator, the layout of the text (`code-node.ts`), the parsing of
  comments, the JSON output and the command line. `google/protobuf/*.gen.ts` are
  output of the generator: `GeneratedCode` covers how such a file works, not
  each of its lines.
- `basePath` and the defaults of `configure`: the configuration that results is
  an input of `Drivers`.
- Launchers, examples, the test server, package manager files.

## 7. Plan

Modelling is complete up to section 6, and every safety property outside
`GeneratedCodeProperties` is a theorem. What is left: lemmas about the integers of
`ScalarCodec` (zigzag, the two words of a 64-bit number) with their recursion as
functions, as `VarintOf` has it; and the round trip of generated code on the terms
of `MessageDecode`, which needs `Codegen` and `GeneratedCode` to be given their
inner types, readers and writers as `MessageDecode` is.
