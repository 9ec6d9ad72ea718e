------------------------------- MODULE Drivers ------------------------------
(***************************************************************************)
(* The drivers that carry a call: tsgrpc.ts, which picks one, that for     *)
(* browsers (tsgrpc-driver-web.ts, on grpc-web) and that for React Native, *)
(* and what becomes of a stream: an event of grpc-web is published to a    *)
(* subscription, read from it by a generator, and reduced (reducers.ts).   *)
(* A Channel is made of its address alone, so that the map of them is not  *)
(* part of the state.                                                      *)
(*                                                                         *)
(* External: grpc-web, which calls the handlers of a stream in any order   *)
(* its protocol allows until the stream is canceled; @dmgtech/pubsub, whose*)
(* subscription keeps what is published from when it is made; the program  *)
(* that reads the stream, reduces what it reads and may leave the loop; the*)
(* server, which streams a snapshot of its records, then changes.          *)
(***************************************************************************)
EXTENDS Integers, Sequences, FiniteSets

CONSTANTS
    Configurations,  \* drivers a program may select: [kind, host, port, secure]
    Calls,           \* unary calls
    Streams,         \* server streaming calls
    Snapshots,       \* first messages: sequences of [key, value]
    Deltas,          \* later messages
    MaxMessages      \* bound: messages on one stream

Absent == "absent"       \* undefined, of a host, a port, a value, secure
NoDriver == [kind |-> "none", host |-> [name |-> Absent, scheme |-> Absent], port |-> Absent,
             secure |-> Absent]

ASSUME ConfigurationsAssumption ==
    \A c \in Configurations : c.kind \in {"web", "native"} /\ c.secure \in {"yes", "no", Absent}
ASSUME MessagesAssumption ==
    \A message \in Snapshots \cup Deltas : message \in Seq({message[i] : i \in DOMAIN message})
(* A first message is the records that the server has: each key once, none *)
(* without a value.  The code takes it as it is.                           *)
ASSUME SnapshotsAssumption ==
    \A message \in Snapshots : \A i \in DOMAIN message :
        /\ message[i].value # Absent
        /\ \A j \in DOMAIN message : message[j].key = message[i].key => j = i
ASSUME BoundAssumption == MaxMessages \in Nat

VARIABLES
    driver,    \* the driver of the context of tsgrpc.ts
    calls,     \* what became of each unary call
    streams    \* what became of each stream

vars == <<driver, calls, streams>>

-----------------------------------------------------------------------------
(* Addresses                                                               *)

SameOrigin == [scheme |-> Absent, name |-> Absent, port |-> Absent]

(* getChannel: a host that has a scheme keeps it, whatever secure says.    *)
Uri(args) ==
    IF args.host.name = Absent THEN SameOrigin
    ELSE [scheme |-> IF args.host.scheme # Absent THEN args.host.scheme
                     ELSE IF args.secure = Absent THEN Absent
                     ELSE IF args.secure = "yes" THEN "https" ELSE "http",
          name |-> args.host.name, port |-> args.port]

NoWayToSay(args) == args.secure = "yes" /\ args.host.name = Absent

(* Mutant: a call is encrypted when it is asked for. *)
MutNativeAddress(args) ==
    LET secure == args.secure = "yes"
    IN  [scheme |-> IF secure THEN "https" ELSE "http",
         name |-> IF args.host.name = Absent THEN "127.0.0.1" ELSE args.host.name,
         port |-> IF args.port # Absent THEN args.port ELSE IF secure THEN "443" ELSE "80"]

(* unaryCall of the driver for React Native *)
NativeAddress(args) ==
    LET secure == args.secure # "no"
    IN  [scheme |-> IF secure THEN "https" ELSE "http",
         name |-> IF args.host.name = Absent THEN "127.0.0.1" ELSE args.host.name,
         port |-> IF args.port # Absent THEN args.port ELSE IF secure THEN "443" ELSE "80"]

-----------------------------------------------------------------------------
(* reducers.ts.  Undefined is the state before the first message.          *)

Undefined == [undefined |-> TRUE]

(* What a Map has after each record is set: the last record of each key.   *)
LastOfKey(records, key) ==
    records[CHOOSE i \in DOMAIN records :
                records[i].key = key /\ \A j \in i + 1 .. Len(records) : records[j].key # key]

HasKey(records, key) == \E i \in DOMAIN records : records[i].key = key

(* Where each key is set for the first time: the order of a Map is that. *)
FirstsOfKeys(records) ==
    {i \in DOMAIN records : \A j \in 1 .. i - 1 : records[j].key # records[i].key}

(* What of a sequence is at the given positions, in order.                 *)
Chosen(items, positions) ==
    LET upTo[n \in 0 .. Len(items)] ==
            IF n = 0 THEN << >>
            ELSE IF n \in positions THEN Append(upTo[n - 1], items[n]) ELSE upTo[n - 1]
    IN  upTo[Len(items)]

(* Mutant: a record that was changed is also taken for a new one. *)
MutIsNew(records, delta, key) == LastOfKey(delta, key).value # Absent

(* The value of a new record is taken for a condition; the values of Deltas*)
(* are true but for Absent.                                                *)
IsNew(records, delta, key) ==
    ~HasKey(records, key) /\ LastOfKey(delta, key).value # Absent

KeepLastByKey(state, delta) ==
    IF state = Undefined THEN [records |-> delta]
    ELSE LET records == state.records
             Stays(record) ==
                 HasKey(delta, record.key) => LastOfKey(delta, record.key).value # Absent
             Changed(record) ==
                 IF HasKey(delta, record.key) THEN LastOfKey(delta, record.key) ELSE record
             kept == Chosen(records, {i \in DOMAIN records : Stays(records[i])})
             new == Chosen(delta, {i \in FirstsOfKeys(delta) :
                                      IsNew(records, delta, delta[i].key)})
         IN  [records |-> [i \in DOMAIN kept |-> Changed(kept[i])]
                          \o [i \in DOMAIN new |-> LastOfKey(delta, new[i].key)]]

-----------------------------------------------------------------------------
Init ==
    /\ driver = NoDriver
    /\ calls = [c \in Calls |-> [pc |-> "idle"]]
    /\ streams = [s \in Streams |-> [pc |-> "idle"]]

(* use *)
Use(d) ==
    /\ driver' = d
    /\ UNCHANGED <<calls, streams>>

CallWaits(c, address) ==
    calls' = [calls EXCEPT ![c] = [pc |-> "waiting", of |-> driver, to |-> address]]

(* throwNoDriver and the throw of getChannel. *)
Refused(d) == d = NoDriver \/ (d.kind = "web" /\ NoWayToSay(d))

(* unaryCall, up to the driver's promise: a throw before it rejects, too.  *)
UnaryCall(c) ==
    /\ calls[c].pc # "waiting"
    /\ \/ Refused(driver) /\ calls' = [calls EXCEPT ![c] = [pc |-> "rejected"]]
       \/ /\ ~Refused(driver)
          /\ CallWaits(c, IF driver.kind = "native" THEN NativeAddress(driver) ELSE Uri(driver))
    /\ UNCHANGED <<driver, streams>>

(* The callback of rpcCall, or the promise of the native module; the       *)
(* message may not decode.                                                 *)
Answer(c) ==
    /\ calls[c].pc = "waiting"
    /\ \E outcome \in {"resolved", "rejected"} : calls' = [calls EXCEPT ![c] = [pc |-> outcome]]
    /\ UNCHANGED <<driver, streams>>

-----------------------------------------------------------------------------
(* Streams.  pc is that of the reader: reading, or how it came to an end.  *)

(* The path of a stream has no host in front: it goes to the page's own.   *)
OpenStream(s, d) ==
    /\ streams[s].pc = "idle"
    /\ d.kind = "web" /\ ~Refused(d)
    /\ streams' = [streams EXCEPT ![s] =
            [pc |-> "reading", wire |-> "open", to |-> SameOrigin, failed |-> FALSE,
             published |-> << >>, ended |-> FALSE, sent |-> << >>, got |-> << >>,
             state |-> Undefined]]
    /\ UNCHANGED <<driver, calls>>

(* The driver for React Native makes no call: the response is empty.       *)
OpenNativeStream(s, d) ==
    /\ streams[s].pc = "idle" /\ d.kind = "native"
    /\ streams' = [streams EXCEPT ![s] =
            [pc |-> "finished", wire |-> "none", failed |-> FALSE,
             published |-> << >>, ended |-> TRUE, sent |-> << >>, got |-> << >>,
             state |-> Undefined]]
    /\ UNCHANGED <<driver, calls>>

Started(s) == streams[s].pc # "idle"

(* Mutant: what is published goes before what was not read yet. *)
MutPublish(stream, event) == [stream EXCEPT !.published = <<event>> \o @]

Publish(stream, event) == [stream EXCEPT !.published = Append(@, event)]

Sent(stream, message) == [stream EXCEPT !.sent = Append(@, message)]

(* The handlers of callStream: data, *)
OnData(s) ==
    /\ Started(s) /\ streams[s].wire = "open" /\ Len(streams[s].sent) < MaxMessages
    /\ \E message \in IF streams[s].sent = << >> THEN Snapshots ELSE Deltas :
        streams' = [streams EXCEPT ![s] =
            Publish(Sent(@, message), [event |-> "data", data |-> message])]
    /\ UNCHANGED <<driver, calls>>

Failed(stream) == [stream EXCEPT !.wire = "failed", !.failed = TRUE]

(* error: it publishes, and does not end the subscription; *)
OnError(s) ==
    /\ Started(s) /\ streams[s].wire = "open"
    /\ streams' = [streams EXCEPT ![s] =
            Publish(Failed(@), [event |-> "error"])]
    /\ UNCHANGED <<driver, calls>>

Completed(stream) ==
    [stream EXCEPT !.wire = IF @ = "open" THEN "complete" ELSE "closing"]

(* status: after the data, or after the error; *)
OnStatus(s) ==
    /\ Started(s) /\ streams[s].wire \in {"open", "failed"}
    /\ streams' = [streams EXCEPT ![s] =
            Publish(Completed(@), [event |-> "status"])]
    /\ UNCHANGED <<driver, calls>>

(* Mutant: the end of the call is not published. *)
MutEnd(stream) == [stream EXCEPT !.wire = "closed"]

End(stream) == [stream EXCEPT !.wire = "closed", !.ended = TRUE]

(* end: after a status, and perhaps after an error. *)
OnEnd(s) ==
    /\ Started(s) /\ streams[s].wire \in {"complete", "failed", "closing"}
    /\ streams' = [streams EXCEPT ![s] = End(@)]
    /\ UNCHANGED <<driver, calls>>

(* The loop over the subscription.  A status yields nothing.               *)
Taken(stream) ==
    LET event == Head(stream.published)
        rest == [stream EXCEPT !.published = Tail(@)]
    IN  CASE event.event = "data" -> [rest EXCEPT !.got = Append(@, event.data),
                                                  !.state = KeepLastByKey(@, event.data)]
          [] event.event = "error" -> [rest EXCEPT !.pc = "threw"]
          [] event.event = "status" -> rest

TakeEvent(s) ==
    /\ streams[s].pc = "reading" /\ streams[s].published # << >>
    /\ streams' = [streams EXCEPT ![s] = Taken(@)]
    /\ UNCHANGED <<driver, calls>>

TakeEnd(s) ==
    /\ streams[s].pc = "reading" /\ streams[s].published = << >> /\ streams[s].ended
    /\ streams' = [streams EXCEPT ![s].pc = "finished"]
    /\ UNCHANGED <<driver, calls>>

(* cancel: grpc-web calls no handler any more, and nothing tells the       *)
(* reader.                                                                 *)
Cancel(s) ==
    /\ Started(s) /\ streams[s].wire \notin {"canceled", "closed", "none"}
    /\ streams' = [streams EXCEPT ![s].wire = "canceled"]
    /\ UNCHANGED <<driver, calls>>

(* The program leaves the loop: the call goes on without a reader.         *)
Leave(s) ==
    /\ streams[s].pc = "reading"
    /\ streams' = [streams EXCEPT ![s].pc = "left"]
    /\ UNCHANGED <<driver, calls>>

-----------------------------------------------------------------------------
Handlers(s) == OnData(s) \/ OnError(s) \/ OnStatus(s) \/ OnEnd(s)
Reader(s) == TakeEvent(s) \/ TakeEnd(s)

Next ==
    \/ \E d \in Configurations : Use(d)
    \/ \E c \in Calls : UnaryCall(c) \/ Answer(c)
    \/ \E s \in Streams, d \in Configurations : OpenStream(s, d) \/ OpenNativeStream(s, d)
    \/ \E s \in Streams : Handlers(s) \/ Reader(s) \/ Cancel(s) \/ Leave(s)

(* The event loop runs the reader as long as it can go on.                 *)
Fairness == \A s \in Streams : WF_vars(Reader(s))

Spec == Init /\ [][Next]_vars /\ Fairness
-----------------------------------------------------------------------------
(* A call is not on its way without a driver that was selected, and goes in*)
(* the clear only if the configuration says so: with either driver,        *)
(* whichever of host, port and secure was given.                           *)
SentAsConfigured ==
    \A c \in Calls : calls[c].pc = "waiting" =>
        /\ calls[c].of \in Configurations
        /\ calls[c].to.scheme = "http" =>
              calls[c].of.secure = "no" \/ calls[c].of.host.scheme = "http"

(* What the reader has is what was sent, in order.  A loop that ends has   *)
(* all of it and missed no error, one that throws has all before the error.*)
StreamIsWhole ==
    \A s \in Streams : Started(s) =>
        LET stream == streams[s] IN
        /\ Len(stream.got) <= Len(stream.sent)
        /\ stream.got = SubSeq(stream.sent, 1, Len(stream.got))
        /\ stream.pc \in {"finished", "threw"} =>
              stream.got = stream.sent /\ (stream.failed <=> stream.pc = "threw")

(* The records the server has after the messages that were read: of each   *)
(* key the last, unless that has no value.                                 *)
ServerRecords(messages) ==
    LET records == UNION {{<<i, j>> : j \in DOMAIN messages[i]} : i \in DOMAIN messages}
        At(p) == messages[p[1]][p[2]]
        Later(p, q) == p[1] > q[1] \/ (p[1] = q[1] /\ p[2] > q[2])
    IN  {At(p) : p \in {p \in records : At(p).value # Absent
                          /\ \A q \in records : At(q).key = At(p).key => ~Later(q, p)}}

(* The reduced state is that of the server after the messages read so far: *)
(* keyed records are there once, as they were last sent, and those without *)
(* a value are gone, in whatever messages they were added and changed.     *)
StateFollowsServer ==
    \A s \in Streams :
        LET stream == streams[s] IN
        Started(s) /\ stream.got # << >> =>
            LET shown == stream.state.records
            IN  /\ {shown[i] : i \in DOMAIN shown} = ServerRecords(stream.got)
                /\ \A i, j \in DOMAIN shown : shown[i].key = shown[j].key => i = j

(* A reader does not wait for a call that is over: closed by the server or *)
(* failed, with or without an end after the error.  A canceled call is not *)
(* over for its reader.                                                    *)
ReaderReleased ==
    \A s \in Streams :
        (Started(s) /\ streams[s].wire \in {"closed", "failed"}) ~> streams[s].pc # "reading"
=============================================================================
