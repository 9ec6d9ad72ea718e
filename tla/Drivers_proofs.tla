--------------------------- MODULE Drivers_proofs ---------------------------
(***************************************************************************)
(* Proofs about Drivers, for any configurations, calls, streams and        *)
(* messages.                                                               *)
(***************************************************************************)
EXTENDS Drivers, NaturalSets, TLAPS

-----------------------------------------------------------------------------
(* Unary calls                                                             *)

AddressOf(d) == IF d.kind = "native" THEN NativeAddress(d) ELSE Uri(d)

(* A call that is on its way goes where the driver it took says. *)
CallStates ==
    [pc : {"idle", "resolved", "rejected"}]
        \cup {[pc |-> "waiting", of |-> d, to |-> AddressOf(d)] : d \in Configurations}

CallsInv == driver \in Configurations \cup {NoDriver} /\ calls \in [Calls -> CallStates]

(* No driver says "http" by itself: secure is "no", or the host has it. *)
LEMMA ClearAddress ==
    ASSUME NEW d \in Configurations, AddressOf(d).scheme = "http"
    PROVE  d.secure = "no" \/ d.host.scheme = "http"
    BY ConfigurationsAssumption DEF AddressOf, NativeAddress, Uri, SameOrigin, Absent

LEMMA InitCalls == Init => CallsInv
    BY DEF Init, CallsInv, CallStates

LEMMA NextCalls == CallsInv /\ [Next]_vars => CallsInv'
<1> SUFFICES ASSUME CallsInv, [Next]_vars PROVE CallsInv'
    OBVIOUS
<1>1. CASE \E d \in Configurations : Use(d)
    BY <1>1 DEF Use, CallsInv
<1>2. ASSUME NEW c \in Calls, UnaryCall(c)
      PROVE  CallsInv'
  <2>1. CASE calls' = [calls EXCEPT ![c] = [pc |-> "rejected"]]
      BY <1>2, <2>1 DEF UnaryCall, CallsInv, CallStates
  <2>2. CASE ~Refused(driver) /\ CallWaits(c, AddressOf(driver))
    <3>1. driver \in Configurations
        BY <2>2 DEF CallsInv, Refused
    <3>2. [pc |-> "waiting", of |-> driver, to |-> AddressOf(driver)] \in CallStates
        BY <3>1 DEF CallStates
    <3> QED  BY <1>2, <2>2, <3>2 DEF UnaryCall, CallWaits, CallsInv
  <2> QED  BY <1>2, <2>1, <2>2 DEF UnaryCall, AddressOf
<1>3. ASSUME NEW c \in Calls, Answer(c)
      PROVE  CallsInv'
    BY <1>3 DEF Answer, CallsInv, CallStates
<1>4. CASE UNCHANGED <<driver, calls>>
    BY <1>4 DEF CallsInv
<1> QED  BY <1>1, <1>2, <1>3, <1>4
         DEF Next, vars, OpenStream, OpenNativeStream, Handlers, OnData, OnError, OnStatus,
             OnEnd, Reader, TakeEvent, TakeEnd, Cancel, Leave

THEOREM CallsInvariant == Spec => []CallsInv
    BY InitCalls, NextCalls, PTL DEF Spec

(* No call goes in the clear unless its configuration says so. *)
THEOREM CallsSentAsConfigured == Spec => []SentAsConfigured
<1>1. CallsInv => SentAsConfigured
    BY ClearAddress DEF CallsInv, CallStates, SentAsConfigured
<1> QED  BY <1>1, CallsInvariant, PTL

-----------------------------------------------------------------------------
(* Streams                                                                 *)

Messages == Snapshots \cup Deltas

Events == [event : {"error", "status"}] \cup [event : {"data"}, data : Messages]

(* What was sent is what was read, then the data of the first n events that *)
(* wait; no data waits behind an error or a status.                         *)
InTransit(sent, got, events, n) ==
    /\ sent \in Seq(Messages) /\ got \in Seq(Messages) /\ events \in Seq(Events)
    /\ n \in 0 .. Len(events) /\ Len(sent) = Len(got) + n
    /\ \A i \in 1 .. Len(got) : got[i] = sent[i]
    /\ \A i \in 1 .. n : events[i].event = "data" /\ events[i].data = sent[Len(got) + i]
    /\ \A i \in n + 1 .. Len(events) : events[i].event # "data"

ErrorWaits(events) == \E i \in 1 .. Len(events) : events[i].event = "error"

LEMMA InTransitCarries ==
    ASSUME NEW sent, NEW got, NEW events, InTransit(sent, got, events, Len(events)),
           NEW message \in Messages
    PROVE  LET event == [event |-> "data", data |-> message] IN
           /\ InTransit(Append(sent, message), got, Append(events, event), Len(events) + 1)
           /\ ErrorWaits(Append(events, event)) <=> ErrorWaits(events)
<1> DEFINE event == [event |-> "data", data |-> message]
           more == Append(events, event)
<1>1. event \in Events /\ event.event = "data" /\ event.data = message
    BY DEF Events
<1> HIDE DEF event
<1>2. /\ more \in Seq(Events) /\ Len(more) = Len(events) + 1 /\ Len(events) \in Nat
      /\ more[Len(events) + 1] = event
      /\ \A i \in 1 .. Len(events) : more[i] = events[i]
    BY <1>1 DEF InTransit
<1> HIDE DEF more
<1>3. InTransit(Append(sent, message), got, more, Len(events) + 1)
  <2> DEFINE all == Append(sent, message)
  <2>1. /\ all \in Seq(Messages) /\ Len(all) = Len(sent) + 1
        /\ Len(sent) \in Nat /\ Len(got) \in Nat /\ Len(sent) = Len(got) + Len(events)
        /\ all[Len(sent) + 1] = message /\ \A i \in 1 .. Len(sent) : all[i] = sent[i]
      BY DEF InTransit
  <2> HIDE DEF all
  <2>2. \A i \in 1 .. Len(got) : got[i] = all[i]
      BY <1>2, <2>1 DEF InTransit
  <2>3. ASSUME NEW i \in 1 .. Len(events) + 1
        PROVE  more[i].event = "data" /\ more[i].data = all[Len(got) + i]
    <3>1. CASE i = Len(events) + 1
        BY <3>1, <1>1, <1>2, <2>1
    <3>2. CASE i \in 1 .. Len(events)
      <4>1. more[i] = events[i] /\ events[i].event = "data"
            /\ events[i].data = sent[Len(got) + i]
          BY <3>2, <1>2 DEF InTransit
      <4>2. Len(got) + i \in 1 .. Len(sent)
          BY <3>2, <1>2, <2>1
      <4> QED  BY <4>1, <4>2, <2>1
    <3> QED  BY <3>1, <3>2, <1>2
  <2>4. /\ Len(events) + 1 \in 0 .. Len(more) /\ Len(all) = Len(got) + (Len(events) + 1)
        /\ (Len(events) + 1) + 1 .. Len(more) = {}
      BY <1>2, <2>1
  <2>5. got \in Seq(Messages)
      BY DEF InTransit
  <2> QED  BY <1>2, <2>1, <2>2, <2>3, <2>4, <2>5 DEF InTransit, all
<1>4. ErrorWaits(more) <=> ErrorWaits(events)
    BY <1>1, <1>2 DEF ErrorWaits
<1> QED  BY <1>3, <1>4 DEF more, event

LEMMA InTransitTells ==
    ASSUME NEW sent, NEW got, NEW events, NEW n, InTransit(sent, got, events, n),
           NEW event \in Events, event.event # "data"
    PROVE  /\ InTransit(sent, got, Append(events, event), n)
           /\ ErrorWaits(Append(events, event)) <=>
                  ErrorWaits(events) \/ event.event = "error"
<1> DEFINE more == Append(events, event)
<1>1. /\ more \in Seq(Events) /\ Len(more) = Len(events) + 1 /\ Len(events) \in Nat
      /\ more[Len(events) + 1] = event
      /\ \A i \in 1 .. Len(events) : more[i] = events[i]
    BY DEF InTransit
<1> HIDE DEF more
<1>2. InTransit(sent, got, more, n)
  <2>1. n \in 0 .. Len(events)
      BY DEF InTransit
  <2>2. \A i \in 1 .. n : more[i] = events[i]
      BY <1>1, <2>1
  <2>3. ASSUME NEW i \in n + 1 .. Len(more)
        PROVE  more[i].event # "data"
    <3>1. i = Len(events) + 1 \/ i \in n + 1 .. Len(events)
        BY <1>1, <2>1
    <3> QED  BY <1>1, <2>1, <3>1, SMTT(30) DEF InTransit
  <2>4. /\ sent \in Seq(Messages) /\ got \in Seq(Messages)
        /\ Len(sent) = Len(got) + n /\ \A i \in 1 .. Len(got) : got[i] = sent[i]
        /\ \A i \in 1 .. n : events[i].event = "data" /\ events[i].data = sent[Len(got) + i]
      BY DEF InTransit
  <2>5. n \in 0 .. Len(more)
      BY <1>1, <2>1
  <2> QED  BY <1>1, <2>2, <2>3, <2>4, <2>5 DEF InTransit
<1>3. ErrorWaits(more) <=> ErrorWaits(events) \/ event.event = "error"
    BY <1>1 DEF ErrorWaits
<1> QED  BY <1>2, <1>3 DEF more

(* The first event that waits is taken. *)
LEMMA InTransitArrives ==
    ASSUME NEW sent, NEW got, NEW events, NEW n, InTransit(sent, got, events, n),
           events # << >>
    PROVE  LET event == Head(events) IN
           /\ event \in Events
           /\ event.event = "data" =>
                 /\ n > 0
                 /\ InTransit(sent, Append(got, event.data), Tail(events), n - 1)
           /\ event.event # "data" => n = 0 /\ InTransit(sent, got, Tail(events), 0)
           /\ event.event # "error" => (ErrorWaits(Tail(events)) <=> ErrorWaits(events))
           /\ event.event = "error" => ErrorWaits(events)
<1> DEFINE event == Head(events)
           rest == Tail(events)
<1>1. /\ rest \in Seq(Events) /\ Len(events) \in Nat \ {0} /\ Len(rest) = Len(events) - 1
      /\ event = events[1] /\ \A i \in 1 .. Len(rest) : rest[i] = events[i + 1]
    BY DEF InTransit
<1>2. event \in Events
    BY <1>1 DEF InTransit
<1> HIDE DEF event, rest
<1>3. ASSUME event.event = "data"
      PROVE  n > 0 /\ InTransit(sent, Append(got, event.data), rest, n - 1)
  <2>1. n > 0 /\ event.data \in Messages /\ event.data = sent[Len(got) + 1]
      BY <1>1, <1>2, <1>3 DEF InTransit, Events
  <2> DEFINE read == Append(got, event.data)
  <2>2. /\ read \in Seq(Messages) /\ Len(read) = Len(got) + 1 /\ Len(got) \in Nat
        /\ read[Len(got) + 1] = event.data /\ \A i \in 1 .. Len(got) : read[i] = got[i]
      BY <2>1 DEF InTransit
  <2> HIDE DEF read
  <2>3. \A i \in 1 .. Len(read) : read[i] = sent[i]
    <3>1. \A i \in 1 .. Len(read) : i = Len(got) + 1 \/ i \in 1 .. Len(got)
        BY <2>2
    <3> QED  BY <2>1, <2>2, <3>1 DEF InTransit
  <2>4. /\ n \in 1 .. Len(events) /\ Len(sent) = Len(got) + n
        /\ n - 1 \in 0 .. Len(rest) /\ Len(sent) = Len(read) + (n - 1)
      BY <1>1, <2>1, <2>2 DEF InTransit
  <2>5. ASSUME NEW i \in 1 .. n - 1
        PROVE  rest[i].event = "data" /\ rest[i].data = sent[Len(read) + i]
    <3>1. i + 1 \in 1 .. n /\ i \in 1 .. Len(rest) /\ Len(read) + i = Len(got) + (i + 1)
        BY <1>1, <2>2, <2>4, SMTT(30)
    <3> QED  BY <1>1, <3>1 DEF InTransit
  <2>6. ASSUME NEW i \in (n - 1) + 1 .. Len(rest)
        PROVE  rest[i].event # "data"
    <3>1. PICK j \in n + 1 .. Len(events) : j = i + 1
        BY <1>1, <2>4
    <3>2. i \in 1 .. Len(rest)
        BY <1>1, <2>4
    <3>3. rest[i] = events[j]
        BY <1>1, <3>1, <3>2
    <3>4. events[j].event # "data"
        BY <3>1 DEF InTransit
    <3> QED  BY <3>3, <3>4
  <2> QED  BY <1>1, <2>1, <2>2, <2>3, <2>4, <2>5, <2>6 DEF InTransit, read
<1>4. ASSUME event.event # "data"
      PROVE  n = 0 /\ InTransit(sent, got, rest, 0)
  <2>1. n = 0
      BY <1>1, <1>4 DEF InTransit
  <2> QED  BY <1>1, <2>1 DEF InTransit
<1>5. ErrorWaits(events) <=> ErrorWaits(rest) \/ event.event = "error"
  <2>1. ASSUME NEW i \in 1 .. Len(events), events[i].event = "error"
        PROVE  ErrorWaits(rest) \/ event.event = "error"
    <3>1. CASE i = 1
        BY <3>1, <2>1, <1>1
    <3>2. CASE i # 1
      <4>1. i - 1 \in 1 .. Len(rest) /\ (i - 1) + 1 = i
          BY <3>2, <1>1
      <4>2. rest[i - 1].event = "error"
          BY <4>1, <2>1, <1>1
      <4> QED  BY <4>1, <4>2 DEF ErrorWaits
    <3> QED  BY <3>1, <3>2
  <2>2. ASSUME NEW i \in 1 .. Len(rest), rest[i].event = "error"
        PROVE  ErrorWaits(events)
    <3>1. i + 1 \in 1 .. Len(events) /\ events[i + 1].event = "error"
        BY <1>1, <2>2
    <3> QED  BY <3>1 DEF ErrorWaits
  <2>3. event.event = "error" => ErrorWaits(events)
      BY <1>1 DEF ErrorWaits
  <2> QED  BY <2>1, <2>2, <2>3 DEF ErrorWaits
<1> QED  BY <1>2, <1>3, <1>4, <1>5 DEF event, rest

(* What was read is the beginning of what was sent. *)
LEMMA InTransitIsPrefix ==
    ASSUME NEW sent, NEW got, NEW events, NEW n, InTransit(sent, got, events, n)
    PROVE  /\ Len(got) <= Len(sent) /\ got = SubSeq(sent, 1, Len(got))
           /\ n = 0 => got = sent
<1>1. Len(got) \in Nat /\ Len(sent) \in Nat /\ n \in Nat /\ Len(sent) = Len(got) + n
    BY DEF InTransit
<1>2. /\ SubSeq(sent, 1, Len(got)) \in Seq(Messages)
      /\ Len(SubSeq(sent, 1, Len(got))) = Len(got)
      /\ \A i \in 1 .. Len(got) : SubSeq(sent, 1, Len(got))[i] = got[i]
    BY <1>1 DEF InTransit
<1> QED  BY <1>1, <1>2 DEF InTransit

-----------------------------------------------------------------------------
Fields == {"pc", "wire", "failed", "published", "ended", "sent", "got", "state"}

StreamTyped(stream) ==
    /\ Fields \subseteq DOMAIN stream
    /\ stream.pc \in {"reading", "finished", "threw", "left"}
    /\ stream.failed \in BOOLEAN /\ stream.ended \in BOOLEAN

(* An error waits to be read until the reader throws it. *)
ErrorKept(stream) ==
    /\ stream.pc = "threw" => stream.failed /\ stream.wire # "open"
    /\ stream.pc # "threw" => (stream.failed <=> ErrorWaits(stream.published))

(* Nothing but data was published on an open wire, what has ended is not   *)
(* open, and a reader that is done has left nothing unread.                *)
Ends(stream, n) ==
    /\ stream.wire = "open" =>
          n = Len(stream.published) /\ ~stream.failed /\ ~stream.ended
    /\ stream.ended => stream.wire \in {"closed", "none"}
    /\ stream.pc = "threw" => n = 0
    /\ stream.pc = "finished" => stream.ended /\ stream.published = << >>

StreamOK(stream) ==
    /\ StreamTyped(stream)
    /\ ErrorKept(stream)
    /\ \E n : InTransit(stream.sent, stream.got, stream.published, n) /\ Ends(stream, n)

StreamsInv ==
    /\ DOMAIN streams = Streams
    /\ \A s \in Streams : Started(s) => StreamOK(streams[s])

LEMMA InitStreams == Init => StreamsInv
    BY DEF Init, StreamsInv, Started

(* Every step changes one stream. *)
LEMMA OneStream ==
    ASSUME StreamsInv, NEW s \in Streams, NEW new, StreamOK(new),
           streams' = [streams EXCEPT ![s] = new]
    PROVE  StreamsInv'
    BY DEF StreamsInv, Started

(* What a stream is when it is opened. *)
LEMMA Opened ==
    ASSUME NEW new, Fields \subseteq DOMAIN new,
           \/ new.pc = "reading" /\ new.wire = "open" /\ new.ended = FALSE
           \/ new.pc = "finished" /\ new.wire = "none" /\ new.ended = TRUE,
           new.failed = FALSE,
           new.published = << >>, new.sent = << >>, new.got = << >>
    PROVE  StreamOK(new)
<1>1. << >> \in Seq(Events) /\ << >> \in Seq(Messages)
    OBVIOUS
<1>2. InTransit(new.sent, new.got, new.published, 0) /\ ~ErrorWaits(new.published)
    BY <1>1 DEF InTransit, ErrorWaits
<1>3. StreamTyped(new) /\ Ends(new, 0)
    BY DEF StreamTyped, Ends
<1>4. ErrorKept(new)
    BY <1>2 DEF ErrorKept
<1> QED  BY <1>2, <1>3, <1>4 DEF StreamOK

LEMMA OpenStep ==
    ASSUME StreamsInv, NEW s \in Streams, NEW d \in Configurations,
           OpenStream(s, d) \/ OpenNativeStream(s, d)
    PROVE  StreamsInv'
<1> DEFINE web == [pc |-> "reading", wire |-> "open", to |-> SameOrigin, failed |-> FALSE,
                   published |-> << >>, ended |-> FALSE, sent |-> << >>, got |-> << >>,
                   state |-> Undefined]
           native == [pc |-> "finished", wire |-> "none", failed |-> FALSE,
                      published |-> << >>, ended |-> TRUE, sent |-> << >>, got |-> << >>,
                      state |-> Undefined]
<1>1. StreamOK(web) /\ StreamOK(native)
    BY Opened DEF Fields
<1>2. streams' = [streams EXCEPT ![s] = web] \/ streams' = [streams EXCEPT ![s] = native]
    BY DEF OpenStream, OpenNativeStream
<1> HIDE DEF web, native
<1> QED  BY <1>1, <1>2, OneStream

(* A step that leaves what was sent and read alone. *)
LEMMA Kept ==
    ASSUME NEW stream, StreamOK(stream), NEW next, Fields \subseteq DOMAIN next,
           next.sent = stream.sent /\ next.got = stream.got,
           next.published = stream.published,
           next.failed = stream.failed /\ next.ended \in BOOLEAN,
           next.pc \in {"reading", "finished", "threw", "left"},
           stream.pc = "threw" <=> next.pc = "threw",
           next.wire = "open" => next.wire = stream.wire /\ next.ended = stream.ended,
           next.ended => next.wire \in {"closed", "none"},
           next.pc = "finished" => next.ended /\ next.published = << >>
    PROVE  StreamOK(next)
    BY DEF StreamOK, StreamTyped, ErrorKept, Ends
LEMMA DataStep ==
    ASSUME StreamsInv, NEW s \in Streams, OnData(s)
    PROVE  StreamsInv'
<1> DEFINE stream == streams[s]
<1>1. StreamOK(stream) /\ stream.wire = "open"
    BY DEF OnData, StreamsInv
<1>2. PICK message \in Messages :
          streams' = [streams EXCEPT ![s] =
            Publish(Sent(stream, message), [event |-> "data", data |-> message])]
    BY DEF OnData, Messages, StreamsInv
<1> DEFINE event == [event |-> "data", data |-> message]
           next == Publish(Sent(stream, message), event)
<1>3. /\ Fields \subseteq DOMAIN next
      /\ next.sent = Append(stream.sent, message)
      /\ next.published = Append(stream.published, event)
      /\ next.got = stream.got /\ next.pc = stream.pc /\ next.wire = stream.wire
      /\ next.failed = stream.failed /\ next.ended = stream.ended
    BY <1>1 DEF Publish, Sent, StreamOK, StreamTyped, Fields
<1>4. /\ InTransit(stream.sent, stream.got, stream.published, Len(stream.published))
      /\ Ends(stream, Len(stream.published)) /\ stream.published \in Seq(Events)
    BY <1>1 DEF StreamOK, Ends, InTransit
<1> HIDE DEF next, stream
<1>5. /\ InTransit(next.sent, next.got, next.published, Len(stream.published) + 1)
      /\ ErrorWaits(next.published) <=> ErrorWaits(stream.published)
  <2>1. /\ InTransit(Append(stream.sent, message), stream.got,
                     Append(stream.published, event), Len(stream.published) + 1)
        /\ ErrorWaits(Append(stream.published, event)) <=> ErrorWaits(stream.published)
      BY <1>2, <1>4, InTransitCarries
  <2> HIDE DEF event
  <2> QED  BY <1>3, <2>1
<1>6. Len(next.published) = Len(stream.published) + 1
    BY <1>3, <1>4
<1>7. StreamTyped(next) /\ ErrorKept(next)
    BY <1>1, <1>3, <1>5 DEF StreamOK, StreamTyped, ErrorKept
<1>8. Ends(next, Len(stream.published) + 1)
    BY <1>1, <1>3, <1>4, <1>6 DEF Ends, StreamOK, ErrorKept
<1> QED  BY <1>2, <1>5, <1>7, <1>8, OneStream DEF StreamOK, next, stream

(* An error or a status behind what is on the way. *)
LEMMA Told ==
    ASSUME NEW stream, StreamOK(stream), stream.wire \in {"open", "failed"},
           NEW event \in Events, event.event # "data",
           NEW next, Fields \subseteq DOMAIN next,
           next.sent = stream.sent /\ next.got = stream.got,
           next.published = Append(stream.published, event),
           next.pc = stream.pc, next.ended = stream.ended,
           next.wire \in {"failed", "complete", "closing"},
           next.failed = (stream.failed \/ event.event = "error")
    PROVE  StreamOK(next)
<1>1. PICK n : InTransit(stream.sent, stream.got, stream.published, n) /\ Ends(stream, n)
    BY DEF StreamOK
<1>2. /\ InTransit(next.sent, next.got, next.published, n)
      /\ ErrorWaits(next.published) <=> ErrorWaits(stream.published) \/ event.event = "error"
    BY <1>1, InTransitTells
<1>3. StreamTyped(next) /\ ErrorKept(next)
    BY <1>2 DEF StreamOK, StreamTyped, ErrorKept
<1>4. next.ended = FALSE /\ next.pc # "finished"
    BY <1>1 DEF StreamOK, StreamTyped, Ends
<1>5. Ends(next, n)
    BY <1>1, <1>4 DEF Ends
<1> QED  BY <1>2, <1>3, <1>5 DEF StreamOK

LEMMA TellStep ==
    ASSUME StreamsInv, NEW s \in Streams, OnError(s) \/ OnStatus(s)
    PROVE  StreamsInv'
<1> DEFINE stream == streams[s]
           failed == Publish(Failed(stream), [event |-> "error"])
           completed == Publish(Completed(stream), [event |-> "status"])
<1>1. StreamOK(stream) /\ stream.wire \in {"open", "failed"}
    BY DEF OnError, OnStatus, StreamsInv
<1>2. /\ [event |-> "error"] \in Events /\ [event |-> "status"] \in Events
      /\ [event |-> "error"].event = "error" /\ [event |-> "status"].event = "status"
    BY DEF Events
<1>3. StreamOK(failed)
  <2>1. /\ Fields \subseteq DOMAIN failed
        /\ failed.sent = stream.sent /\ failed.got = stream.got
        /\ failed.published = Append(stream.published, [event |-> "error"])
        /\ failed.pc = stream.pc /\ failed.ended = stream.ended
        /\ failed.wire = "failed" /\ failed.failed = TRUE
      BY <1>1 DEF Publish, Failed, StreamOK, StreamTyped, Fields
  <2> HIDE DEF failed, stream
  <2> QED  BY <1>1, <1>2, <2>1, Told
<1>4. StreamOK(completed)
  <2>1. /\ Fields \subseteq DOMAIN completed
        /\ completed.sent = stream.sent /\ completed.got = stream.got
        /\ completed.published = Append(stream.published, [event |-> "status"])
        /\ completed.pc = stream.pc /\ completed.ended = stream.ended
        /\ completed.wire \in {"complete", "closing"} /\ completed.failed = stream.failed
      BY <1>1 DEF Publish, Completed, StreamOK, StreamTyped, Fields
  <2>2. stream.failed \in BOOLEAN
      BY <1>1 DEF StreamOK, StreamTyped
  <2> HIDE DEF completed, stream
  <2> QED  BY <1>1, <1>2, <2>1, <2>2, Told
<1>5. CASE OnError(s)
    BY <1>3, <1>5, OneStream DEF OnError
<1>6. CASE OnStatus(s)
    BY <1>4, <1>6, OneStream DEF OnStatus
<1> QED  BY <1>5, <1>6

(* The end of a call, its cancel, and a reader that leaves or is done. *)
LEMMA EndStep ==
    ASSUME StreamsInv, NEW s \in Streams, OnEnd(s) \/ Cancel(s) \/ Leave(s) \/ TakeEnd(s)
    PROVE  StreamsInv'
<1> DEFINE stream == streams[s]
<1>1. StreamOK(stream)
    BY DEF OnEnd, Cancel, Leave, TakeEnd, StreamsInv, Started
<1>2. PICK n : InTransit(stream.sent, stream.got, stream.published, n) /\ Ends(stream, n)
    BY <1>1 DEF StreamOK
<1>3. CASE OnEnd(s)
  <2> DEFINE next == End(stream)
  <2>1. /\ Fields \subseteq DOMAIN next
        /\ next.sent = stream.sent /\ next.got = stream.got /\ next.pc = stream.pc
        /\ next.published = stream.published /\ next.failed = stream.failed
        /\ next.wire = "closed" /\ next.ended = TRUE
      BY <1>1 DEF End, StreamOK, StreamTyped, Fields
  <2>2. streams' = [streams EXCEPT ![s] = next]
      BY <1>3 DEF OnEnd
  <2> HIDE DEF next, stream
  <2>3. stream.pc \in {"reading", "finished", "threw", "left"}
        /\ (stream.pc = "finished" => stream.published = << >>)
      BY <1>1, <1>2 DEF StreamOK, StreamTyped, Ends
  <2>4. StreamOK(next)
    <3>1. /\ next.ended \in BOOLEAN
          /\ next.pc \in {"reading", "finished", "threw", "left"}
          /\ stream.pc = "threw" <=> next.pc = "threw"
        BY <2>1, <2>3
    <3>2. next.wire = "open" => next.wire = stream.wire /\ next.ended = stream.ended
        BY <2>1
    <3>3. /\ next.ended => next.wire \in {"closed", "none"}
          /\ next.pc = "finished" => next.ended /\ next.published = << >>
        BY <2>1, <2>3
    <3> QED  BY <1>1, <2>1, <3>1, <3>2, <3>3, Kept
  <2> QED  BY <2>2, <2>4, OneStream DEF stream
<1>4. CASE Cancel(s)
  <2> DEFINE next == [stream EXCEPT !.wire = "canceled"]
  <2>1. /\ Fields \subseteq DOMAIN next
        /\ next.sent = stream.sent /\ next.got = stream.got /\ next.pc = stream.pc
        /\ next.published = stream.published /\ next.failed = stream.failed
        /\ next.wire = "canceled" /\ next.ended = stream.ended
      BY <1>1 DEF StreamOK, StreamTyped, Fields
  <2>2. streams' = [streams EXCEPT ![s] = next] /\ stream.wire \notin {"closed", "none"}
      BY <1>4 DEF Cancel
  <2> HIDE DEF next, stream
  <2>3. /\ stream.pc \in {"reading", "finished", "threw", "left"}
        /\ stream.ended = FALSE /\ stream.pc # "finished"
      BY <1>1, <1>2, <2>2 DEF StreamOK, StreamTyped, Ends
  <2>4. StreamOK(next)
      BY <1>1, <2>1, <2>3, Kept
  <2> QED  BY <2>2, <2>4, OneStream DEF stream
<1>5. CASE Leave(s) \/ TakeEnd(s)
  <2> DEFINE Next1(pc) == [stream EXCEPT !.pc = pc]
  <2>1. \A pc : /\ Fields \subseteq DOMAIN Next1(pc)
                /\ Next1(pc).sent = stream.sent /\ Next1(pc).got = stream.got
                /\ Next1(pc).pc = pc
                /\ Next1(pc).published = stream.published
                /\ Next1(pc).failed = stream.failed
                /\ Next1(pc).wire = stream.wire /\ Next1(pc).ended = stream.ended
      BY <1>1 DEF StreamOK, StreamTyped, Fields
  <2>2. stream.pc = "reading"
      BY <1>5 DEF Leave, TakeEnd
  <2>3. PICK pc \in {"left", "finished"} :
            /\ streams' = [streams EXCEPT ![s] = Next1(pc)]
            /\ pc = "finished" => stream.ended /\ stream.published = << >>
      BY <1>5 DEF Leave, TakeEnd
  <2> DEFINE next == Next1(pc)
  <2>4. /\ Fields \subseteq DOMAIN next
        /\ next.sent = stream.sent /\ next.got = stream.got
        /\ next.pc = pc /\ next.published = stream.published
        /\ next.failed = stream.failed
        /\ next.wire = stream.wire /\ next.ended = stream.ended
      BY <2>1
  <2>5. streams' = [streams EXCEPT ![s] = next]
      BY <2>3
  <2> HIDE DEF next, stream
  <2>6. stream.ended \in BOOLEAN /\ (stream.ended => stream.wire \in {"closed", "none"})
      BY <1>1, <1>2 DEF StreamOK, StreamTyped, Ends
  <2>7. StreamOK(next)
    <3>1. /\ next.ended \in BOOLEAN
          /\ next.pc \in {"reading", "finished", "threw", "left"}
          /\ stream.pc = "threw" <=> next.pc = "threw"
        BY <2>2, <2>3, <2>4, <2>6
    <3>2. next.wire = "open" => next.wire = stream.wire /\ next.ended = stream.ended
        BY <2>4, <2>6
    <3>3. /\ next.ended => next.wire \in {"closed", "none"}
          /\ next.pc = "finished" => next.ended /\ next.published = << >>
        BY <2>3, <2>4, <2>6
    <3> QED  BY <1>1, <2>4, <3>1, <3>2, <3>3, Kept
  <2> QED  BY <2>5, <2>7, OneStream
<1> QED  BY <1>3, <1>4, <1>5
LEMMA TakeStep ==
    ASSUME StreamsInv, NEW s \in Streams, TakeEvent(s)
    PROVE  StreamsInv'
<1> DEFINE stream == streams[s]
           event == Head(stream.published)
           next == Taken(stream)
<1>1. /\ StreamOK(stream) /\ stream.pc = "reading" /\ stream.published # << >>
      /\ streams' = [streams EXCEPT ![s] = next]
    BY DEF TakeEvent, StreamsInv, Started
<1>2. PICK n : InTransit(stream.sent, stream.got, stream.published, n) /\ Ends(stream, n)
    BY <1>1 DEF StreamOK
<1>3. /\ event \in Events
      /\ event.event = "data" =>
            /\ n > 0
            /\ InTransit(stream.sent, Append(stream.got, event.data),
                         Tail(stream.published), n - 1)
      /\ event.event # "data" =>
            n = 0 /\ InTransit(stream.sent, stream.got, Tail(stream.published), 0)
      /\ event.event # "error" =>
            (ErrorWaits(Tail(stream.published)) <=> ErrorWaits(stream.published))
      /\ event.event = "error" => ErrorWaits(stream.published)
    BY <1>1, <1>2, InTransitArrives
<1>4. event.event \in {"data", "error", "status"}
    BY <1>3 DEF Events
<1>5. /\ Fields \subseteq DOMAIN next
      /\ next.sent = stream.sent /\ next.published = Tail(stream.published)
      /\ next.wire = stream.wire /\ next.failed = stream.failed /\ next.ended = stream.ended
      /\ event.event = "data" =>
            next.got = Append(stream.got, event.data) /\ next.pc = stream.pc
      /\ event.event = "error" => next.got = stream.got /\ next.pc = "threw"
      /\ event.event = "status" => next.got = stream.got /\ next.pc = stream.pc
    BY <1>1, <1>4 DEF Taken, StreamOK, StreamTyped, Fields
<1> HIDE DEF next, event, stream
<1>6. Len(stream.published) \in Nat \ {0} /\ Len(next.published) = Len(stream.published) - 1
    BY <1>1, <1>2, <1>5 DEF InTransit
<1>7. StreamTyped(next)
    BY <1>1, <1>4, <1>5 DEF StreamOK, StreamTyped
<1>8. CASE event.event = "data"
  <2>1. ErrorKept(next)
      BY <1>1, <1>3, <1>5, <1>8 DEF StreamOK, ErrorKept
  <2>2. Ends(next, n - 1)
      BY <1>1, <1>2, <1>5, <1>6, <1>8 DEF Ends
  <2> QED  BY <1>1, <1>3, <1>5, <1>7, <1>8, <2>1, <2>2, OneStream DEF StreamOK, stream
<1>9. CASE event.event = "error"
  <2>1. stream.failed /\ stream.wire # "open"
      BY <1>1, <1>2, <1>3, <1>9 DEF StreamOK, ErrorKept, Ends
  <2>2. ErrorKept(next)
      BY <1>5, <1>9, <2>1 DEF ErrorKept
  <2>3. Ends(next, 0)
      BY <1>2, <1>3, <1>5, <1>9, <2>1 DEF Ends
  <2> QED  BY <1>1, <1>3, <1>5, <1>7, <1>9, <2>2, <2>3, OneStream DEF StreamOK, stream
<1>10. CASE event.event = "status"
  <2>1. ErrorKept(next)
      BY <1>1, <1>3, <1>5, <1>10 DEF StreamOK, ErrorKept
  <2>2. stream.wire # "open"
      BY <1>1, <1>2, <1>3, <1>6, <1>10 DEF Ends
  <2>3. Ends(next, 0)
      BY <1>1, <1>2, <1>3, <1>5, <1>10, <2>2 DEF Ends
  <2> QED  BY <1>1, <1>3, <1>5, <1>7, <1>10, <2>1, <2>3, OneStream DEF StreamOK, stream
<1> QED  BY <1>4, <1>8, <1>9, <1>10

LEMMA NextStreams == StreamsInv /\ [Next]_vars => StreamsInv'
<1> SUFFICES ASSUME StreamsInv, [Next]_vars PROVE StreamsInv'
    OBVIOUS
<1>1. CASE UNCHANGED streams
    BY <1>1 DEF StreamsInv, Started
<1>2. CASE \E s \in Streams, d \in Configurations : OpenStream(s, d) \/ OpenNativeStream(s, d)
    BY <1>2, OpenStep
<1>3. CASE \E s \in Streams : Handlers(s) \/ Reader(s) \/ Cancel(s) \/ Leave(s)
    BY <1>3, DataStep, TellStep, EndStep, TakeStep DEF Handlers, Reader
<1> QED  BY <1>1, <1>2, <1>3 DEF Next, vars, Use, UnaryCall, Answer

THEOREM StreamsInvariant == Spec => []StreamsInv
    BY InitStreams, NextStreams, PTL DEF Spec

(* A reader has what was sent, in order; a loop that ends has all of it    *)
(* and missed no error, one that throws has all that came before.          *)
THEOREM StreamsAreWhole == Spec => []StreamIsWhole
<1>1. StreamsInv => StreamIsWhole
  <2> SUFFICES ASSUME StreamsInv, NEW s \in Streams, Started(s)
               PROVE  LET stream == streams[s] IN
                      /\ Len(stream.got) <= Len(stream.sent)
                      /\ stream.got = SubSeq(stream.sent, 1, Len(stream.got))
                      /\ stream.pc \in {"finished", "threw"} =>
                            stream.got = stream.sent /\ (stream.failed <=> stream.pc = "threw")
      BY DEF StreamIsWhole
  <2> DEFINE stream == streams[s]
  <2>1. StreamOK(stream)
      BY DEF StreamsInv
  <2>2. PICK n : InTransit(stream.sent, stream.got, stream.published, n) /\ Ends(stream, n)
      BY <2>1 DEF StreamOK
  <2>3. /\ Len(stream.got) <= Len(stream.sent)
        /\ stream.got = SubSeq(stream.sent, 1, Len(stream.got))
        /\ n = 0 => stream.got = stream.sent
      BY <2>2, InTransitIsPrefix
  <2>4. CASE stream.pc = "finished"
    <3>1. n = 0
        BY <2>2, <2>4 DEF Ends, InTransit
    <3>2. ~ErrorWaits(stream.published)
        BY <2>2, <2>4 DEF Ends, ErrorWaits
    <3> QED  BY <2>1, <2>3, <2>4, <3>1, <3>2 DEF StreamOK, ErrorKept
  <2>5. CASE stream.pc = "threw"
      BY <2>1, <2>2, <2>3, <2>5 DEF StreamOK, ErrorKept, Ends
  <2> QED  BY <2>3, <2>4, <2>5
<1> QED  BY <1>1, StreamsInvariant, PTL

-----------------------------------------------------------------------------
(* What Chosen picks                                                       *)

(* c has the items of the first n positions that are in P, each once; f    *)
(* says which position an item of c is from.                               *)
Picks(c, f, items, P, n) ==
    /\ f \in [1 .. Len(c) -> 1 .. n]
    /\ \A k \in 1 .. Len(c) : f[k] \in P /\ c[k] = items[f[k]]
    /\ \A k, l \in 1 .. Len(c) : f[k] = f[l] => k = l
    /\ \A i \in 1 .. n : i \in P => \E k \in 1 .. Len(c) : f[k] = i

(* An initial part of the function in Chosen. *)
ChoosesTo(g, items, P, n) ==
    g = [m \in 0 .. n |->
            IF m = 0 THEN << >>
            ELSE IF m \in P THEN Append(g[m - 1], items[m]) ELSE g[m - 1]]

LEMMA ChoosesExists ==
    ASSUME NEW items, NEW P
    PROVE  \A n \in Nat : \E g : ChoosesTo(g, items, P, n)
<1> DEFINE S == {n \in Nat : \E g : ChoosesTo(g, items, P, n)}
           step(h, m) == IF m = 0 THEN << >>
                         ELSE IF m \in P THEN Append(h[m - 1], items[m]) ELSE h[m - 1]
<1>1. 0 \in S
  <2> DEFINE g == [m \in 0 .. 0 |-> << >>]
  <2>1. \A m \in 0 .. 0 : step(g, m) = << >>
      OBVIOUS
  <2> HIDE DEF step
  <2>2. g = [m \in 0 .. 0 |-> step(g, m)]
      BY <2>1
  <2>3. ChoosesTo(g, items, P, 0)
      BY <2>2 DEF ChoosesTo, step
  <2> QED  BY <2>3
<1>2. ASSUME NEW n \in S PROVE n + 1 \in S
  <2>1. PICK h : ChoosesTo(h, items, P, n)
      OBVIOUS
  <2> DEFINE g == [m \in 0 .. n + 1 |-> IF m = n + 1 THEN step(h, m) ELSE h[m]]
  <2>2. ASSUME NEW m \in 0 .. n + 1 PROVE step(g, m) = step(h, m)
    <3>1. CASE m = 0
        BY <3>1
    <3>2. CASE m # 0
      <4>1. m - 1 \in 0 .. n + 1 /\ m - 1 # n + 1
          BY <3>2
      <4>2. g[m - 1] = h[m - 1]
          BY <4>1
      <4> HIDE DEF g
      <4> QED  BY <3>2, <4>2
    <3> QED  BY <3>1, <3>2
  <2>3. ASSUME NEW m \in 0 .. n PROVE h[m] = step(h, m)
    <3>1. h = [i \in 0 .. n |-> step(h, i)]
        BY <2>1 DEF ChoosesTo
    <3> HIDE DEF step
    <3>2. h[m] = [i \in 0 .. n |-> step(h, i)][m]
        BY <3>1
    <3> QED  BY <3>2
  <2> HIDE DEF step
  <2>4. \A m \in 0 .. n + 1 : g[m] = step(g, m)
      BY <2>2, <2>3
  <2>5. g = [m \in 0 .. n + 1 |-> step(g, m)]
      BY <2>4
  <2>6. ChoosesTo(g, items, P, n + 1)
      BY <2>5 DEF ChoosesTo, step
  <2> QED  BY <2>6
<1> HIDE DEF S
<1>3. S = Nat
    BY <1>1, <1>2, Induction DEF S
<1> QED  BY <1>3 DEF S

LEMMA ChoosesSteps ==
    ASSUME NEW items, NEW P, NEW n \in Nat, NEW g, ChoosesTo(g, items, P, n)
    PROVE  /\ g[0] = << >>
           /\ \A m \in 1 .. n :
                 g[m] = IF m \in P THEN Append(g[m - 1], items[m]) ELSE g[m - 1]
<1> DEFINE step(m) == IF m = 0 THEN << >>
                      ELSE IF m \in P THEN Append(g[m - 1], items[m]) ELSE g[m - 1]
<1>1. g = [m \in 0 .. n |-> step(m)]
    BY DEF ChoosesTo
<1> HIDE DEF step
<1>2. ASSUME NEW m \in 0 .. n PROVE g[m] = step(m)
  <2>1. g[m] = [i \in 0 .. n |-> step(i)][m]
      BY <1>1
  <2> QED  BY <2>1
<1> QED  BY <1>2 DEF step

LEMMA PicksMore ==
    ASSUME NEW S, NEW items \in Seq(S), NEW P, NEW n \in Nat, n + 1 <= Len(items),
           NEW c \in Seq(S), NEW f, Picks(c, f, items, P, n),
           NEW next, next = IF n + 1 \in P THEN Append(c, items[n + 1]) ELSE c
    PROVE  next \in Seq(S) /\ \E g : Picks(next, g, items, P, n + 1)
<1>1. CASE n + 1 \notin P
  <2>1. Picks(c, f, items, P, n + 1)
    <3>1. f \in [1 .. Len(c) -> 1 .. n + 1]
        BY DEF Picks
    <3>2. ASSUME NEW i \in 1 .. n + 1, i \in P PROVE \E k \in 1 .. Len(c) : f[k] = i
      <4>1. i \in 1 .. n
          BY <1>1, <3>2
      <4> QED  BY <3>2, <4>1 DEF Picks
    <3> QED  BY <3>1, <3>2 DEF Picks
  <2> QED  BY <1>1, <2>1
<1>2. CASE n + 1 \in P
  <2>1. PICK m \in Nat : m = Len(c)
      OBVIOUS
  <2>2. items[n + 1] \in S
      OBVIOUS
  <2>3. /\ next \in Seq(S) /\ Len(next) = m + 1 /\ next[m + 1] = items[n + 1]
        /\ \A k \in 1 .. m : next[k] = c[k]
      BY <1>2, <2>1, <2>2
  <2> DEFINE g == [k \in 1 .. m + 1 |-> IF k = m + 1 THEN n + 1 ELSE f[k]]
  <2>4. g[m + 1] = n + 1 /\ \A k \in 1 .. m : g[k] = f[k]
      OBVIOUS
  <2>5. \A k \in 1 .. m : f[k] \in 1 .. n
      BY <2>1 DEF Picks
  <2>6. g \in [1 .. m + 1 -> 1 .. n + 1]
      BY <2>5
  <2> HIDE DEF g
  <2>7. ASSUME NEW k \in 1 .. m + 1 PROVE g[k] \in P /\ next[k] = items[g[k]]
    <3>1. CASE k = m + 1
        BY <1>2, <2>3, <2>4, <3>1
    <3>2. CASE k # m + 1
      <4>1. k \in 1 .. m
          BY <3>2
      <4> QED  BY <2>1, <2>3, <2>4, <4>1 DEF Picks
    <3> QED  BY <3>1, <3>2
  <2>8. ASSUME NEW k \in 1 .. m + 1, NEW l \in 1 .. m + 1, g[k] = g[l] PROVE k = l
    <3>1. (k = m + 1 \/ k \in 1 .. m) /\ (l = m + 1 \/ l \in 1 .. m)
        OBVIOUS
    <3> QED  BY <2>1, <2>4, <2>5, <2>8, <3>1 DEF Picks
  <2>9. ASSUME NEW i \in 1 .. n + 1, i \in P PROVE \E k \in 1 .. m + 1 : g[k] = i
    <3>1. CASE i = n + 1
        BY <2>4, <3>1
    <3>2. CASE i # n + 1
      <4>1. i \in 1 .. n
          BY <3>2
      <4>2. PICK k \in 1 .. m : f[k] = i
          BY <2>1, <2>9, <4>1 DEF Picks
      <4> QED  BY <2>4, <4>2, k \in 1 .. m + 1
    <3> QED  BY <3>1, <3>2
  <2>10. Picks(next, g, items, P, n + 1)
      BY <2>3, <2>6, <2>7, <2>8, <2>9 DEF Picks
  <2> QED  BY <2>3, <2>10
<1> QED  BY <1>1, <1>2

LEMMA ChosenIs ==
    ASSUME NEW S, NEW items \in Seq(S), NEW P, NEW c, c = Chosen(items, P)
    PROVE  c \in Seq(S) /\ \E f : Picks(c, f, items, P, Len(items))
<1>0. PICK n \in Nat : n = Len(items)
    OBVIOUS
<1>1. PICK g : ChoosesTo(g, items, P, n) /\ c = g[n]
  <2>1. PICK h : ChoosesTo(h, items, P, n)
      BY ChoosesExists
  <2>2. \E h_1 : h_1 = [m \in 0 .. Len(items) |->
                          IF m = 0 THEN << >>
                          ELSE IF m \in P THEN Append(h_1[m - 1], items[m]) ELSE h_1[m - 1]]
      BY <1>0, <2>1 DEF ChoosesTo
  <2> QED  BY <1>0, <2>2 DEF Chosen, ChoosesTo
<1>2. /\ g[0] = << >>
      /\ \A m \in 1 .. n : g[m] = IF m \in P THEN Append(g[m - 1], items[m]) ELSE g[m - 1]
    BY <1>1, ChoosesSteps
<1> DEFINE Fine(m) == g[m] \in Seq(S) /\ \E f : Picks(g[m], f, items, P, m)
           T == {m \in Nat : m <= n => Fine(m)}
<1>3. 0 \in T
  <2>1. PICK f : f = [k \in 1 .. 0 |-> 0]
      OBVIOUS
  <2>2. Picks(<< >>, f, items, P, 0)
      BY <2>1 DEF Picks
  <2>3. << >> \in Seq(S)
      OBVIOUS
  <2> QED  BY <1>2, <2>2, <2>3
<1>4. ASSUME NEW m \in T PROVE m + 1 \in T
  <2> SUFFICES ASSUME m + 1 <= n PROVE Fine(m + 1)
      OBVIOUS
  <2>1. m \in Nat /\ m <= n /\ Fine(m)
      OBVIOUS
  <2>2. PICK f : Picks(g[m], f, items, P, m)
      BY <2>1
  <2>3. g[m + 1] = IF m + 1 \in P THEN Append(g[m], items[m + 1]) ELSE g[m]
      BY <1>2, <2>1, m + 1 \in 1 .. n, (m + 1) - 1 = m
  <2>4. PICK d, e : d \in Seq(S) /\ d = g[m] /\ e = g[m + 1]
      BY <2>1
  <2>5. e \in Seq(S) /\ \E h : Picks(e, h, items, P, m + 1)
      BY <1>0, <2>1, <2>2, <2>3, <2>4, PicksMore
  <2> QED  BY <2>4, <2>5
<1> HIDE DEF T
<1>5. T = Nat
    BY <1>3, <1>4, Induction DEF T
<1>6. Fine(n)
    BY <1>5 DEF T
<1> QED  BY <1>0, <1>1, <1>6

-----------------------------------------------------------------------------
(* keepLastByKey keeps each key once, with the last record                 *)

RecordsOf(records) == {records[i] : i \in 1 .. Len(records)}
KeyedOnce(records) ==
    \A i, j \in 1 .. Len(records) : records[i].key = records[j].key => i = j

(* The set of records after a change. *)
Updated(old, delta) ==
    {r \in old : ~HasKey(delta, r.key)}
    \cup {r \in RecordsOf(delta) : r.value # Absent /\ r = LastOfKey(delta, r.key)}

IsLast(records, i) ==
    i \in 1 .. Len(records) /\ \A j \in i + 1 .. Len(records) : records[j].key # records[i].key

LEMMA LastIs ==
    ASSUME NEW S, NEW records \in Seq(S), NEW key, HasKey(records, key)
    PROVE  \E i \in 1 .. Len(records) :
              IsLast(records, i) /\ records[i].key = key /\ LastOfKey(records, key) = records[i]
<1>0. PICK n \in Nat : n = Len(records) /\ DOMAIN records = 1 .. n
    OBVIOUS
<1> DEFINE T == {d \in Nat : d < n /\ records[n - d].key = key}
<1>1. T # {}
  <2>1. PICK i \in 1 .. n : records[i].key = key
      BY <1>0 DEF HasKey
  <2>2. n - i \in Nat /\ n - i < n /\ n - (n - i) = i
      OBVIOUS
  <2> QED  BY <2>1, <2>2
<1>2. PICK d \in T : \A e \in T : d <= e
    BY <1>1, Least, T \in SUBSET Nat
<1>3. PICK i \in 1 .. n : i = n - d /\ n - i = d
    BY <1>2
<1>4. records[i].key = key
    BY <1>2, <1>3
<1>5. ASSUME NEW j \in i + 1 .. n PROVE records[j].key # key
  <2>1. PICK e \in Nat : e = n - j /\ ~(d <= e) /\ n - e = j /\ e < n
      BY <1>3
  <2>2. e \notin T
    <3> HIDE DEF T
    <3> QED  BY <1>2, <2>1
  <2> QED  BY <2>1, <2>2
<1> HIDE DEF T
<1>6. PICK m : m = CHOOSE l \in DOMAIN records :
                      records[l].key = key /\ \A j \in l + 1 .. Len(records) : records[j].key # key
    OBVIOUS
<1>7. /\ m \in 1 .. n /\ records[m].key = key
      /\ \A j \in m + 1 .. n : records[j].key # key
    BY <1>0, <1>4, <1>5, <1>6
<1> QED  BY <1>0, <1>6, <1>7 DEF LastOfKey, IsLast

LEMMA LastOnly ==
    ASSUME NEW S, NEW records \in Seq(S), NEW i, IsLast(records, i)
    PROVE  HasKey(records, records[i].key) /\ LastOfKey(records, records[i].key) = records[i]
<1>0. PICK n \in Nat : n = Len(records) /\ DOMAIN records = 1 .. n
    OBVIOUS
<1>1. i \in 1 .. n /\ HasKey(records, records[i].key)
    BY <1>0 DEF IsLast, HasKey
<1>2. PICK m \in 1 .. n : /\ IsLast(records, m) /\ records[m].key = records[i].key
                          /\ LastOfKey(records, records[i].key) = records[m]
    BY <1>0, <1>1, LastIs
<1>3. ~(m < i) /\ ~(i < m)
    BY <1>0, <1>1, <1>2 DEF IsLast
<1> QED  BY <1>1, <1>2, <1>3

LEMMA FirstExists ==
    ASSUME NEW S, NEW records \in Seq(S), NEW key, HasKey(records, key)
    PROVE  \E i \in FirstsOfKeys(records) : records[i].key = key
<1>0. PICK n \in Nat : n = Len(records) /\ DOMAIN records = 1 .. n
    OBVIOUS
<1> DEFINE T == {i \in Nat : i \in 1 .. n /\ records[i].key = key}
<1>1. T # {}
    BY <1>0 DEF HasKey
<1>2. PICK i \in T : \A j \in T : i <= j
    BY <1>1, Least, T \in SUBSET Nat
<1>3. ASSUME NEW j \in 1 .. i - 1 PROVE records[j].key # key
  <2>1. j \in Nat /\ j \in 1 .. n /\ ~(i <= j)
      BY <1>2
  <2> QED  BY <1>2, <2>1
<1> QED  BY <1>0, <1>2, <1>3 DEF FirstsOfKeys

(* What an item of a change that is the last of its key is to Updated.     *)
LEMMA LastIsUpdated ==
    ASSUME NEW S, NEW delta \in Seq(S), NEW key, HasKey(delta, key),
           LastOfKey(delta, key).value # Absent, NEW old
    PROVE  /\ LastOfKey(delta, key) \in S /\ LastOfKey(delta, key).key = key
           /\ LastOfKey(delta, key) \in Updated(old, delta)
<1>1. PICK i \in 1 .. Len(delta) : delta[i].key = key /\ LastOfKey(delta, key) = delta[i]
    BY LastIs
<1>2. delta[i] \in S /\ delta[i] \in RecordsOf(delta)
    BY DEF RecordsOf
<1> QED  BY <1>1, <1>2 DEF Updated

(* A part of the next state: the records of Updated with a key in the old  *)
(* state, or those without.                                                *)
Part(part, S, old, records, delta, known) ==
    /\ part \in Seq(S)
    /\ KeyedOnce(part)
    /\ \A k \in 1 .. Len(part) : /\ part[k] \in Updated(old, delta)
                                 /\ HasKey(records, part[k].key) <=> known
    /\ \A r \in Updated(old, delta) :
          (HasKey(records, r.key) <=> known) => \E k \in 1 .. Len(part) : part[k] = r

LEMMA KeptPart ==
    ASSUME NEW S, NEW records \in Seq(S), KeyedOnce(records), NEW delta \in Seq(S),
           NEW kept \in Seq(S), NEW f,
           Picks(kept, f, records,
                 {i \in DOMAIN records : HasKey(delta, records[i].key) =>
                                            LastOfKey(delta, records[i].key).value # Absent},
                 Len(records)),
           NEW part, part = [i \in DOMAIN kept |->
                                IF HasKey(delta, kept[i].key) THEN LastOfKey(delta, kept[i].key)
                                                              ELSE kept[i]]
    PROVE  Part(part, S, RecordsOf(records), records, delta, TRUE)
<1> DEFINE Stays(r) == HasKey(delta, r.key) => LastOfKey(delta, r.key).value # Absent
           Changed(r) == IF HasKey(delta, r.key) THEN LastOfKey(delta, r.key) ELSE r
           old == RecordsOf(records)
<1>0. PICK n \in Nat, m \in Nat : /\ n = Len(records) /\ DOMAIN records = 1 .. n
                                  /\ m = Len(kept) /\ DOMAIN kept = 1 .. m
    OBVIOUS
<1>1. /\ \A k \in 1 .. m : f[k] \in 1 .. n /\ kept[k] = records[f[k]] /\ Stays(kept[k])
      /\ \A k, l \in 1 .. m : f[k] = f[l] => k = l
      /\ \A i \in 1 .. n : Stays(records[i]) => \E k \in 1 .. m : f[k] = i
  <2>1. ASSUME NEW k \in 1 .. m PROVE f[k] \in 1 .. n /\ kept[k] = records[f[k]] /\ Stays(kept[k])
      BY <1>0 DEF Picks
  <2> QED  BY <1>0, <2>1 DEF Picks
<1>2. part = [k \in 1 .. m |-> Changed(kept[k])]
    BY <1>0
<1> HIDE DEF Stays, Changed
<1>3. ASSUME NEW r \in S, Stays(r)
      PROVE  /\ Changed(r) \in S /\ Changed(r).key = r.key
             /\ r \in old => Changed(r) \in Updated(old, delta)
  <2>1. CASE HasKey(delta, r.key)
    <3>1. LastOfKey(delta, r.key).value # Absent
        BY <1>3, <2>1 DEF Stays
    <3>2. /\ LastOfKey(delta, r.key) \in S /\ LastOfKey(delta, r.key).key = r.key
          /\ LastOfKey(delta, r.key) \in Updated(old, delta)
        BY <2>1, <3>1, LastIsUpdated
    <3> QED  BY <2>1, <3>2 DEF Changed
  <2>2. CASE ~HasKey(delta, r.key)
      BY <2>2 DEF Changed, Updated
  <2> QED  BY <2>1, <2>2
<1>4. part \in Seq(S) /\ Len(part) = m
  <2>1. \A k \in 1 .. m : Changed(kept[k]) \in S
      BY <1>0, <1>1, <1>3
  <2> QED  BY <1>2, <2>1
<1>5. ASSUME NEW k \in 1 .. m
      PROVE  /\ part[k] \in Updated(old, delta) /\ part[k] = Changed(records[f[k]])
             /\ part[k].key = records[f[k]].key /\ HasKey(records, part[k].key)
  <2>0. kept[k] \in S /\ part[k] = Changed(kept[k])
      BY <1>0, <1>2
  <2>1. /\ f[k] \in 1 .. n /\ kept[k] = records[f[k]] /\ Stays(kept[k])
        /\ kept[k] \in S /\ part[k] = Changed(kept[k])
      BY <1>1, <2>0
  <2>2. kept[k] \in old
      BY <1>0, <2>1 DEF RecordsOf
  <2>3. part[k].key = kept[k].key /\ part[k] \in Updated(old, delta)
      BY <1>3, <2>1, <2>2
  <2> QED  BY <1>0, <2>1, <2>3 DEF HasKey
<1>6. KeyedOnce(part)
  <2> SUFFICES ASSUME NEW k \in 1 .. m, NEW l \in 1 .. m, part[k].key = part[l].key
               PROVE  k = l
      BY <1>4 DEF KeyedOnce
  <2>1. PICK a \in 1 .. n, b \in 1 .. n : a = f[k] /\ b = f[l]
      BY <1>1
  <2>2. records[a].key = records[b].key
      BY <1>5, <2>1
  <2>3. a = b
      BY <1>0, <2>2 DEF KeyedOnce
  <2> QED  BY <1>1, <2>1, <2>3, ZenonT(40)
<1>7. ASSUME NEW r \in Updated(old, delta), HasKey(records, r.key)
      PROVE  \E k \in 1 .. m : part[k] = r
  <2>1. PICK i \in 1 .. n : /\ Stays(records[i]) /\ Changed(records[i]) = r
    <3>1. CASE r \in old /\ ~HasKey(delta, r.key)
      <4>1. PICK i \in 1 .. n : records[i] = r
          BY <1>0, <3>1 DEF RecordsOf
      <4> QED  BY <3>1, <4>1 DEF Stays, Changed
    <3>2. CASE r \in RecordsOf(delta) /\ r.value # Absent /\ r = LastOfKey(delta, r.key)
      <4>1. PICK i \in 1 .. n : records[i].key = r.key
          BY <1>0, <1>7 DEF HasKey
      <4>2. HasKey(delta, r.key)
        <5>1. PICK j \in 1 .. Len(delta) : delta[j] = r
            BY <3>2 DEF RecordsOf
        <5> QED  BY <5>1 DEF HasKey
      <4> QED  BY <3>2, <4>1, <4>2 DEF Stays, Changed
    <3> QED  BY <3>1, <3>2 DEF Updated
  <2>2. PICK k \in 1 .. m : f[k] = i
      BY <1>1, <2>1
  <2> QED  BY <1>5, <2>1, <2>2
<1> QED  BY <1>4, <1>5, <1>6, <1>7 DEF Part

LEMMA NewPart ==
    ASSUME NEW S, NEW records \in Seq(S), NEW delta \in Seq(S), NEW new \in Seq(S), NEW f,
           Picks(new, f, delta,
                 {i \in FirstsOfKeys(delta) : IsNew(records, delta, delta[i].key)},
                 Len(delta)),
           NEW part, part = [i \in DOMAIN new |-> LastOfKey(delta, new[i].key)]
    PROVE  Part(part, S, RecordsOf(records), records, delta, FALSE)
<1> DEFINE P == {i \in FirstsOfKeys(delta) : IsNew(records, delta, delta[i].key)}
           old == RecordsOf(records)
<1>0. PICK n \in Nat, m \in Nat : /\ n = Len(delta) /\ DOMAIN delta = 1 .. n
                                  /\ m = Len(new) /\ DOMAIN new = 1 .. m
    OBVIOUS
<1>1. /\ \A k \in 1 .. m : f[k] \in 1 .. n /\ new[k] = delta[f[k]] /\ f[k] \in P
      /\ \A k, l \in 1 .. m : f[k] = f[l] => k = l
      /\ \A i \in 1 .. n : i \in P => \E k \in 1 .. m : f[k] = i
  <2> HIDE DEF P
  <2>1. Picks(new, f, delta, P, n)
      BY <1>0 DEF P
  <2>2. ASSUME NEW k \in 1 .. m PROVE f[k] \in 1 .. n /\ new[k] = delta[f[k]] /\ f[k] \in P
      BY <1>0, <2>1 DEF Picks
  <2> QED  BY <1>0, <2>1, <2>2 DEF Picks
<1>2. part = [k \in 1 .. m |-> LastOfKey(delta, new[k].key)]
    BY <1>0
<1>3. ASSUME NEW i \in 1 .. n, i \in P
      PROVE  LET r == LastOfKey(delta, delta[i].key) IN
             r \in S /\ r.key = delta[i].key /\ r \in Updated(old, delta)
             /\ ~HasKey(records, r.key)
  <2>1. /\ HasKey(delta, delta[i].key) /\ ~HasKey(records, delta[i].key)
        /\ LastOfKey(delta, delta[i].key).value # Absent
      BY <1>0, <1>3 DEF HasKey, IsNew
  <2> QED  BY <2>1, LastIsUpdated
<1> HIDE DEF P
<1>4. ASSUME NEW k \in 1 .. m
      PROVE  \E i \in 1 .. n : /\ i = f[k] /\ i \in P /\ part[k] = LastOfKey(delta, delta[i].key)
                               /\ part[k] \in S /\ part[k].key = delta[i].key
                               /\ part[k] \in Updated(old, delta)
                               /\ ~HasKey(records, part[k].key)
  <2>1. PICK i \in 1 .. n : i = f[k] /\ i \in P /\ new[k] = delta[i]
      BY <1>1
  <2>2. part[k] = LastOfKey(delta, delta[i].key)
      BY <1>2, <2>1
  <2> QED  BY <1>3, <2>1, <2>2
<1>5. part \in Seq(S) /\ Len(part) = m
  <2>1. \A k \in 1 .. m : part[k] \in S
      BY <1>4
  <2>2. part \in [1 .. m -> S]
      BY <1>2, <2>1
  <2> QED  BY <2>2
<1>6. KeyedOnce(part)
  <2> SUFFICES ASSUME NEW k \in 1 .. m, NEW l \in 1 .. m, part[k].key = part[l].key
               PROVE  k = l
      BY <1>5 DEF KeyedOnce
  <2>1. PICK i \in 1 .. n : i = f[k] /\ i \in P /\ part[k].key = delta[i].key
      BY <1>4
  <2>2. PICK j \in 1 .. n : j = f[l] /\ j \in P /\ part[l].key = delta[j].key
      BY <1>4
  <2>3. i \in FirstsOfKeys(delta) /\ j \in FirstsOfKeys(delta) /\ delta[i].key = delta[j].key
      BY <2>1, <2>2 DEF P
  <2>4. ~(i < j) /\ ~(j < i)
      BY <2>3 DEF FirstsOfKeys
  <2>5. i = j
      BY <2>4
  <2>6. f[k] = f[l]
      BY <2>1, <2>2, <2>5
  <2> QED  BY <1>1, <2>6
<1>7. ASSUME NEW r \in Updated(old, delta), ~HasKey(records, r.key)
      PROVE  \E k \in 1 .. m : part[k] = r
  <2>1. r \in RecordsOf(delta) /\ r.value # Absent /\ r = LastOfKey(delta, r.key)
    <3>1. r \notin old
        BY <1>7 DEF HasKey, RecordsOf
    <3> QED  BY <3>1 DEF Updated
  <2>2. HasKey(delta, r.key)
      BY <1>0, <2>1 DEF RecordsOf, HasKey
  <2>3. PICK i \in FirstsOfKeys(delta) : delta[i].key = r.key
      BY <2>2, FirstExists
  <2>4. i \in 1 .. n /\ i \in P
      BY <1>0, <1>7, <2>1, <2>3 DEF P, FirstsOfKeys, IsNew
  <2>5. PICK k \in 1 .. m : f[k] = i
      BY <1>1, <2>4
  <2>6. part[k] = LastOfKey(delta, delta[i].key)
      BY <1>4, <2>5
  <2> QED  BY <2>1, <2>3, <2>6
<1> QED  BY <1>4, <1>5, <1>6, <1>7 DEF Part

IsJoin(whole, s, t) ==
    /\ Len(whole) = Len(s) + Len(t)
    /\ \A i \in 1 .. Len(s) : whole[i] = s[i]
    /\ \A i \in 1 .. Len(t) : whole[Len(s) + i] = t[i]

LEMMA Joined ==
    ASSUME NEW S, NEW s \in Seq(S), NEW t \in Seq(S)
    PROVE  s \o t \in Seq(S) /\ IsJoin(s \o t, s, t)
<1>1. Len(s) \in Nat /\ Len(t) \in Nat
    OBVIOUS
<1>2. ASSUME NEW i \in 1 .. Len(t) PROVE (s \o t)[Len(s) + i] = t[i]
  <2>1. PICK j \in Nat : j = Len(s) + i
      BY <1>1
  <2>2. j \in 1 .. Len(s) + Len(t) /\ j > Len(s) /\ j - Len(s) = i
      BY <1>1, <2>1
  <2>3. (s \o t)[j] = t[j - Len(s)]
      BY <2>2
  <2> QED  BY <2>1, <2>2, <2>3
<1> QED  BY <1>1, <1>2 DEF IsJoin

(* A state that has each key once, and the records of Updated.             *)
IsNext(next, S, old, delta) ==
    next \in Seq(S) /\ KeyedOnce(next) /\ RecordsOf(next) = Updated(old, delta)

LEMMA JoinParts ==
    ASSUME NEW S, NEW old, NEW records, NEW delta,
           NEW a, Part(a, S, old, records, delta, TRUE),
           NEW b, Part(b, S, old, records, delta, FALSE)
    PROVE  IsNext(a \o b, S, old, delta)
<1>0. PICK n \in Nat, m \in Nat : /\ n = Len(a) /\ m = Len(b)
                                  /\ a \in Seq(S) /\ b \in Seq(S)
    BY DEF Part
<1>1. PICK c \in Seq(S) : c = a \o b /\ IsJoin(c, a, b)
    BY <1>0, Joined
<1>2. /\ Len(c) = n + m
      /\ \A i \in 1 .. n : c[i] = a[i]
      /\ \A i \in 1 .. m : c[n + i] = b[i]
    BY <1>0, <1>1 DEF IsJoin
<1>3. ASSUME NEW i \in 1 .. n
      PROVE  i \in 1 .. Len(c) /\ c[i] = a[i] /\ c[i] \in Updated(old, delta)
             /\ HasKey(records, c[i].key)
    BY <1>0, <1>2 DEF Part
<1>4. ASSUME NEW i \in 1 .. m
      PROVE  n + i \in 1 .. Len(c) /\ c[n + i] = b[i] /\ c[n + i] \in Updated(old, delta)
             /\ ~HasKey(records, c[n + i].key)
    BY <1>0, <1>2 DEF Part
<1>5. ASSUME NEW k \in 1 .. Len(c)
      PROVE  /\ c[k] \in Updated(old, delta)
             /\ k <= n => k \in 1 .. n /\ HasKey(records, c[k].key)
             /\ k > n => /\ ~HasKey(records, c[k].key)
                        /\ \E i \in 1 .. m : k = n + i /\ c[k] = b[i]
  <2>1. CASE k > n
    <3>1. PICK i \in 1 .. m : k = n + i
      <4>1. k - n \in 1 .. m /\ k = n + (k - n)
          BY <1>2, <2>1
      <4> QED  BY <4>1
    <3> QED  BY <1>4, <2>1, <3>1
  <2>2. CASE k <= n
    <3>1. k \in 1 .. n
        BY <2>2
    <3> QED  BY <1>3, <2>2, <3>1
  <2> QED  BY <1>0, <1>2, <2>1, <2>2
<1>6. KeyedOnce(c)
  <2> SUFFICES ASSUME NEW k \in 1 .. Len(c), NEW l \in 1 .. Len(c), c[k].key = c[l].key
               PROVE  k = l
      BY DEF KeyedOnce
  <2>0. (k <= n \/ k > n) /\ (l <= n \/ l > n)
      BY <1>0, <1>2
  <2>1. CASE k <= n /\ l <= n
    <3>1. k \in 1 .. n /\ l \in 1 .. n
        BY <1>5, <2>1
    <3>2. a[k].key = a[l].key
        BY <1>3, <3>1
    <3> QED  BY <1>0, <3>1, <3>2 DEF Part, KeyedOnce
  <2>2. CASE k > n /\ l > n
    <3>1. PICK i \in 1 .. m : k = n + i /\ c[k] = b[i]
        BY <1>5, <2>2
    <3>2. PICK j \in 1 .. m : l = n + j /\ c[l] = b[j]
        BY <1>5, <2>2
    <3>3. i = j
        BY <1>0, <3>1, <3>2 DEF Part, KeyedOnce
    <3> QED  BY <3>1, <3>2, <3>3
  <2>3. ~(k <= n /\ l > n) /\ ~(k > n /\ l <= n)
      BY <1>5
  <2> QED  BY <2>0, <2>1, <2>2, <2>3
<1>7. RecordsOf(c) = Updated(old, delta)
  <2>1. ASSUME NEW k \in 1 .. Len(c) PROVE c[k] \in Updated(old, delta)
      BY <1>5
  <2>2. ASSUME NEW r \in Updated(old, delta) PROVE \E k \in 1 .. Len(c) : c[k] = r
    <3>1. CASE HasKey(records, r.key)
      <4>1. PICK k \in 1 .. n : a[k] = r
          BY <1>0, <3>1 DEF Part
      <4> QED  BY <1>3, <4>1
    <3>2. CASE ~HasKey(records, r.key)
      <4>1. PICK k \in 1 .. m : b[k] = r
          BY <1>0, <3>2 DEF Part
      <4> QED  BY <1>4, <4>1
    <3> QED  BY <3>1, <3>2
  <2> QED  BY <2>1, <2>2 DEF RecordsOf
<1> QED  BY <1>1, <1>6, <1>7 DEF IsNext

(* What keepLastByKey returns, for a state that has each key once.         *)
LEMMA Reduces ==
    ASSUME NEW S, NEW records \in Seq(S), KeyedOnce(records), NEW delta \in Seq(S)
    PROVE  \E next \in Seq(S) :
              /\ KeepLastByKey([records |-> records], delta) = [records |-> next]
              /\ IsNext(next, S, RecordsOf(records), delta)
<1> DEFINE P == {i \in DOMAIN records : HasKey(delta, records[i].key) =>
                                           LastOfKey(delta, records[i].key).value # Absent}
           Q == {i \in FirstsOfKeys(delta) : IsNew(records, delta, delta[i].key)}
           kept == Chosen(records, P)
           new == Chosen(delta, Q)
           a == [i \in DOMAIN kept |->
                    IF HasKey(delta, kept[i].key) THEN LastOfKey(delta, kept[i].key) ELSE kept[i]]
           b == [i \in DOMAIN new |-> LastOfKey(delta, new[i].key)]
<1>1. KeepLastByKey([records |-> records], delta) = [records |-> a \o b]
  <2>1. [records |-> records] # Undefined
      BY DEF Undefined
  <2> QED  BY <2>1 DEF KeepLastByKey
<1>2. Part(a, S, RecordsOf(records), records, delta, TRUE)
  <2>1. PICK c, f : c \in Seq(S) /\ c = kept /\ Picks(c, f, records, P, Len(records))
    <3> HIDE DEF P
    <3> QED  BY ChosenIs
  <2>2. PICK d : d = a
      OBVIOUS
  <2>3. d = [i \in DOMAIN c |->
                IF HasKey(delta, c[i].key) THEN LastOfKey(delta, c[i].key) ELSE c[i]]
      BY <2>1, <2>2
  <2> HIDE DEF kept, a
  <2> QED  BY <2>1, <2>2, <2>3, KeptPart, ZenonT(40)
<1>3. Part(b, S, RecordsOf(records), records, delta, FALSE)
  <2>1. PICK c, f : c \in Seq(S) /\ c = new /\ Picks(c, f, delta, Q, Len(delta))
    <3> HIDE DEF Q
    <3> QED  BY ChosenIs
  <2>2. PICK d : d = b
      OBVIOUS
  <2>3. d = [i \in DOMAIN c |-> LastOfKey(delta, c[i].key)]
      BY <2>1, <2>2
  <2> HIDE DEF new, b
  <2> QED  BY <2>1, <2>2, <2>3, NewPart
<1> HIDE DEF a, b
<1>4. IsNext(a \o b, S, RecordsOf(records), delta)
    BY <1>2, <1>3, JoinParts
<1>5. a \o b \in Seq(S)
    BY <1>4 DEF IsNext
<1> QED  BY <1>1, <1>4, <1>5

-----------------------------------------------------------------------------
(* The records of the server, message by message                           *)

Items == UNION {{message[i] : i \in DOMAIN message} : message \in Messages}

LEMMA MessageItems == ASSUME NEW message \in Messages PROVE message \in Seq(Items)
<1> DEFINE own == {message[i] : i \in DOMAIN message}
<1>1. message \in Seq(own)
    BY MessagesAssumption DEF Messages
<1>2. own \subseteq Items
    BY DEF Items
<1> HIDE DEF own
<1> QED  BY <1>1, <1>2

(* Item j of message i has a value, and is the last of its key. *)
IsCurrent(messages, i, j) ==
    /\ messages[i][j].value # Absent
    /\ \A k \in DOMAIN messages : \A l \in DOMAIN messages[k] :
          messages[k][l].key = messages[i][j].key => ~(k > i \/ (k = i /\ l > j))

LEMMA ServerRecordsAre ==
    ASSUME NEW messages, NEW r
    PROVE  r \in ServerRecords(messages) <=>
              \E i \in DOMAIN messages : \E j \in DOMAIN messages[i] :
                 r = messages[i][j] /\ IsCurrent(messages, i, j)
<1> DEFINE places == UNION {{<<i, j>> : j \in DOMAIN messages[i]} : i \in DOMAIN messages}
           At(p) == messages[p[1]][p[2]]
           Later(p, q) == p[1] > q[1] \/ (p[1] = q[1] /\ p[2] > q[2])
           Current(p) == At(p).value # Absent
                         /\ \A q \in places : At(q).key = At(p).key => ~Later(q, p)
<1>1. r \in ServerRecords(messages) <=> \E p \in places : Current(p) /\ r = At(p)
    BY DEF ServerRecords
<1>2. \A p : p \in places <=>
         \E i \in DOMAIN messages : \E j \in DOMAIN messages[i] : p = <<i, j>>
    OBVIOUS
<1> HIDE DEF places
<1>3. ASSUME NEW i \in DOMAIN messages, NEW j \in DOMAIN messages[i]
      PROVE  Current(<<i, j>>) <=> IsCurrent(messages, i, j)
  <2>1. /\ At(<<i, j>>) = messages[i][j]
        /\ \A k, l : At(<<k, l>>) = messages[k][l]
        /\ \A k, l : Later(<<k, l>>, <<i, j>>) <=> k > i \/ (k = i /\ l > j)
      OBVIOUS
  <2> HIDE DEF At, Later
  <2>2. (\A q \in places : At(q).key = At(<<i, j>>).key => ~Later(q, <<i, j>>))
        <=> \A k \in DOMAIN messages : \A l \in DOMAIN messages[k] :
               At(<<k, l>>).key = At(<<i, j>>).key => ~Later(<<k, l>>, <<i, j>>)
      BY <1>2
  <2> QED  BY <2>1, <2>2 DEF IsCurrent
<1>4. \A i, j : At(<<i, j>>) = messages[i][j]
    OBVIOUS
<1> HIDE DEF Current, At, Later
<1>5. (\E p \in places : Current(p) /\ r = At(p)) <=>
         \E i \in DOMAIN messages : \E j \in DOMAIN messages[i] :
            Current(<<i, j>>) /\ r = At(<<i, j>>)
  <2>1. ASSUME NEW p \in places, Current(p), r = At(p)
        PROVE  \E i \in DOMAIN messages : \E j \in DOMAIN messages[i] :
                  Current(<<i, j>>) /\ r = At(<<i, j>>)
    <3>1. PICK i \in DOMAIN messages : \E j \in DOMAIN messages[i] : p = <<i, j>>
        BY <1>2
    <3>2. PICK j \in DOMAIN messages[i] : p = <<i, j>>
        BY <3>1
    <3> QED  BY <2>1, <3>2
  <2>2. ASSUME NEW i \in DOMAIN messages, NEW j \in DOMAIN messages[i]
        PROVE  <<i, j>> \in places
      BY <1>2
  <2> QED  BY <2>1, <2>2
<1> QED  BY <1>1, <1>3, <1>4, <1>5

(* The first message is what the server has. *)
LEMMA FirstServerRecords ==
    ASSUME NEW snapshot \in Snapshots
    PROVE  /\ KeyedOnce(snapshot)
           /\ RecordsOf(snapshot) = ServerRecords(<<snapshot>>)
<1>1. snapshot \in Seq(Items)
    BY MessageItems DEF Messages
<1>2. PICK n \in Nat : n = Len(snapshot) /\ DOMAIN snapshot = 1 .. n
    BY <1>1
<1>3. KeyedOnce(snapshot)
    BY <1>2, SnapshotsAssumption DEF KeyedOnce
<1>4. DOMAIN <<snapshot>> = {1} /\ <<snapshot>>[1] = snapshot
    OBVIOUS
<1>5. ASSUME NEW j \in 1 .. n PROVE IsCurrent(<<snapshot>>, 1, j)
  <2>1. snapshot[j].value # Absent
      BY <1>2, SnapshotsAssumption
  <2>2. ASSUME NEW l \in 1 .. n, snapshot[l].key = snapshot[j].key
        PROVE  l = j
      BY <1>2, <2>2, SnapshotsAssumption
  <2> QED  BY <1>2, <1>4, <2>1, <2>2 DEF IsCurrent
<1>6. ASSUME NEW r
      PROVE  r \in RecordsOf(snapshot) <=> r \in ServerRecords(<<snapshot>>)
  <2>1. r \in RecordsOf(snapshot) <=> \E j \in 1 .. n : r = snapshot[j]
      BY <1>2 DEF RecordsOf
  <2>2. r \in ServerRecords(<<snapshot>>) <=>
           \E j \in 1 .. n : r = snapshot[j] /\ IsCurrent(<<snapshot>>, 1, j)
      BY <1>2, <1>4, ServerRecordsAre
  <2> QED  BY <1>5, <2>1, <2>2
<1> QED  BY <1>3, <1>6

(* Every later message changes them. *)
LEMMA NextServerRecords ==
    ASSUME NEW messages \in Seq(Messages), NEW delta \in Messages
    PROVE  ServerRecords(Append(messages, delta)) = Updated(ServerRecords(messages), delta)
<1> DEFINE all == Append(messages, delta)
<1>0. PICK n \in Nat, m \in Nat : /\ n = Len(messages) /\ DOMAIN messages = 1 .. n
                                  /\ m = Len(delta) /\ DOMAIN delta = 1 .. m
                                  /\ delta \in Seq(Items)
    BY MessageItems
<1>1. /\ DOMAIN all = 1 .. n + 1 /\ all[n + 1] = delta
      /\ \A i \in 1 .. n : all[i] = messages[i]
    BY <1>0
<1>2. \A i \in 1 .. n : \A j \in DOMAIN messages[i] : j \in Int
  <2>1. ASSUME NEW i \in 1 .. n PROVE messages[i] \in Seq(Items)
      BY <1>0, MessageItems
  <2> QED  BY <2>1
<1> HIDE DEF all
<1>3. ASSUME NEW j \in 1 .. m
      PROVE  IsCurrent(all, n + 1, j) <=> IsLast(delta, j) /\ delta[j].value # Absent
  <2>1. ASSUME NEW k \in 1 .. n + 1 PROVE ~(k > n + 1) /\ (k = n + 1 \/ k \in 1 .. n)
      OBVIOUS
  <2>2. IsCurrent(all, n + 1, j) <=>
           /\ delta[j].value # Absent
           /\ \A l \in 1 .. m : delta[l].key = delta[j].key => ~(l > j)
    <3>1. ASSUME NEW k \in 1 .. n + 1, NEW l \in DOMAIN all[k]
          PROVE  (k > n + 1 \/ (k = n + 1 /\ l > j)) <=> (k = n + 1 /\ l > j)
        BY <2>1
    <3> QED  BY <1>0, <1>1, <3>1, n + 1 \in 1 .. n + 1 DEF IsCurrent
  <2>3. (\A l \in 1 .. m : delta[l].key = delta[j].key => ~(l > j))
        <=> \A l \in j + 1 .. m : delta[l].key # delta[j].key
    <3>1. \A l \in 1 .. m : l > j <=> l \in j + 1 .. m
        OBVIOUS
    <3>2. \A l \in j + 1 .. m : l \in 1 .. m
        OBVIOUS
    <3> QED  BY <3>1, <3>2
  <2> QED  BY <1>0, <2>2, <2>3 DEF IsLast
<1>4. ASSUME NEW i \in 1 .. n, NEW j \in DOMAIN messages[i]
      PROVE  IsCurrent(all, i, j) <=>
                IsCurrent(messages, i, j) /\ ~HasKey(delta, messages[i][j].key)
  <2> DEFINE Before(k, l) == messages[k][l].key = messages[i][j].key
                                => ~(k > i \/ (k = i /\ l > j))
  <2>1. all[i] = messages[i] /\ i \in 1 .. n + 1 /\ n + 1 > i /\ n + 1 # i
      BY <1>1
  <2>2. IsCurrent(all, i, j) <=>
           /\ messages[i][j].value # Absent
           /\ \A k \in 1 .. n : \A l \in DOMAIN messages[k] : Before(k, l)
           /\ \A l \in 1 .. m : delta[l].key # messages[i][j].key
    <3>1. \A k \in 1 .. n + 1 : k = n + 1 \/ k \in 1 .. n
        OBVIOUS
    <3>2. \A k \in 1 .. n : k \in 1 .. n + 1
        OBVIOUS
    <3> QED  BY <1>0, <1>1, <2>1, <3>1, <3>2, n + 1 \in 1 .. n + 1 DEF IsCurrent
  <2>3. IsCurrent(messages, i, j) <=>
           /\ messages[i][j].value # Absent
           /\ \A k \in 1 .. n : \A l \in DOMAIN messages[k] : Before(k, l)
      BY <1>0 DEF IsCurrent
  <2>4. ~HasKey(delta, messages[i][j].key) <=>
           \A l \in 1 .. m : delta[l].key # messages[i][j].key
      BY <1>0 DEF HasKey
  <2> HIDE DEF Before
  <2> QED  BY <2>2, <2>3, <2>4
<1>5. ASSUME NEW r
      PROVE  r \in ServerRecords(all) <=> r \in Updated(ServerRecords(messages), delta)
  <2>1. r \in ServerRecords(all) <=>
           \/ \E i \in 1 .. n : \E j \in DOMAIN messages[i] :
                 r = messages[i][j] /\ IsCurrent(all, i, j)
           \/ \E j \in 1 .. m : r = delta[j] /\ IsCurrent(all, n + 1, j)
    <3>1. r \in ServerRecords(all) <=>
             \E i \in 1 .. n + 1 : \E j \in DOMAIN all[i] :
                r = all[i][j] /\ IsCurrent(all, i, j)
        BY <1>1, ServerRecordsAre
    <3>2. \A i \in 1 .. n + 1 : i = n + 1 \/ i \in 1 .. n
        OBVIOUS
    <3>3. \A i \in 1 .. n : i \in 1 .. n + 1
        OBVIOUS
    <3> QED  BY <1>0, <1>1, <3>1, <3>2, <3>3, n + 1 \in 1 .. n + 1
  <2>2. (\E i \in 1 .. n : \E j \in DOMAIN messages[i] :
            r = messages[i][j] /\ IsCurrent(all, i, j))
        <=> r \in ServerRecords(messages) /\ ~HasKey(delta, r.key)
    <3>1. r \in ServerRecords(messages) <=>
             \E i \in 1 .. n : \E j \in DOMAIN messages[i] :
                r = messages[i][j] /\ IsCurrent(messages, i, j)
        BY <1>0, ServerRecordsAre
    <3> QED  BY <1>4, <3>1
  <2>3. (\E j \in 1 .. m : r = delta[j] /\ IsCurrent(all, n + 1, j))
        <=> r \in RecordsOf(delta) /\ r.value # Absent /\ r = LastOfKey(delta, r.key)
    <3>1. ASSUME NEW j \in 1 .. m, r = delta[j], IsCurrent(all, n + 1, j)
          PROVE  r \in RecordsOf(delta) /\ r.value # Absent /\ r = LastOfKey(delta, r.key)
      <4>1. IsLast(delta, j) /\ r.value # Absent
          BY <1>3, <3>1
      <4>2. LastOfKey(delta, r.key) = r
          BY <1>0, <3>1, <4>1, LastOnly
      <4> QED  BY <1>0, <3>1, <4>1, <4>2 DEF RecordsOf
    <3>2. ASSUME r \in RecordsOf(delta), r.value # Absent, r = LastOfKey(delta, r.key)
          PROVE  \E j \in 1 .. m : r = delta[j] /\ IsCurrent(all, n + 1, j)
      <4>1. HasKey(delta, r.key)
          BY <1>0, <3>2 DEF RecordsOf, HasKey
      <4>2. PICK j \in 1 .. m : IsLast(delta, j) /\ LastOfKey(delta, r.key) = delta[j]
          BY <1>0, <4>1, LastIs
      <4> QED  BY <1>3, <3>2, <4>2
    <3> QED  BY <3>1, <3>2
  <2> QED  BY <2>1, <2>2, <2>3 DEF Updated
<1> QED  BY <1>5 DEF all

-----------------------------------------------------------------------------
(* The reduced state                                                       *)

HasRecords(state, messages) ==
    \E records \in Seq(Items) :
        /\ state = [records |-> records] /\ KeyedOnce(records)
        /\ RecordsOf(records) = ServerRecords(messages)

Reduced(stream) ==
    /\ stream.sent # << >> => stream.sent[1] \in Snapshots
    /\ stream.got = << >> => stream.state = Undefined
    /\ stream.got # << >> => HasRecords(stream.state, stream.got)

ReducedInv == \A s \in Streams : Started(s) => Reduced(streams[s])

LEMMA ReadFirst ==
    ASSUME NEW snapshot \in Snapshots
    PROVE  HasRecords(KeepLastByKey(Undefined, snapshot), <<snapshot>>)
<1>1. KeepLastByKey(Undefined, snapshot) = [records |-> snapshot]
    BY DEF KeepLastByKey
<1>2. snapshot \in Seq(Items)
    BY MessageItems DEF Messages
<1> QED  BY <1>1, <1>2, FirstServerRecords DEF HasRecords

LEMMA ReadNext ==
    ASSUME NEW got \in Seq(Messages), NEW delta \in Messages, NEW state,
           HasRecords(state, got)
    PROVE  HasRecords(KeepLastByKey(state, delta), Append(got, delta))
<1>1. PICK records \in Seq(Items) : /\ state = [records |-> records] /\ KeyedOnce(records)
                                    /\ RecordsOf(records) = ServerRecords(got)
    BY DEF HasRecords
<1>2. delta \in Seq(Items)
    BY MessageItems
<1>3. PICK next \in Seq(Items) :
         /\ KeepLastByKey([records |-> records], delta) = [records |-> next]
         /\ IsNext(next, Items, RecordsOf(records), delta)
    BY <1>1, <1>2, Reduces
<1>4. RecordsOf(next) = ServerRecords(Append(got, delta)) /\ KeyedOnce(next)
    BY <1>1, <1>3, NextServerRecords DEF IsNext
<1> QED  BY <1>1, <1>3, <1>4 DEF HasRecords

LEMMA ReadReduced ==
    ASSUME NEW stream, StreamOK(stream), Reduced(stream), stream.published # << >>,
           Head(stream.published).event = "data",
           NEW next, next.sent = stream.sent,
           next.got = Append(stream.got, Head(stream.published).data),
           next.state = KeepLastByKey(stream.state, Head(stream.published).data)
    PROVE  Reduced(next)
<1>1. PICK message : message = Head(stream.published).data
    OBVIOUS
<1>2. PICK n : InTransit(stream.sent, stream.got, stream.published, n)
    BY DEF StreamOK
<1>3. PICK events, m : InTransit(stream.sent, Append(stream.got, message), events, m)
    BY <1>1, <1>2, InTransitArrives
<1>4. message \in Messages
    BY <1>1, <1>2, InTransitArrives DEF Events
<1>5. stream.got \in Seq(Messages) /\ stream.sent \in Seq(Messages)
    BY <1>2 DEF InTransit
<1>6. next.got # << >>
  <2>1. PICK got \in Seq(Messages) : got = stream.got
      BY <1>5
  <2>2. Append(got, message) # << >>
    <3>1. PICK more : more = Append(got, message)
        OBVIOUS
    <3>2. Len(more) = Len(got) + 1 /\ Len(got) \in Nat /\ more \in Seq(Messages)
        BY <1>4, <3>1
    <3>3. \A empty : empty = << >> => Len(empty) = 0
        OBVIOUS
    <3> QED  BY <3>1, <3>2, <3>3
  <2> QED  BY <1>1, <2>1, <2>2
<1>7. HasRecords(next.state, next.got)
  <2>1. CASE stream.got = << >>
    <3>1. Append(stream.got, message) = <<message>>
        BY <2>1
    <3>2. stream.sent[1] = message /\ stream.sent # << >>
        BY <1>3, <1>5, <3>1 DEF InTransit
    <3>3. message \in Snapshots /\ stream.state = Undefined
        BY <2>1, <3>2 DEF Reduced
    <3> QED  BY <1>1, <3>1, <3>3, ReadFirst
  <2>2. CASE stream.got # << >>
      BY <1>1, <1>4, <1>5, <2>2, ReadNext DEF Reduced
  <2> QED  BY <2>1, <2>2
<1> QED  BY <1>6, <1>7 DEF Reduced

(* Every step changes one stream. *)
LEMMA OneReduced ==
    ASSUME StreamsInv, ReducedInv, NEW s \in Streams, NEW new, Reduced(new),
           streams' = [streams EXCEPT ![s] = new]
    PROVE  ReducedInv'
    BY DEF ReducedInv, StreamsInv, Started

LEMMA ReducedSame ==
    ASSUME NEW stream, Reduced(stream), NEW next, next.sent = stream.sent,
           next.got = stream.got, next.state = stream.state
    PROVE  Reduced(next)
    BY DEF Reduced

LEMMA SameStep ==
    ASSUME StreamsInv, ReducedInv, NEW s \in Streams,
           OnError(s) \/ OnStatus(s) \/ OnEnd(s) \/ Cancel(s) \/ Leave(s) \/ TakeEnd(s)
    PROVE  ReducedInv'
<1> DEFINE stream == streams[s]
<1>1. StreamOK(stream) /\ Reduced(stream)
    BY DEF OnError, OnStatus, OnEnd, Cancel, Leave, TakeEnd, StreamsInv, ReducedInv, Started
<1>2. PICK next : /\ streams' = [streams EXCEPT ![s] = next]
                  /\ next.sent = stream.sent /\ next.got = stream.got
                  /\ next.state = stream.state
  <2>1. Fields \subseteq DOMAIN stream
      BY <1>1 DEF StreamOK, StreamTyped
  <2> DEFINE failed == Publish(Failed(stream), [event |-> "error"])
             completed == Publish(Completed(stream), [event |-> "status"])
             canceled == [stream EXCEPT !.wire = "canceled"]
             ended == End(stream)
             Done(pc) == [stream EXCEPT !.pc = pc]
  <2>2. \/ streams' = [streams EXCEPT ![s] = failed]
        \/ streams' = [streams EXCEPT ![s] = completed]
        \/ streams' = [streams EXCEPT ![s] = canceled]
        \/ streams' = [streams EXCEPT ![s] = ended]
        \/ \E pc \in {"left", "finished"} : streams' = [streams EXCEPT ![s] = Done(pc)]
      BY DEF OnError, OnStatus, OnEnd, Cancel, Leave, TakeEnd
  <2>3. \A next \in {failed, completed, canceled, ended} :
           next.sent = stream.sent /\ next.got = stream.got /\ next.state = stream.state
      BY <2>1 DEF Publish, Failed, Completed, End, Fields
  <2>4. \A pc : /\ Done(pc).sent = stream.sent /\ Done(pc).got = stream.got
                /\ Done(pc).state = stream.state
      BY <2>1 DEF Fields
  <2> HIDE DEF failed, completed, canceled, ended, Done, stream
  <2> QED  BY <2>2, <2>3, <2>4
<1>3. Reduced(next)
    BY <1>1, <1>2, ReducedSame
<1> QED  BY <1>2, <1>3, OneReduced

LEMMA OpenReduced ==
    ASSUME StreamsInv, ReducedInv, NEW s \in Streams, NEW d \in Configurations,
           OpenStream(s, d) \/ OpenNativeStream(s, d)
    PROVE  ReducedInv'
<1> DEFINE web == [pc |-> "reading", wire |-> "open", to |-> SameOrigin, failed |-> FALSE,
                   published |-> << >>, ended |-> FALSE, sent |-> << >>, got |-> << >>,
                   state |-> Undefined]
           native == [pc |-> "finished", wire |-> "none", failed |-> FALSE,
                      published |-> << >>, ended |-> TRUE, sent |-> << >>, got |-> << >>,
                      state |-> Undefined]
<1>1. PICK next : /\ streams' = [streams EXCEPT ![s] = next]
                  /\ next.sent = << >> /\ next.got = << >> /\ next.state = Undefined
  <2>1. streams' = [streams EXCEPT ![s] = web] \/ streams' = [streams EXCEPT ![s] = native]
      BY DEF OpenStream, OpenNativeStream
  <2>2. /\ web.sent = << >> /\ web.got = << >> /\ web.state = Undefined
        /\ native.sent = << >> /\ native.got = << >> /\ native.state = Undefined
      OBVIOUS
  <2> HIDE DEF web, native
  <2> QED  BY <2>1, <2>2
<1> HIDE DEF web, native
<1>2. Reduced(next)
    BY <1>1 DEF Reduced
<1> QED  BY <1>1, <1>2, OneReduced

LEMMA DataReduced ==
    ASSUME StreamsInv, ReducedInv, NEW s \in Streams, OnData(s)
    PROVE  ReducedInv'
<1> DEFINE stream == streams[s]
<1>1. StreamOK(stream) /\ Reduced(stream)
    BY DEF OnData, StreamsInv, ReducedInv
<1>2. PICK message, next :
         /\ message \in Messages
         /\ streams' = [streams EXCEPT ![s] = next]
         /\ next.sent = Append(stream.sent, message)
         /\ next.got = stream.got /\ next.state = stream.state
         /\ stream.sent = << >> => message \in Snapshots
  <2>1. PICK message \in Messages :
         /\ streams' = [streams EXCEPT ![s] =
               Publish(Sent(stream, message), [event |-> "data", data |-> message])]
         /\ stream.sent = << >> => message \in Snapshots
      BY DEF OnData, Messages, StreamsInv
  <2> DEFINE next == Publish(Sent(stream, message), [event |-> "data", data |-> message])
  <2>2. /\ next.sent = Append(stream.sent, message)
        /\ next.got = stream.got /\ next.state = stream.state
      BY <1>1 DEF Publish, Sent, StreamOK, StreamTyped, Fields
  <2> HIDE DEF next
  <2>3. streams' = [streams EXCEPT ![s] = next]
      BY <2>1 DEF next
  <2> QED  BY <2>1, <2>2, <2>3
<1>3. stream.sent \in Seq(Messages)
    BY <1>1 DEF StreamOK, InTransit
<1> HIDE DEF stream
<1>4. next.sent[1] \in Snapshots
  <2>1. CASE stream.sent = << >>
      BY <1>2, <2>1
  <2>2. CASE stream.sent # << >>
      BY <1>1, <1>2, <1>3, <2>2 DEF Reduced
  <2> QED  BY <2>1, <2>2
<1>5. Reduced(next)
    BY <1>1, <1>2, <1>4 DEF Reduced
<1> QED  BY <1>2, <1>5, OneReduced

LEMMA TakeReduced ==
    ASSUME StreamsInv, ReducedInv, NEW s \in Streams, TakeEvent(s)
    PROVE  ReducedInv'
<1> DEFINE stream == streams[s]
           event == Head(stream.published)
           next == Taken(stream)
<1>1. /\ StreamOK(stream) /\ Reduced(stream) /\ stream.published # << >>
      /\ streams' = [streams EXCEPT ![s] = next]
    BY DEF TakeEvent, StreamsInv, ReducedInv, Started
<1>2. event.event \in {"data", "error", "status"}
    BY <1>1, InTransitArrives DEF StreamOK, Events
<1>3. /\ next.sent = stream.sent
      /\ event.event = "data" =>
            /\ next.got = Append(stream.got, event.data)
            /\ next.state = KeepLastByKey(stream.state, event.data)
      /\ event.event # "data" => next.got = stream.got /\ next.state = stream.state
    BY <1>1, <1>2 DEF Taken, StreamOK, StreamTyped, Fields
<1> HIDE DEF next
<1>4. Reduced(next)
  <2>1. CASE event.event = "data"
      BY <1>1, <1>3, <2>1, ReadReduced
  <2>2. CASE event.event # "data"
      BY <1>1, <1>3, <2>2, ReducedSame
  <2> QED  BY <2>1, <2>2
<1> QED  BY <1>1, <1>4, OneReduced

LEMMA NextReduced == StreamsInv /\ ReducedInv /\ [Next]_vars => ReducedInv'
<1> SUFFICES ASSUME StreamsInv, ReducedInv, [Next]_vars PROVE ReducedInv'
    OBVIOUS
<1>1. CASE UNCHANGED streams
    BY <1>1 DEF ReducedInv, Started
<1>2. CASE \E s \in Streams, d \in Configurations : OpenStream(s, d) \/ OpenNativeStream(s, d)
    BY <1>2, OpenReduced
<1>3. CASE \E s \in Streams : Handlers(s) \/ Reader(s) \/ Cancel(s) \/ Leave(s)
    BY <1>3, DataReduced, TakeReduced, SameStep DEF Handlers, Reader
<1> QED  BY <1>1, <1>2, <1>3 DEF Next, vars, Use, UnaryCall, Answer

(* The reduced state is what the server has after the messages read so     *)
(* far: keepLastByKey loses no record, keeps none that is gone or was      *)
(* changed since, and has each key once.                                   *)
THEOREM StateReduced == Spec => []StateFollowsServer
<1>1. Init => ReducedInv
    BY DEF Init, ReducedInv, Started
<1>2. ReducedInv => StateFollowsServer
  <2> SUFFICES ASSUME ReducedInv, NEW s \in Streams, Started(s), streams[s].got # << >>
               PROVE  LET shown == streams[s].state.records IN
                      /\ {shown[i] : i \in DOMAIN shown} = ServerRecords(streams[s].got)
                      /\ \A i, j \in DOMAIN shown : shown[i].key = shown[j].key => i = j
      BY DEF StateFollowsServer
  <2>1. HasRecords(streams[s].state, streams[s].got)
      BY DEF ReducedInv, Reduced
  <2>2. PICK records \in Seq(Items) :
           /\ streams[s].state = [records |-> records] /\ KeyedOnce(records)
           /\ RecordsOf(records) = ServerRecords(streams[s].got)
      BY <2>1 DEF HasRecords
  <2>3. streams[s].state.records = records /\ DOMAIN records = 1 .. Len(records)
      BY <2>2
  <2> QED  BY <2>2, <2>3 DEF KeyedOnce, RecordsOf
<1> QED  BY <1>1, <1>2, NextReduced, InitStreams, NextStreams, PTL DEF Spec
=============================================================================
