----------------------------- MODULE GrpcBridge -----------------------------
(***************************************************************************)
(* react-native-grpc: JavaScript calls (index.tsx, callState.ts) carried   *)
(* by a native module (GrpcModule.kt, Grpc.swift) over gRPC.               *)
(*                                                                         *)
(* Three kinds of threads meet here.                                       *)
(*   - The JavaScript thread runs one task at a time (a message from the   *)
(*     native side) and drains its microtasks (the continuations of        *)
(*     promises) before the next one.                                      *)
(*   - The native module's executor runs one task at a time, in the order  *)
(*     they were submitted; it owns nextId and activeCalls.                *)
(*   - gRPC's own threads report messages and the end of a call to an      *)
(*     observer that submits a task to the executor.                       *)
(* They talk through two FIFO queues, executor and toJs.                   *)
(*                                                                         *)
(* The message a server sends k-th on a call is the number k.              *)
(***************************************************************************)
EXTENDS Naturals, Sequences

CONSTANTS
    Platforms,    \* the native modules considered: "android", "ios" or both
    UnaryCalls,   \* invocations of unaryCall
    StreamCalls,  \* invocations of serverStreamingCall (first next() of each)
    Pings,        \* invocations of ping
    MaxMessages   \* bound: messages a server sends on one stream

ASSUME PlatformsAssumption == Platforms \subseteq {"android", "ios"}
ASSUME CallsAssumption == UnaryCalls \cap StreamCalls = {}
ASSUME MaxMessagesAssumption == MaxMessages \in Nat

Calls == UnaryCalls \cup StreamCalls

VARIABLES
    listener,     \* grpcEmitter and _listener: "none", "listening", "removed"
    callStates,   \* callState.ts: call id -> [queue, waiter]
    pingId,       \* next ping number
    pingResolves, \* ping number -> the ping whose promise it resolves
    pinged,       \* each ping: "idle", "sent", "acked", "ponged", "done"
    pc,           \* each call: where its async function is suspended
    callId,       \* each call: the id the native side gave it, 0 before that
    handed,       \* each call: what its awaited nextCallEvent resolved to
    delivered,    \* each call: the messages its caller has been given
    toNative,     \* calls whose createCall is on its way to the native module
    platform,     \* which native module is installed
    executor,     \* tasks submitted to the native executor
    nextId,       \* native: last call number given out (android), next (ios)
    activeCalls,  \* native: ids of the calls held in activeCalls
    rpcs,         \* gRPC: call id -> [call, status, sent]
    toJs          \* messages from the native module to JavaScript

jsVars == <<listener, callStates, pingId, pingResolves, pinged, pc, callId,
            handed, delivered>>
nativeVars == <<platform, executor, nextId, activeCalls>>
vars == <<jsVars, toNative, nativeVars, rpcs, toJs>>

-----------------------------------------------------------------------------
(* Events, tasks and messages. *)

CallIds == Nat \ {0}

Receive(id, m) == [type |-> "receive", callId |-> id, message |-> m]
End(id) == [type |-> "end", callId |-> id, message |-> 0]
Fail(id) == [type |-> "fail", callId |-> id, message |-> 0]
Null == [type |-> "null", callId |-> 0, message |-> 0]

CallEvent == [type : {"receive", "end", "fail"}, callId : CallIds, message : Nat]
Completes(event) == event.type \in {"end", "fail"}

(* Mutant: Android renders the number of a pong as a string too. *)
MutPongAsString(n) == [is |-> "string", value |-> n]

(* A pong carries the ping's number: a number on Android, but the decimal  *)
(* rendering of a double ("1.0") on iOS.                                   *)
PongNumber(n) ==
    [is |-> IF platform = "ios" THEN "string" ELSE "number", value |-> n]
Number(n) == [is |-> "number", value |-> n]

CreateTask(c) == [task |-> "createCall", call |-> c]
PingTask(p, n) == [task |-> "ping", ping |-> p, number |-> n]
EmitTask(e) == [task |-> "emit", event |-> e]

EventMessage(e) == [kind |-> "event", event |-> e]
PongMessage(n) == [kind |-> "pong", number |-> n]
SentMessage(p) == [kind |-> "sent", ping |-> p]
CreatedMessage(c, id) == [kind |-> "created", call |-> c, id |-> id]
RejectedMessage(c) == [kind |-> "rejected", call |-> c]

-----------------------------------------------------------------------------
Init ==
    /\ listener = "none"
    /\ callStates = << >>
    /\ pingId = 1
    /\ pingResolves = << >>
    /\ pinged = [p \in Pings |-> "idle"]
    /\ pc = [c \in Calls |-> "idle"]
    /\ callId = [c \in Calls |-> 0]
    /\ handed = [c \in Calls |-> Null]
    /\ delivered = [c \in Calls |-> << >>]
    /\ toNative = {}
    /\ platform \in Platforms
    /\ executor = << >>
    /\ nextId = 1
    /\ activeCalls = {}
    /\ rpcs = << >>
    /\ toJs = << >>

-----------------------------------------------------------------------------
(* callState.ts *)

Remove(states, id) == [i \in DOMAIN states \ {id} |-> states[i]]

Put(states, id, state) ==
    [i \in DOMAIN states \cup {id} |-> IF i = id THEN state ELSE states[i]]

NoEvents == [queue |-> << >>, waiter |-> << >>]

CreateCall(states, id) == Put(states, id, NoEvents)

(* Mutant: no finally, the call is never abandoned. *)
MutAbandonNothing(states, id) == states

AbandonCall(states, id) == Remove(states, id)

(* Mutant: the end of a call does not remove it. *)
MutCheckNothing(states, event) == states

CheckComplete(states, event) ==
    IF Completes(event) THEN Remove(states, event.callId) ELSE states

(* The promise call c awaits is resolved: c's continuation is a microtask. *)
Resolve(c, value) ==
    /\ pc' = [pc EXCEPT ![c] = "resumed"]
    /\ handed' = [handed EXCEPT ![c] = value]

(* Mutant: the newest event is taken first (pop for shift). *)
MutWaitTakesLast(c, states) ==
    LET id == callId[c]
        queue == IF id \in DOMAIN states THEN states[id].queue ELSE << >> IN
    \/ /\ id \notin DOMAIN states
       /\ Resolve(c, Null)
       /\ callStates' = states
    \/ /\ queue # << >>
       /\ callStates' = CheckComplete(
              [states EXCEPT ![id].queue = SubSeq(@, 1, Len(@) - 1)], queue[Len(queue)])
       /\ Resolve(c, queue[Len(queue)])
    \/ /\ id \in DOMAIN states /\ queue = << >>
       /\ callStates' = [states EXCEPT ![id].waiter = Append(@, c)]
       /\ pc' = [pc EXCEPT ![c] = "waiting"]
       /\ handed' = [handed EXCEPT ![c] = Null]

WaitForCallEvent(c, states) ==
    LET id == callId[c] IN
    \/ /\ id \notin DOMAIN states
       /\ Resolve(c, Null)
       /\ callStates' = states
    \/ /\ id \in DOMAIN states /\ states[id].queue # << >>
       /\ LET next == Head(states[id].queue) IN
          /\ callStates' = CheckComplete(
                               [states EXCEPT ![id].queue = Tail(@)], next)
          /\ Resolve(c, next)
    \/ /\ id \in DOMAIN states /\ states[id].queue = << >>
       /\ callStates' = [states EXCEPT ![id].waiter = Append(@, c)]
       /\ pc' = [pc EXCEPT ![c] = "waiting"]
       /\ handed' = [handed EXCEPT ![c] = Null]

Waiters(state) == {state.waiter[i] : i \in DOMAIN state.waiter}

(* Mutant: an event is queued even though a caller waits for it. *)
MutQueueAlways(event) ==
    /\ callStates' = IF event.callId \in DOMAIN callStates
                      THEN [callStates EXCEPT ![event.callId].queue = Append(@, event)]
                      ELSE callStates
    /\ UNCHANGED <<pc, handed>>

(* Mutant: an event resolves the promise of every call that waits. *)
MutWakeEveryone(event) ==
    /\ pc' = [c \in Calls |-> IF pc[c] = "waiting" THEN "resumed" ELSE pc[c]]
    /\ handed' = [c \in Calls |-> IF pc[c] = "waiting" THEN event ELSE handed[c]]
    /\ callStates' = [id \in DOMAIN callStates |->
                         [callStates[id] EXCEPT !.waiter = << >>]]

OnCallEvent(event) ==
    LET id == event.callId IN
    \/ /\ id \notin DOMAIN callStates
       /\ UNCHANGED <<callStates, pc, handed>>
    \/ /\ id \in DOMAIN callStates /\ callStates[id].waiter # << >>
       /\ LET woken == Waiters(callStates[id]) IN
          /\ pc' = [c \in Calls |-> IF c \in woken THEN "resumed" ELSE pc[c]]
          /\ handed' = [c \in Calls |-> IF c \in woken THEN event ELSE handed[c]]
       /\ callStates' = CheckComplete([callStates EXCEPT ![id].waiter = << >>], event)
    \/ /\ id \in DOMAIN callStates /\ callStates[id].waiter = << >>
       /\ callStates' = [callStates EXCEPT ![id].queue = Append(@, event)]
       /\ UNCHANGED <<pc, handed>>

-----------------------------------------------------------------------------
(* index.tsx, called by the application *)

(* The listener is added once, when the emitter does not exist yet. *)
Subscribed == IF listener = "none" THEN "listening" ELSE listener

(* unaryCall and serverStreamingCall up to their await of createCall. *)
StartCall(c) ==
    /\ pc[c] = "idle"
    /\ listener' = Subscribed
    /\ pc' = [pc EXCEPT ![c] = "creating"]
    /\ toNative' = toNative \cup {c}
    /\ UNCHANGED <<callStates, pingId, pingResolves, pinged, callId, handed,
                   delivered, nativeVars, rpcs, toJs>>

Ping(p) ==
    /\ pinged[p] = "idle"
    /\ listener' = Subscribed
    /\ pingId' = pingId + 1
    /\ pingResolves' = Put(pingResolves, pingId, p)
    /\ pinged' = [pinged EXCEPT ![p] = "sent"]
    /\ executor' = Append(executor, PingTask(p, pingId))
    /\ UNCHANGED <<callStates, pc, callId, handed, delivered, toNative, platform,
                   nextId, activeCalls, rpcs, toJs>>

(* The consumer of a stream asks for its next message... *)
Pull(c) ==
    /\ pc[c] = "yielded"
    /\ WaitForCallEvent(c, callStates)
    /\ UNCHANGED <<listener, pingId, pingResolves, pinged, callId, delivered,
                   toNative, nativeVars, rpcs, toJs>>

(* ... or returns from its loop early: the generator's finally runs. *)
Return(c) ==
    /\ pc[c] = "yielded"
    /\ callStates' = AbandonCall(callStates, callId[c])
    /\ pc' = [pc EXCEPT ![c] = "canceled"]
    /\ UNCHANGED <<listener, pingId, pingResolves, pinged, callId, handed,
                   delivered, toNative, nativeVars, rpcs, toJs>>

(* shutdown removes the listener and keeps the emitter: a later subscribe  *)
(* finds the emitter and adds none.                                        *)
Shutdown ==
    /\ listener = "listening"
    /\ listener' = "removed"
    /\ UNCHANGED <<callStates, pingId, pingResolves, pinged, pc, callId, handed,
                   delivered, toNative, nativeVars, rpcs, toJs>>

-----------------------------------------------------------------------------
(* index.tsx, continuations: the microtasks *)

(* createCall has resolved: register the call and await its first event. *)
Register(c) ==
    /\ pc[c] = "created"
    /\ WaitForCallEvent(c, CreateCall(callStates, callId[c]))
    /\ UNCHANGED <<listener, pingId, pingResolves, pinged, callId, delivered,
                   toNative, nativeVars, rpcs, toJs>>

(* Leaving the try block: the finally abandons the call. *)
Settle(c, outcome) ==
    /\ pc' = [pc EXCEPT ![c] = outcome]
    /\ handed' = [handed EXCEPT ![c] = Null]
    /\ callStates' = AbandonCall(callStates, callId[c])

(* unaryCall: the first message is the result; an end goes round the loop, *)
(* which then finds no call and throws.                                    *)
ResumeUnary(c) ==
    /\ c \in UnaryCalls /\ pc[c] = "resumed"
    /\ \/ /\ handed[c].type = "receive"
          /\ delivered' = [delivered EXCEPT ![c] = Append(@, handed[c].message)]
          /\ Settle(c, "returned")
       \/ /\ handed[c].type \in {"fail", "null"}
          /\ Settle(c, "threw")
          /\ UNCHANGED delivered
       \/ /\ handed[c].type = "end"
          /\ WaitForCallEvent(c, callStates)
          /\ UNCHANGED delivered
    /\ UNCHANGED <<listener, pingId, pingResolves, pinged, callId, toNative,
                   nativeVars, rpcs, toJs>>

(* serverStreamingCall: a message is yielded, a failure thrown. *)
ResumeStream(c) ==
    /\ c \in StreamCalls /\ pc[c] = "resumed"
    /\ \/ /\ handed[c].type = "receive"
          /\ delivered' = [delivered EXCEPT ![c] = Append(@, handed[c].message)]
          /\ pc' = [pc EXCEPT ![c] = "yielded"]
          /\ handed' = [handed EXCEPT ![c] = Null]
          /\ UNCHANGED callStates
       \/ /\ handed[c].type = "fail"
          /\ Settle(c, "threw")
          /\ UNCHANGED delivered
       \/ /\ handed[c].type \in {"end", "null"}
          /\ Settle(c, "returned")
          /\ UNCHANGED delivered
    /\ UNCHANGED <<listener, pingId, pingResolves, pinged, callId, toNative,
                   nativeVars, rpcs, toJs>>

Microtask(c) == Register(c) \/ ResumeUnary(c) \/ ResumeStream(c)

-----------------------------------------------------------------------------
(* JavaScript tasks: one message from the native side, taken when no       *)
(* microtask is pending.                                                   *)

MicrotasksDrained == \A c \in Calls : pc[c] \notin {"created", "resumed"}

Take(kind) ==
    /\ MicrotasksDrained
    /\ toJs # << >> /\ Head(toJs).kind = kind
    /\ toJs' = Tail(toJs)
    /\ UNCHANGED <<pingId, delivered, toNative, nativeVars, rpcs, listener>>

TakeCreated ==
    /\ Take("created")
    /\ pc' = [pc EXCEPT ![Head(toJs).call] = "created"]
    /\ callId' = [callId EXCEPT ![Head(toJs).call] = Head(toJs).id]
    /\ UNCHANGED <<callStates, pingResolves, pinged, handed>>

TakeRejected ==
    /\ Take("rejected")
    /\ pc' = [pc EXCEPT ![Head(toJs).call] = "threw"]
    /\ UNCHANGED <<callStates, pingResolves, pinged, callId, handed>>

TakeEvent ==
    /\ Take("event")
    /\ IF listener = "listening"
       THEN OnCallEvent(Head(toJs).event)
       ELSE UNCHANGED <<callStates, pc, handed>>
    /\ UNCHANGED <<pingResolves, pinged, callId>>

(* The native answer to ping and the pong event: ping returns after both. *)
PingStep(p, half) ==
    pinged' = [pinged EXCEPT ![p] = IF @ \in {"sent", half} THEN half ELSE "done"]

TakePong ==
    /\ Take("pong")
    /\ LET hits == {n \in DOMAIN pingResolves : Number(n) = Head(toJs).number} IN
       \/ /\ listener = "listening"
          /\ \E n \in hits : PingStep(pingResolves[n], "ponged")
       \/ /\ listener # "listening" \/ hits = {}
          /\ UNCHANGED pinged
    /\ UNCHANGED <<callStates, pingResolves, pc, callId, handed>>

TakeSent ==
    /\ Take("sent")
    /\ PingStep(Head(toJs).ping, "acked")
    /\ UNCHANGED <<callStates, pingResolves, pc, callId, handed>>

JsTask == TakeCreated \/ TakeRejected \/ TakeEvent \/ TakePong \/ TakeSent

-----------------------------------------------------------------------------
(* GrpcModule.kt, Grpc.swift *)

(* createCall on the native modules thread: its arguments are unpacked and *)
(* a task submitted; on Android an argument that does not unpack rejects.  *)
NativeCreateCall(c) ==
    /\ c \in toNative
    /\ toNative' = toNative \ {c}
    /\ \/ /\ executor' = Append(executor, CreateTask(c))
          /\ UNCHANGED toJs
       \/ /\ platform = "android"
          /\ toJs' = Append(toJs, RejectedMessage(c))
          /\ UNCHANGED executor
    /\ UNCHANGED <<jsVars, platform, nextId, activeCalls, rpcs>>

RunTask(task) ==
    /\ executor # << >> /\ Head(executor).task = task
    /\ executor' = Tail(executor)
    /\ UNCHANGED <<jsVars, toNative, platform>>

(* Mutant: the call number is taken from the wrong side of nextId. *)
MutPreviousId == nextId - 1

NewId == IF platform = "ios" THEN nextId ELSE nextId + 1

Rpc(c, status) == [call |-> c, status |-> status, sent |-> 0]

(* The gRPC call is made and the promise resolved with its id. *)
Launch(c) ==
    /\ platform = "android" \/ c \in UnaryCalls
    /\ activeCalls' = activeCalls \cup {NewId}
    /\ rpcs' = Put(rpcs, NewId, Rpc(c, "running"))
    /\ toJs' = Append(toJs, CreatedMessage(c, NewId))

(* Grpc.swift makes a call for a unary method only, and resolves anyway. *)
LaunchNothing(c) ==
    /\ platform = "ios" /\ c \notin UnaryCalls
    /\ rpcs' = Put(rpcs, NewId, Rpc(c, "none"))
    /\ toJs' = Append(toJs, CreatedMessage(c, NewId))
    /\ UNCHANGED activeCalls

(* Mutant: the exception is swallowed, the promise never settled. *)
MutLaunchSwallows(c) ==
    /\ platform = "android" /\ c \in Calls
    /\ UNCHANGED <<rpcs, activeCalls, toJs>>

(* GrpcModule.kt: an exception before the call is made (no channel), or    *)
(* after it went into activeCalls (the request could not be sent), rejects.*)
LaunchThrows(c) ==
    /\ platform = "android"
    /\ \/ /\ rpcs' = Put(rpcs, NewId, Rpc(c, "none"))
          /\ UNCHANGED activeCalls
       \/ /\ rpcs' = Put(rpcs, NewId, Rpc(c, "aborted"))
          /\ activeCalls' = activeCalls \cup {NewId}
    /\ toJs' = Append(toJs, RejectedMessage(c))

RunCreateCall ==
    /\ RunTask("createCall")
    /\ nextId' = nextId + 1
    /\ LET c == Head(executor).call IN
       Launch(c) \/ LaunchNothing(c) \/ LaunchThrows(c)

RunPing ==
    /\ RunTask("ping")
    /\ toJs' = toJs \o <<PongMessage(PongNumber(Head(executor).number)),
                         SentMessage(Head(executor).ping)>>
    /\ UNCHANGED <<nextId, activeCalls, rpcs>>

(* Mutant: the native side never forgets a call. *)
MutEmitOnly ==
    /\ RunTask("emit")
    /\ toJs' = Append(toJs, EventMessage(Head(executor).event))
    /\ UNCHANGED <<nextId, activeCalls, rpcs>>

(* didReceive, didFail and didEnd: emit the event; the last two also       *)
(* forget the call.                                                        *)
RunEmit ==
    /\ RunTask("emit")
    /\ LET event == Head(executor).event IN
       /\ toJs' = Append(toJs, EventMessage(event))
       /\ activeCalls' = IF Completes(event) THEN activeCalls \ {event.callId}
                                             ELSE activeCalls
    /\ UNCHANGED <<nextId, rpcs>>

Executor == RunCreateCall \/ RunPing \/ RunEmit

-----------------------------------------------------------------------------
(* gRPC's threads: CallObserver (Android), CallInterceptor (iOS) *)

Submit(event) ==
    /\ executor' = Append(executor, EmitTask(event))
    /\ UNCHANGED <<jsVars, toNative, platform, nextId, activeCalls, toJs>>

OnNext(id) ==
    /\ rpcs[id].status = "running"
    /\ rpcs[id].sent < (IF rpcs[id].call \in UnaryCalls THEN 1 ELSE MaxMessages)
    /\ rpcs' = [rpcs EXCEPT ![id].sent = @ + 1]
    /\ Submit(Receive(id, rpcs[id].sent + 1))

OnCompleted(id) ==
    /\ rpcs[id].status = "running"
    /\ rpcs' = [rpcs EXCEPT ![id].status = "ended"]
    /\ Submit(End(id))

OnError(id) ==
    /\ rpcs[id].status \in {"running", "aborted"}
    /\ rpcs' = [rpcs EXCEPT ![id].status = "failed"]
    /\ Submit(Fail(id))

Network == \E id \in DOMAIN rpcs : OnNext(id) \/ OnCompleted(id) \/ OnError(id)

-----------------------------------------------------------------------------
Application ==
    \/ \E c \in Calls : StartCall(c) \/ Pull(c) \/ Return(c)
    \/ \E p \in Pings : Ping(p)
    \/ Shutdown

System ==
    \/ \E c \in Calls : Microtask(c) \/ NativeCreateCall(c)
    \/ JsTask
    \/ Executor

Next == Application \/ System \/ Network

Spec == Init /\ [][Next]_vars

(* The three threads keep running.  Nothing is promised of the application *)
(* (it may never pull a stream again) nor of the network.                  *)
Fairness ==
    /\ \A c \in Calls : WF_vars(Microtask(c)) /\ WF_vars(NativeCreateCall(c))
    /\ WF_vars(JsTask)
    /\ WF_vars(Executor)

FairSpec == Spec /\ Fairness
-----------------------------------------------------------------------------
(* Properties *)

Task == [task : {"createCall"}, call : Calls]
        \cup [task : {"ping"}, ping : Pings, number : CallIds]
        \cup [task : {"emit"}, event : CallEvent]

JsMessage == [kind : {"event"}, event : CallEvent]
             \cup [kind : {"pong"}, number : [is : {"number", "string"}, value : CallIds]]
             \cup [kind : {"sent"}, ping : Pings]
             \cup [kind : {"created"}, call : Calls, id : CallIds]
             \cup [kind : {"rejected"}, call : Calls]

CallState == [queue : Seq(CallEvent), waiter : Seq(Calls)]

RpcState == [call : Calls,
             status : {"none", "running", "aborted", "ended", "failed"},
             sent : Nat]

Settled == {"returned", "threw", "canceled"}
Registered == {"waiting", "resumed", "yielded"}
InFlight == {"creating", "created", "waiting", "resumed"}

(* Every variable holds values of its type; in particular the maps keyed   *)
(* by call id hold ids the native module gave out.                         *)
TypeOK ==
    /\ listener \in {"none", "listening", "removed"}
    /\ callStates \in [DOMAIN callStates -> CallState]
    /\ DOMAIN callStates \subseteq CallIds
    /\ pingId \in CallIds
    /\ pingResolves \in [DOMAIN pingResolves -> Pings]
    /\ DOMAIN pingResolves \subseteq CallIds
    /\ pinged \in [Pings -> {"idle", "sent", "acked", "ponged", "done"}]
    /\ pc \in [Calls -> {"idle", "yielded"} \cup InFlight \cup Settled]
    /\ callId \in [Calls -> Nat]
    /\ handed \in [Calls -> CallEvent \cup {Null}]
    /\ delivered \in [Calls -> Seq(Nat)]
    /\ toNative \in SUBSET Calls
    /\ platform \in {"android", "ios"}
    /\ executor \in Seq(Task)
    /\ nextId \in CallIds
    /\ activeCalls \in SUBSET CallIds
    /\ rpcs \in [DOMAIN rpcs -> RpcState]
    /\ DOMAIN rpcs \subseteq CallIds
    /\ toJs \in Seq(JsMessage)

(* A call's entry in callStates: someone waits on it, or events queue in   *)
(* it, never both; only the call it belongs to waits on it, once, and a    *)
(* suspended call always has its entry.  So onCallEvent never resolves     *)
(* another call's promise, and no caller sleeps beside a queued event.     *)
WaiterDiscipline ==
    /\ \A id \in DOMAIN callStates :
          LET c == rpcs[id].call IN
          /\ id \in DOMAIN rpcs /\ callId[c] = id
          /\ callStates[id].waiter = IF pc[c] = "waiting" THEN <<c>> ELSE << >>
          /\ pc[c] = "waiting" => callStates[id].queue = << >>
    /\ \A c \in Calls : pc[c] = "waiting" => callId[c] \in DOMAIN callStates

(* callStates does not leak: an entry belongs to a call whose function has *)
(* not left its try block, whatever way the call ended.                    *)
CallStatesReclaimed ==
    \A id \in DOMAIN callStates : pc[rpcs[id].call] \in Registered

ToJsEvents == [i \in DOMAIN toJs |->
                 IF toJs[i].kind = "event" THEN toJs[i].event ELSE Null]
ExecutorEvents == [i \in DOMAIN executor |->
                     IF executor[i].task = "emit" THEN executor[i].event ELSE Null]

(* The events between the server of a call and its caller, oldest first. *)
UnderWay(id) ==
    <<handed[rpcs[id].call]>>
    \o (IF id \in DOMAIN callStates THEN callStates[id].queue ELSE << >>)
    \o ToJsEvents \o ExecutorEvents

(* Among the events, those of the call carry its messages after lo up to   *)
(* hi, each once and in order.                                             *)
CarriesMessages(events, id, lo, hi) ==
    LET mine == {i \in DOMAIN events :
                    events[i].callId = id /\ events[i].type = "receive"} IN
    /\ {events[i].message : i \in mine} = lo + 1 .. hi
    /\ \A i, j \in mine : i < j => events[i].message < events[j].message

(* While the listener is there and the caller has not settled, what the    *)
(* caller was given followed by what is under way is exactly what the      *)
(* server sent, in order: an event that arrives between the native answer  *)
(* and the registration, or between two awaits, is not lost, repeated or   *)
(* overtaken.                                                              *)
NothingLost ==
    listener = "listening" =>
        \A id \in DOMAIN rpcs :
            LET c == rpcs[id].call
                given == Len(delivered[c]) IN
            pc[c] \notin Settled =>
                /\ delivered[c] = [m \in 1 .. given |-> m]
                /\ given <= rpcs[id].sent
                /\ CarriesMessages(UnderWay(id), id, given, rpcs[id].sent)

(* activeCalls holds the gRPC calls that can still report something and    *)
(* those whose last report is waiting in the executor, and no other: the   *)
(* native map keeps no call that reported its end and drops none that is   *)
(* running.  A call whose launch threw ("aborted") counts as one that can  *)
(* report: gRPC may fail it, or leave it in activeCalls for ever.          *)
ActiveCallsTracked ==
    activeCalls =
        {id \in DOMAIN rpcs :
            \/ rpcs[id].status \in {"running", "aborted"}
            \/ \E i \in DOMAIN executor :
                  executor[i] \in {EmitTask(End(id)), EmitTask(Fail(id))}}

(* A createCall is always answered, so the await of it ends. *)
CreateCallAnswered == \A c \in Calls : pc[c] = "creating" ~> pc[c] # "creating"

(* A caller that awaits a call with unread messages, or one the server has *)
(* closed, gets a message, a result or an error, unless shutdown removed   *)
(* the listener.                                                           *)
Unread(c) == \E id \in DOMAIN rpcs :
    /\ rpcs[id].call = c
    /\ rpcs[id].status \in {"ended", "failed"} \/ Len(delivered[c]) < rpcs[id].sent

AwaitedCallProgresses ==
    \A c \in Calls : (pc[c] \in InFlight /\ Unread(c)) ~>
                     (pc[c] \notin InFlight \/ listener = "removed")

(* ping returns: the pong finds the promise that was stored for it. *)
PingReturns ==
    \A p \in Pings : pinged[p] = "sent" ~> (pinged[p] = "done" \/ listener = "removed")
=============================================================================
