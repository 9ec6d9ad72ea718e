-------------------------- MODULE GrpcBridge_proofs --------------------------
(***************************************************************************)
(* Proofs about GrpcBridge, for every set of calls and pings, any number   *)
(* of messages and both platforms.                                         *)
(***************************************************************************)
EXTENDS GrpcBridge, TLAPS

(* A map from ids to entries of S, whatever ids it has. *)
IsMap(f, S) == DOMAIN f \subseteq CallIds /\ f \in [DOMAIN f -> S]

(* Taking an id out of a map leaves a map. *)
LEMMA RemoveIsMap ==
    ASSUME NEW S, NEW f, IsMap(f, S), NEW id
    PROVE  /\ IsMap(Remove(f, id), S)
           /\ DOMAIN Remove(f, id) = DOMAIN f \ {id}
           /\ \A i \in DOMAIN f \ {id} : Remove(f, id)[i] = f[i]
    BY DEF IsMap, Remove

(* Giving an id an entry leaves a map with that entry. *)
LEMMA PutIsMap ==
    ASSUME NEW S, NEW f, IsMap(f, S), NEW id \in CallIds, NEW s \in S
    PROVE  /\ IsMap(Put(f, id, s), S)
           /\ DOMAIN Put(f, id, s) = DOMAIN f \cup {id}
           /\ Put(f, id, s)[id] = s
           /\ \A i \in DOMAIN f \ {id} : Put(f, id, s)[i] = f[i]
    BY DEF IsMap, Put

LEMMA UpdateIsMap ==
    ASSUME NEW S, NEW f, IsMap(f, S), NEW id \in DOMAIN f, NEW s \in S
    PROVE  /\ IsMap([f EXCEPT ![id] = s], S)
           /\ DOMAIN [f EXCEPT ![id] = s] = DOMAIN f
    BY DEF IsMap

(* Replacing one field of an entry of callStates. *)
LEMMA CallStateUpdates ==
    ASSUME NEW s \in CallState
    PROVE  /\ \A q \in Seq(CallEvent) : [s EXCEPT !.queue = q] \in CallState
           /\ \A w \in Seq(Calls) : [s EXCEPT !.waiter = w] \in CallState
           /\ s.queue \in Seq(CallEvent) /\ s.waiter \in Seq(Calls)
    BY DEF CallState

LEMMA CheckCompleteIsMap ==
    ASSUME NEW S, NEW f, IsMap(f, S), NEW event \in CallEvent
    PROVE  IsMap(CheckComplete(f, event), S)
    BY RemoveIsMap DEF CheckComplete

(* The events and messages the actions build are of their types. *)
LEMMA MessageTypes ==
    /\ \A id \in CallIds : End(id) \in CallEvent /\ Fail(id) \in CallEvent
    /\ \A id \in CallIds, m \in Nat : Receive(id, m) \in CallEvent
    /\ \A c \in Calls : CreateTask(c) \in Task /\ RejectedMessage(c) \in JsMessage
    /\ \A p \in Pings, n \in CallIds : PingTask(p, n) \in Task
    /\ \A e \in CallEvent : EmitTask(e) \in Task /\ EventMessage(e) \in JsMessage
    /\ \A p \in Pings : SentMessage(p) \in JsMessage
    /\ \A n \in CallIds : PongMessage(PongNumber(n)) \in JsMessage
    /\ \A c \in Calls, id \in CallIds : CreatedMessage(c, id) \in JsMessage
    BY DEF End, Fail, Receive, CallEvent, CreateTask, RejectedMessage, PingTask,
           EmitTask, EventMessage, SentMessage, PongMessage, PongNumber,
           CreatedMessage, Task, JsMessage

(* What the head of each queue is. *)
LEMMA HeadTypes ==
    ASSUME TypeOK
    PROVE  /\ executor # << >> =>
                /\ Head(executor) \in Task /\ Tail(executor) \in Seq(Task)
                /\ Head(executor).task = "createCall" => Head(executor).call \in Calls
                /\ Head(executor).task = "ping" =>
                      Head(executor).ping \in Pings /\ Head(executor).number \in CallIds
                /\ Head(executor).task = "emit" => Head(executor).event \in CallEvent
           /\ toJs # << >> =>
                /\ Head(toJs) \in JsMessage /\ Tail(toJs) \in Seq(JsMessage)
                /\ Head(toJs).kind = "event" => Head(toJs).event \in CallEvent
                /\ Head(toJs).kind = "sent" => Head(toJs).ping \in Pings
                /\ Head(toJs).kind = "created" =>
                      Head(toJs).call \in Calls /\ Head(toJs).id \in CallIds
                /\ Head(toJs).kind = "rejected" => Head(toJs).call \in Calls
<1>1. executor # << >> => Head(executor) \in Task /\ Tail(executor) \in Seq(Task)
    BY DEF TypeOK
<1>2. toJs # << >> => Head(toJs) \in JsMessage /\ Tail(toJs) \in Seq(JsMessage)
    BY DEF TypeOK
<1> QED  BY <1>1, <1>2 DEF Task, JsMessage

(* The native module that was installed stays. *)
LEMMA PlatformFixed == [Next]_vars => UNCHANGED platform
<1>1. ASSUME NEW c \in Calls, StartCall(c) \/ Pull(c) \/ Return(c) \/ Microtask(c)
                                \/ NativeCreateCall(c)
      PROVE  UNCHANGED platform
    BY <1>1 DEF StartCall, Pull, Return, Microtask, Register, ResumeUnary, ResumeStream,
                NativeCreateCall, nativeVars
<1>2. CASE JsTask
    BY <1>2 DEF JsTask, TakeCreated, TakeRejected, TakeEvent, TakePong, TakeSent, Take, nativeVars
<1>3. CASE Executor \/ Network
    BY <1>3 DEF Executor, RunCreateCall, RunPing, RunEmit, RunTask,
                Network, OnNext, OnCompleted, OnError, Submit
<1>4. CASE Shutdown \/ (\E p \in Pings : Ping(p)) \/ UNCHANGED vars
    BY <1>4 DEF Shutdown, Ping, vars, nativeVars
<1> QED  BY <1>1, <1>2, <1>3, <1>4 DEF Next, Application, System

(* The id of the next call, and that of the one after it. *)
LEMMA NewIdFresh ==
    ASSUME TypeOK
    PROVE  /\ NewId \in CallIds
           /\ nextId' = nextId + 1 /\ UNCHANGED platform => NewId' = NewId + 1
    BY DEF TypeOK, NewId, CallIds

(* The type invariant, with what it needs to be inductive: a call that is  *)
(* about to be registered has an id, so callStates is keyed by ids.        *)
TypeInv ==
    /\ TypeOK
    /\ \A c \in Calls : pc[c] = "created" => callId[c] \in CallIds

(* waitForCallEvent keeps the types of what it assigns, and resolves or    *)
(* parks the call that waits.                                              *)
LEMMA WaitTypes ==
    ASSUME TypeOK, NEW c \in Calls, NEW STATE states, IsMap(states, CallState),
           WaitForCallEvent(c, states)
    PROVE  /\ IsMap(callStates', CallState)
           /\ pc' = [pc EXCEPT ![c] = pc'[c]] /\ pc'[c] \in {"waiting", "resumed"}
           /\ handed' \in [Calls -> CallEvent \cup {Null}]
<1> DEFINE id == callId[c]
<1>1. CASE id \notin DOMAIN states
    BY <1>1 DEF WaitForCallEvent, Resolve, TypeOK
<1>2. CASE id \in DOMAIN states /\ states[id].queue # << >>
    <2> DEFINE next == Head(states[id].queue)
    <2>1. states[id] \in CallState /\ next \in CallEvent
        BY <1>2 DEF IsMap, CallState
    <2> DEFINE rest == [states[id] EXCEPT !.queue = Tail(states[id].queue)]
    <2>c. Tail(states[id].queue) \in Seq(CallEvent)
        BY <1>2, <2>1, CallStateUpdates
    <2>a. rest \in CallState
        BY <2>c, <2>1, CallStateUpdates
    <2>b. [states EXCEPT ![id].queue = Tail(@)] = [states EXCEPT ![id] = rest]
        OBVIOUS
    <2>2. IsMap([states EXCEPT ![id].queue = Tail(@)], CallState)
        BY <1>2, <2>a, <2>b, UpdateIsMap
    <2>3. callStates' = CheckComplete([states EXCEPT ![id].queue = Tail(@)], next)
          /\ Resolve(c, next)
        BY <1>2 DEF WaitForCallEvent
    <2>4. IsMap(callStates', CallState)
        BY <2>1, <2>2, <2>3, CheckCompleteIsMap
    <2> QED  BY <2>1, <2>3, <2>4 DEF Resolve, TypeOK
<1>3. CASE id \in DOMAIN states /\ states[id].queue = << >>
    <2>1. states[id] \in CallState
        BY <1>3 DEF IsMap
    <2>2. callStates' = [states EXCEPT ![id].waiter = Append(@, c)]
          /\ pc' = [pc EXCEPT ![c] = "waiting"]
          /\ handed' = [handed EXCEPT ![c] = Null]
        BY <1>3 DEF WaitForCallEvent
    <2> DEFINE parked == [states[id] EXCEPT !.waiter = Append(states[id].waiter, c)]
    <2>c. Append(states[id].waiter, c) \in Seq(Calls)
        BY <2>1, CallStateUpdates
    <2>a. parked \in CallState
        BY <2>1, <2>c, CallStateUpdates
    <2>b. callStates' = [states EXCEPT ![id] = parked]
        BY <2>2
    <2>3. IsMap(callStates', CallState)
        BY <1>3, <2>a, <2>b, UpdateIsMap
    <2> QED  BY <2>2, <2>3 DEF TypeOK
<1> QED  BY <1>1, <1>2, <1>3 DEF WaitForCallEvent

LEMMA OnCallEventTypes ==
    ASSUME TypeOK, NEW STATE event, event \in CallEvent, OnCallEvent(event)
    PROVE  /\ IsMap(callStates', CallState)
           /\ pc' \in [Calls -> {"idle", "yielded"} \cup InFlight \cup Settled]
           /\ \A c \in Calls : pc'[c] = "created" => pc[c] = "created"
           /\ handed' \in [Calls -> CallEvent \cup {Null}]
<1> DEFINE id == event.callId
<1>0. IsMap(callStates, CallState)
    BY DEF TypeOK, IsMap
<1>1. CASE id \notin DOMAIN callStates
    BY <1>0, <1>1 DEF OnCallEvent, TypeOK
<1>2. CASE id \in DOMAIN callStates /\ callStates[id].waiter # << >>
    <2> DEFINE emptied == [callStates[id] EXCEPT !.waiter = << >>]
               woken == Waiters(callStates[id])
    <2>1. callStates[id] \in CallState /\ << >> \in Seq(Calls)
        BY <1>0, <1>2 DEF IsMap
    <2>2. emptied \in CallState
        BY <2>1, CallStateUpdates
    <2>3. callStates' = CheckComplete([callStates EXCEPT ![id].waiter = << >>], event)
          /\ pc' = [c \in Calls |-> IF c \in woken THEN "resumed" ELSE pc[c]]
          /\ handed' = [c \in Calls |-> IF c \in woken THEN event ELSE handed[c]]
        BY <1>2 DEF OnCallEvent
    <2>4. [callStates EXCEPT ![id].waiter = << >>] = [callStates EXCEPT ![id] = emptied]
        OBVIOUS
    <2>5. IsMap(callStates', CallState)
        BY <1>0, <1>2, <2>2, <2>3, <2>4, UpdateIsMap, CheckCompleteIsMap
    <2>6. pc' \in [Calls -> {"idle", "yielded"} \cup InFlight \cup Settled]
          /\ \A c \in Calls : pc'[c] = "created" => pc[c] = "created"
        BY <2>3 DEF TypeOK, InFlight
    <2>7. handed' \in [Calls -> CallEvent \cup {Null}]
        BY <2>3 DEF TypeOK
    <2> QED  BY <2>5, <2>6, <2>7
<1>3. CASE id \in DOMAIN callStates /\ callStates[id].waiter = << >>
    <2> DEFINE queued == [callStates[id] EXCEPT !.queue = Append(callStates[id].queue, event)]
    <2>1. callStates[id] \in CallState
        BY <1>0, <1>3 DEF IsMap
    <2>2. Append(callStates[id].queue, event) \in Seq(CallEvent)
        BY <2>1, CallStateUpdates
    <2>3. queued \in CallState
        BY <2>1, <2>2, CallStateUpdates
    <2>4. callStates' = [callStates EXCEPT ![id] = queued] /\ UNCHANGED <<pc, handed>>
        BY <1>3 DEF OnCallEvent
    <2> QED  BY <1>0, <1>3, <2>3, <2>4, UpdateIsMap DEF TypeOK
<1> QED  BY <1>1, <1>2, <1>3

(* Every step keeps the types. *)
LEMMA TypeStep == TypeInv /\ [Next]_vars => TypeInv'
<1> SUFFICES ASSUME TypeInv, [Next]_vars PROVE TypeInv'
    OBVIOUS
<1> USE DEF TypeInv
<1>m. IsMap(callStates, CallState) /\ IsMap(rpcs, RpcState) /\ IsMap(pingResolves, Pings)
    BY DEF TypeOK, IsMap
<1>1. ASSUME NEW c \in Calls, StartCall(c) PROVE TypeInv'
    BY <1>1 DEF StartCall, Subscribed, nativeVars, TypeOK, InFlight
<1>2. ASSUME NEW c \in Calls, Pull(c) PROVE TypeInv'
    BY <1>2, <1>m, WaitTypes DEF Pull, nativeVars, TypeOK, IsMap, InFlight
<1>3. ASSUME NEW c \in Calls, Return(c) PROVE TypeInv'
    BY <1>3, <1>m, RemoveIsMap DEF Return, AbandonCall, nativeVars, TypeOK, IsMap, Settled
<1>4. ASSUME NEW p \in Pings, Ping(p) PROVE TypeInv'
    <2>1. IsMap(pingResolves', Pings)
        BY <1>4, <1>m, PutIsMap DEF Ping, TypeOK
    <2>2. executor' \in Seq(Task)
        BY <1>4, MessageTypes DEF Ping, TypeOK
    <2>3. pingId' \in CallIds /\ pinged' \in [Pings -> {"idle", "sent", "acked", "ponged", "done"}]
        BY <1>4 DEF Ping, TypeOK, CallIds
    <2> QED  BY <1>4, <2>1, <2>2, <2>3 DEF Ping, Subscribed, TypeOK, IsMap
<1>5. ASSUME Shutdown PROVE TypeInv'
    BY <1>5 DEF Shutdown, nativeVars, TypeOK
<1>6. ASSUME NEW c \in Calls, Register(c) PROVE TypeInv'
    <2>1. callId[c] \in CallIds /\ NoEvents \in CallState
        BY <1>6 DEF Register, NoEvents, CallState
    <2>2. IsMap(CreateCall(callStates, callId[c]), CallState)
        BY <2>1, <1>m, PutIsMap DEF CreateCall
    <2>3. WaitForCallEvent(c, CreateCall(callStates, callId[c]))
        BY <1>6 DEF Register
    <2>4. /\ IsMap(callStates', CallState)
          /\ pc' = [pc EXCEPT ![c] = pc'[c]] /\ pc'[c] \in {"waiting", "resumed"}
          /\ handed' \in [Calls -> CallEvent \cup {Null}]
        BY <2>2, <2>3, WaitTypes
    <2> QED  BY <1>6, <2>4 DEF Register, nativeVars, TypeOK, IsMap, InFlight
<1>7. ASSUME NEW c \in Calls, ResumeUnary(c) PROVE TypeInv'
    <2>1. handed[c].type = "receive" => handed[c].message \in Nat
        BY DEF TypeOK, CallEvent, Null
    <2>2. CASE handed[c].type = "end" /\ WaitForCallEvent(c, callStates) /\ UNCHANGED delivered
        BY <1>7, <2>2, <1>m, WaitTypes DEF ResumeUnary, nativeVars, TypeOK, IsMap, InFlight
    <2>3. CASE handed[c].type \in {"fail", "null"} /\ Settle(c, "threw") /\ UNCHANGED delivered
        BY <1>7, <2>3, <1>m, RemoveIsMap
           DEF ResumeUnary, Settle, AbandonCall, nativeVars, TypeOK, IsMap, Settled
    <2>4. CASE /\ handed[c].type = "receive"
               /\ delivered' = [delivered EXCEPT ![c] = Append(@, handed[c].message)]
               /\ Settle(c, "returned")
        <3>1. delivered' \in [Calls -> Seq(Nat)]
            BY <2>1, <2>4 DEF TypeOK
        <3>2. IsMap(callStates', CallState)
            BY <2>4, <1>m, RemoveIsMap DEF Settle, AbandonCall
        <3> QED  BY <1>7, <2>4, <3>1, <3>2
                 DEF ResumeUnary, Settle, nativeVars, TypeOK, IsMap, Settled
    <2> QED  BY <1>7, <2>2, <2>3, <2>4 DEF ResumeUnary
<1>8. ASSUME NEW c \in Calls, ResumeStream(c) PROVE TypeInv'
    <2>1. handed[c].type = "receive" => handed[c].message \in Nat
        BY DEF TypeOK, CallEvent, Null
    <2>2. CASE handed[c].type = "fail" /\ Settle(c, "threw") /\ UNCHANGED delivered
        BY <1>8, <2>2, <1>m, RemoveIsMap
           DEF ResumeStream, Settle, AbandonCall, nativeVars, TypeOK, IsMap, Settled
    <2>3. CASE handed[c].type \in {"end", "null"} /\ Settle(c, "returned") /\ UNCHANGED delivered
        BY <1>8, <2>3, <1>m, RemoveIsMap
           DEF ResumeStream, Settle, AbandonCall, nativeVars, TypeOK, IsMap, Settled
    <2>4. CASE /\ handed[c].type = "receive"
               /\ delivered' = [delivered EXCEPT ![c] = Append(@, handed[c].message)]
               /\ pc' = [pc EXCEPT ![c] = "yielded"]
               /\ handed' = [handed EXCEPT ![c] = Null]
               /\ UNCHANGED callStates
        BY <1>8, <2>1, <2>4, <1>m DEF ResumeStream, nativeVars, TypeOK
    <2> QED  BY <1>8, <2>2, <2>3, <2>4 DEF ResumeStream
<1>9. ASSUME NEW c \in Calls, NativeCreateCall(c) PROVE TypeInv'
    <2>a. CreateTask(c) \in Task /\ RejectedMessage(c) \in JsMessage
          /\ executor \in Seq(Task) /\ toJs \in Seq(JsMessage)
        BY MessageTypes DEF TypeOK
    <2>b. \/ executor' = Append(executor, CreateTask(c)) /\ toJs' = toJs
          \/ toJs' = Append(toJs, RejectedMessage(c)) /\ executor' = executor
        BY <1>9 DEF NativeCreateCall
    <2>1. executor' \in Seq(Task)
        BY <2>a, <2>b
    <2>2. toJs' \in Seq(JsMessage)
        BY <2>a, <2>b
    <2> QED  BY <1>9, <2>1, <2>2 DEF NativeCreateCall, jsVars, TypeOK
<1>10. ASSUME JsTask PROVE TypeInv'
    <2>1. CASE TakeCreated
        BY <2>1, HeadTypes DEF TakeCreated, Take, nativeVars, TypeOK, InFlight, CallIds
    <2>2. CASE TakeRejected
        BY <2>2, HeadTypes DEF TakeRejected, Take, nativeVars, TypeOK, Settled
    <2>3. CASE TakeEvent
        <3>1. Head(toJs).event \in CallEvent /\ toJs' \in Seq(JsMessage)
            BY <2>3, HeadTypes DEF TakeEvent, Take
        <3>2. CASE listener = "listening"
            <4>1. OnCallEvent(Head(toJs).event)
                BY <2>3, <3>2 DEF TakeEvent
            <4>2. /\ IsMap(callStates', CallState)
                  /\ pc' \in [Calls -> {"idle", "yielded"} \cup InFlight \cup Settled]
                  /\ \A c \in Calls : pc'[c] = "created" => pc[c] = "created"
                  /\ handed' \in [Calls -> CallEvent \cup {Null}]
                BY <3>1, <4>1, OnCallEventTypes
            <4> QED  BY <2>3, <3>1, <4>2 DEF TakeEvent, Take, nativeVars, TypeOK, IsMap
        <3>3. CASE listener # "listening"
            BY <2>3, <3>1, <3>3 DEF TakeEvent, Take, nativeVars, TypeOK
        <3> QED  BY <3>2, <3>3
    <2>4. CASE TakePong
        <3>1. pinged' \in [Pings -> {"idle", "sent", "acked", "ponged", "done"}]
            BY <2>4, <1>m DEF TakePong, PingStep, TypeOK, IsMap
        <3>2. toJs' \in Seq(JsMessage)
            BY <2>4, HeadTypes DEF TakePong, Take
        <3> QED  BY <2>4, <3>1, <3>2 DEF TakePong, Take, nativeVars, TypeOK
    <2>5. CASE TakeSent
        <3>1. Head(toJs).ping \in Pings /\ toJs' \in Seq(JsMessage)
            BY <2>5, HeadTypes DEF TakeSent, Take
        <3>2. pinged' \in [Pings -> {"idle", "sent", "acked", "ponged", "done"}]
            BY <2>5, <3>1 DEF TakeSent, PingStep, TypeOK
        <3> QED  BY <2>5, <3>1, <3>2 DEF TakeSent, Take, nativeVars, TypeOK
    <2> QED  BY <1>10, <2>1, <2>2, <2>3, <2>4, <2>5 DEF JsTask
<1>11. ASSUME Executor PROVE TypeInv'
    <2>1. CASE RunCreateCall
        <3> DEFINE c == Head(executor).call
        <3>1. c \in Calls /\ executor' \in Seq(Task) /\ nextId' \in CallIds /\ NewId \in CallIds
            <4>1. executor # << >> /\ Head(executor).task = "createCall"
                  /\ executor' = Tail(executor) /\ nextId' = nextId + 1
                BY <2>1 DEF RunCreateCall, RunTask
            <4>2. nextId' \in CallIds
                BY <4>1 DEF TypeOK, CallIds
            <4> QED  BY <4>1, <4>2, HeadTypes, NewIdFresh
        <3>2. \A status \in {"none", "running", "aborted"} : Rpc(c, status) \in RpcState
            BY <3>1 DEF Rpc, RpcState
        <3> DEFINE Made(status) == Put(rpcs, NewId, Rpc(c, status))
        <3>3. \A status \in {"none", "running", "aborted"} : IsMap(Made(status), RpcState)
            BY <3>1, <3>2, <1>m, PutIsMap
        <3>4. \E status \in {"none", "running", "aborted"} : rpcs' = Made(status)
            BY <2>1 DEF RunCreateCall, Launch, LaunchNothing, LaunchThrows
        <3>5. toJs' = Append(toJs, CreatedMessage(c, NewId))
              \/ toJs' = Append(toJs, RejectedMessage(c))
            BY <2>1 DEF RunCreateCall, Launch, LaunchNothing, LaunchThrows
        <3>a. CreatedMessage(c, NewId) \in JsMessage /\ RejectedMessage(c) \in JsMessage
              /\ toJs \in Seq(JsMessage)
            BY <3>1, MessageTypes DEF TypeOK
        <3>6. toJs' \in Seq(JsMessage)
            BY <3>a, <3>5
        <3>7. activeCalls' \in SUBSET CallIds
            BY <2>1, <3>1 DEF RunCreateCall, Launch, LaunchNothing, LaunchThrows, TypeOK
        <3>8. IsMap(rpcs', RpcState)
            BY <3>3, <3>4
        <3> HIDE DEF c
        <3> QED  BY <2>1, <3>1, <3>6, <3>7, <3>8 DEF RunCreateCall, RunTask, jsVars, TypeOK, IsMap
    <2>2. CASE RunPing
        <3>1. executor' \in Seq(Task) /\ toJs' \in Seq(JsMessage)
            BY <2>2, HeadTypes, MessageTypes DEF RunPing, RunTask, TypeOK
        <3> QED  BY <2>2, <3>1 DEF RunPing, RunTask, jsVars, TypeOK
    <2>3. CASE RunEmit
        <3>1. executor' \in Seq(Task) /\ toJs' \in Seq(JsMessage)
            BY <2>3, HeadTypes, MessageTypes DEF RunEmit, RunTask, TypeOK
        <3> QED  BY <2>3, <3>1 DEF RunEmit, RunTask, jsVars, TypeOK
    <2> QED  BY <1>11, <2>1, <2>2, <2>3 DEF Executor
<1>12. ASSUME NEW id \in DOMAIN rpcs, OnNext(id) \/ OnCompleted(id) \/ OnError(id)
       PROVE  TypeInv'
    <2>1. rpcs[id] \in RpcState /\ id \in CallIds
        BY <1>m DEF IsMap
    <2>2. IsMap(rpcs', RpcState)
        BY <1>12, <2>1, <1>m DEF OnNext, OnCompleted, OnError, IsMap, RpcState
    <2>3. executor' \in Seq(Task)
        <3>1. rpcs[id].sent + 1 \in Nat
            BY <2>1 DEF RpcState
        <3>2. \E e \in CallEvent : executor' = Append(executor, EmitTask(e))
            BY <1>12, <2>1, <3>1, MessageTypes DEF OnNext, OnCompleted, OnError, Submit
        <3> QED  BY <3>2, MessageTypes DEF TypeOK
    <2> QED  BY <1>12, <2>2, <2>3
             DEF OnNext, OnCompleted, OnError, Submit, jsVars, TypeOK, IsMap
<1>13. CASE UNCHANGED vars
    BY <1>13 DEF vars, jsVars, nativeVars, TypeOK
<1> QED
    BY <1>1, <1>2, <1>3, <1>4, <1>5, <1>6, <1>7, <1>8, <1>9, <1>10, <1>11, <1>12, <1>13
       DEF Next, Application, System, Network, Microtask

LEMMA TypeInit == Init => TypeInv
    BY PlatformsAssumption DEF Init, TypeInv, TypeOK, CallIds, Settled, InFlight

(* Type correctness of the bridge: every reachable state of every instance *)
(* has its variables in their types (TypeOK).                              *)
THEOREM TypeCorrect == Spec => []TypeOK
<1>1. Spec => []TypeInv
    BY TypeInit, TypeStep, PTL DEF Spec
<1>2. TypeInv => TypeOK
    BY DEF TypeInv
<1> QED  BY <1>1, <1>2, PTL

-----------------------------------------------------------------------------
(* A createCall is answered at most once, while its caller awaits it: its  *)
(* request is on its way to the native module, or a task of the executor,  *)
(* or an answer on its way back, in one place at a time.                   *)
IsCreateTask(t) == t.task = "createCall"
IsAnswer(m) == m.kind \in {"created", "rejected"}

TokenInv ==
    /\ \A c \in toNative : pc[c] = "creating"
    /\ \A i \in 1 .. Len(executor) : IsCreateTask(executor[i]) =>
          pc[executor[i].call] = "creating" /\ executor[i].call \notin toNative
    /\ \A i, j \in 1 .. Len(executor) :
          /\ IsCreateTask(executor[i]) /\ IsCreateTask(executor[j])
          /\ executor[i].call = executor[j].call
          => i = j
    /\ \A i \in 1 .. Len(toJs) : IsAnswer(toJs[i]) =>
          /\ pc[toJs[i].call] = "creating" /\ toJs[i].call \notin toNative
          /\ \A j \in 1 .. Len(executor) :
                IsCreateTask(executor[j]) => executor[j].call # toJs[i].call
    /\ \A i, j \in 1 .. Len(toJs) :
          /\ IsAnswer(toJs[i]) /\ IsAnswer(toJs[j])
          /\ toJs[i].call = toJs[j].call
          => i = j

(* Ids are given out once; a call's id, and the id in an answer on its way *)
(* to a call, is the one rpcs knows that call by.                          *)
IdInv ==
    /\ \A id \in DOMAIN rpcs : id < NewId
    /\ \A c \in Calls : pc[c] \in {"created"} \cup Registered =>
          callId[c] \in DOMAIN rpcs /\ rpcs[callId[c]].call = c
    /\ \A i \in 1 .. Len(toJs) : toJs[i].kind = "created" =>
          toJs[i].id \in DOMAIN rpcs /\ rpcs[toJs[i].id].call = toJs[i].call

(* The events queued for a call are events of that call. *)
QueuesOwn(states) ==
    \A id \in DOMAIN states : \A i \in 1 .. Len(states[id].queue) :
        states[id].queue[i].callId = id

EntryInv == WaiterDiscipline /\ CallStatesReclaimed /\ QueuesOwn(callStates)

BridgeInv == TypeInv /\ TokenInv /\ IdInv /\ EntryInv

LEMMA AppendAt ==
    ASSUME NEW S, NEW s \in Seq(S), NEW e \in S
    PROVE  /\ Append(s, e) \in Seq(S)
           /\ Len(Append(s, e)) = Len(s) + 1 /\ Len(s) \in Nat
           /\ \A i \in 1 .. Len(s) : Append(s, e)[i] = s[i]
           /\ Append(s, e)[Len(s) + 1] = e
    OBVIOUS

LEMMA TailAt ==
    ASSUME NEW S, NEW s \in Seq(S), s # << >>
    PROVE  /\ Tail(s) \in Seq(S)
           /\ Len(Tail(s)) = Len(s) - 1 /\ Len(s) \in Nat \ {0}
           /\ \A i \in 1 .. Len(Tail(s)) : i + 1 \in 1 .. Len(s) /\ Tail(s)[i] = s[i + 1]
           /\ Head(s) = s[1] /\ 1 \in 1 .. Len(s)
    OBVIOUS

(* What a createCall task and an answer name is a call. *)
LEMMA TokenCalls ==
    ASSUME TypeOK
    PROVE  /\ toNative \subseteq Calls
           /\ \A i \in 1 .. Len(executor) :
                 executor[i] \in Task /\ (IsCreateTask(executor[i]) => executor[i].call \in Calls)
           /\ \A i \in 1 .. Len(toJs) :
                 toJs[i] \in JsMessage /\ (IsAnswer(toJs[i]) => toJs[i].call \in Calls)
<1>1. \A i \in 1 .. Len(executor) : executor[i] \in Task
    BY DEF TypeOK
<1>2. \A i \in 1 .. Len(toJs) : toJs[i] \in JsMessage
    BY DEF TypeOK
<1>3. \A t \in Task : IsCreateTask(t) => t.call \in Calls
    BY DEF Task, IsCreateTask
<1>4. \A m \in JsMessage : IsAnswer(m) => m.call \in Calls
    BY DEF JsMessage, IsAnswer
<1> QED  BY <1>1, <1>2, <1>3, <1>4 DEF TypeOK

(* Steps that move no token: tasks that are no createCall and messages     *)
(* that are no answer come, the oldest ones go, and no call leaves         *)
(* "creating".                                                             *)
LEMMA TokenQueues ==
    ASSUME TypeOK, TokenInv, UNCHANGED toNative,
           \A c \in Calls : pc[c] = "creating" => pc'[c] = "creating",
           \/ executor' = executor
           \/ \E t \in Task : ~IsCreateTask(t) /\ executor' = Append(executor, t)
           \/ executor # << >> /\ executor' = Tail(executor),
           \/ toJs' = toJs
           \/ \E m \in JsMessage : ~IsAnswer(m) /\ toJs' = Append(toJs, m)
           \/ \E m, n \in JsMessage : /\ ~IsAnswer(m) /\ ~IsAnswer(n)
                                      /\ toJs' = Append(Append(toJs, m), n)
           \/ toJs # << >> /\ toJs' = Tail(toJs)
    PROVE  TokenInv'
<1> DEFINE TaskFrom(k) == \A i \in 1 .. Len(executor') : IsCreateTask(executor'[i]) =>
                              i + k \in 1 .. Len(executor) /\ executor'[i] = executor[i + k]
           MessageFrom(k) == \A i \in 1 .. Len(toJs') : IsAnswer(toJs'[i]) =>
                              i + k \in 1 .. Len(toJs) /\ toJs'[i] = toJs[i + k]
<1>0. executor \in Seq(Task) /\ toJs \in Seq(JsMessage)
    BY DEF TypeOK
<1>1. \E k \in {0, 1} : TaskFrom(k)
    <2>1. CASE executor' = executor
        BY <1>0, <2>1
    <2>2. CASE \E t \in Task : ~IsCreateTask(t) /\ executor' = Append(executor, t)
        <3> PICK t \in Task : ~IsCreateTask(t) /\ executor' = Append(executor, t)
            BY <2>2
        <3>1. TaskFrom(0)
            BY <1>0, AppendAt
        <3> QED  BY <3>1
    <2>3. CASE executor # << >> /\ executor' = Tail(executor)
        <3>1. TaskFrom(1)
            BY <1>0, <2>3, TailAt
        <3> QED  BY <3>1
    <2> QED  BY <2>1, <2>2, <2>3
<1>2. \E k \in {0, 1} : MessageFrom(k)
    <2>1. CASE toJs' = toJs
        BY <1>0, <2>1
    <2>2. CASE \E m \in JsMessage : ~IsAnswer(m) /\ toJs' = Append(toJs, m)
        <3> PICK m \in JsMessage : ~IsAnswer(m) /\ toJs' = Append(toJs, m)
            BY <2>2
        <3>1. MessageFrom(0)
            BY <1>0, AppendAt
        <3> QED  BY <3>1
    <2>3. CASE \E m, n \in JsMessage : /\ ~IsAnswer(m) /\ ~IsAnswer(n)
                                       /\ toJs' = Append(Append(toJs, m), n)
        <3> PICK m \in JsMessage, n \in JsMessage :
                /\ ~IsAnswer(m) /\ ~IsAnswer(n) /\ toJs' = Append(Append(toJs, m), n)
            BY <2>3
        <3> DEFINE mid == Append(toJs, m)
        <3>1. mid \in Seq(JsMessage) /\ Len(mid) = Len(toJs) + 1 /\ Len(toJs) \in Nat
              /\ (\A i \in 1 .. Len(toJs) : mid[i] = toJs[i]) /\ mid[Len(toJs) + 1] = m
            BY <1>0, AppendAt
        <3>2. Len(toJs') = Len(mid) + 1 /\ (\A i \in 1 .. Len(mid) : toJs'[i] = mid[i])
              /\ toJs'[Len(mid) + 1] = n
            BY <3>1, AppendAt
        <3>3. MessageFrom(0)
            BY <3>1, <3>2
        <3> QED  BY <3>3
    <2>4. CASE toJs # << >> /\ toJs' = Tail(toJs)
        <3>1. MessageFrom(1)
            BY <1>0, <2>4, TailAt
        <3> QED  BY <3>1
    <2> QED  BY <2>1, <2>2, <2>3, <2>4
<1>3. PICK k \in {0, 1} : TaskFrom(k)
    BY <1>1
<1>4. PICK l \in {0, 1} : MessageFrom(l)
    BY <1>2
<1>5. Len(executor') \in Nat /\ Len(toJs') \in Nat
    BY <1>0, AppendAt, TailAt
<1>6. Len(executor) \in Nat /\ Len(toJs) \in Nat
    BY <1>0
<1>a. \A c \in toNative' : pc'[c] = "creating"
    BY TokenCalls DEF TokenInv
<1>b. \A i \in 1 .. Len(executor') : IsCreateTask(executor'[i]) =>
          pc'[executor'[i].call] = "creating" /\ executor'[i].call \notin toNative'
    BY <1>3, TokenCalls DEF TokenInv
<1>c. ASSUME NEW i \in 1 .. Len(executor'), NEW j \in 1 .. Len(executor'),
             IsCreateTask(executor'[i]), IsCreateTask(executor'[j]),
             executor'[i].call = executor'[j].call
      PROVE  i = j
    <2>1. i + k \in 1 .. Len(executor) /\ j + k \in 1 .. Len(executor)
          /\ executor'[i] = executor[i + k] /\ executor'[j] = executor[j + k]
        BY <1>3, <1>c
    <2>2. i + k = j + k
        BY <1>c, <2>1 DEF TokenInv
    <2> QED  BY <1>5, <2>2
<1>d. ASSUME NEW i \in 1 .. Len(toJs'), IsAnswer(toJs'[i])
      PROVE  /\ pc'[toJs'[i].call] = "creating" /\ toJs'[i].call \notin toNative'
             /\ \A j \in 1 .. Len(executor') :
                   IsCreateTask(executor'[j]) => executor'[j].call # toJs'[i].call
    <2>1. i + l \in 1 .. Len(toJs) /\ toJs'[i] = toJs[i + l]
        BY <1>4, <1>d
    <2>2. pc[toJs[i + l].call] = "creating" /\ toJs[i + l].call \notin toNative
          /\ \A j \in 1 .. Len(executor) :
                IsCreateTask(executor[j]) => executor[j].call # toJs[i + l].call
        BY <1>d, <2>1 DEF TokenInv
    <2>4. pc'[toJs'[i].call] = "creating"
        BY <1>d, <2>1, <2>2, TokenCalls
    <2>3. ASSUME NEW j \in 1 .. Len(executor'), IsCreateTask(executor'[j])
          PROVE  executor'[j].call # toJs'[i].call
        <3>1. j + k \in 1 .. Len(executor) /\ executor'[j] = executor[j + k]
            BY <1>3, <2>3
        <3> QED  BY <2>1, <2>2, <2>3, <3>1
    <2> QED  BY <2>1, <2>2, <2>3, <2>4
<1>e. ASSUME NEW i \in 1 .. Len(toJs'), NEW j \in 1 .. Len(toJs'),
             IsAnswer(toJs'[i]), IsAnswer(toJs'[j]), toJs'[i].call = toJs'[j].call
      PROVE  i = j
    <2>1. i + l \in 1 .. Len(toJs) /\ j + l \in 1 .. Len(toJs)
          /\ toJs'[i] = toJs[i + l] /\ toJs'[j] = toJs[j + l]
        BY <1>4, <1>e
    <2>2. i + l = j + l
        BY <1>e, <2>1 DEF TokenInv
    <2> QED  BY <1>5, <2>2
<1> QED  BY <1>a, <1>b, <1>c, <1>d, <1>e DEF TokenInv

(* The call whose answer JavaScript takes is the one that awaits it, and   *)
(* no other request or answer of that call is left.                        *)
LEMMA TokenTaken ==
    ASSUME TypeOK, TokenInv, UNCHANGED <<toNative, executor>>,
           toJs # << >>, IsAnswer(Head(toJs)), toJs' = Tail(toJs),
           \A c \in Calls \ {Head(toJs).call} : pc'[c] = pc[c]
    PROVE  TokenInv'
<1> DEFINE taken == Head(toJs).call
<1>1. toJs \in Seq(JsMessage) /\ Len(executor) \in Nat
    BY DEF TypeOK
<1>2. /\ Len(toJs) \in Nat \ {0} /\ Len(toJs') = Len(toJs) - 1 /\ Head(toJs) = toJs[1]
      /\ \A i \in 1 .. Len(toJs') : i + 1 \in 1 .. Len(toJs) /\ toJs'[i] = toJs[i + 1]
      /\ 1 \in 1 .. Len(toJs)
    BY <1>1, TailAt
<1>3. /\ taken \notin toNative
      /\ \A j \in 1 .. Len(executor) : IsCreateTask(executor[j]) => executor[j].call # taken
    BY <1>2 DEF TokenInv
<1>4. \A i \in 1 .. Len(toJs') : IsAnswer(toJs'[i]) => toJs'[i].call # taken
    <2> SUFFICES ASSUME NEW i \in 1 .. Len(toJs'), IsAnswer(toJs'[i]), toJs'[i].call = taken
                 PROVE  FALSE
        OBVIOUS
    <2>1. i + 1 = 1
        BY <1>2 DEF TokenInv
    <2> QED  BY <1>2, <2>1
<1>a. \A c \in toNative' : pc'[c] = "creating"
    BY <1>3, TokenCalls DEF TokenInv
<1>b. \A i \in 1 .. Len(executor') : IsCreateTask(executor'[i]) =>
          pc'[executor'[i].call] = "creating" /\ executor'[i].call \notin toNative'
    BY <1>3, TokenCalls DEF TokenInv
<1>c. \A i \in 1 .. Len(toJs') : IsAnswer(toJs'[i]) =>
          /\ pc'[toJs'[i].call] = "creating" /\ toJs'[i].call \notin toNative'
          /\ \A j \in 1 .. Len(executor') :
                IsCreateTask(executor'[j]) => executor'[j].call # toJs'[i].call
    <2> SUFFICES ASSUME NEW i \in 1 .. Len(toJs'), IsAnswer(toJs'[i])
                 PROVE  /\ pc'[toJs'[i].call] = "creating" /\ toJs'[i].call \notin toNative'
                        /\ \A j \in 1 .. Len(executor') :
                              IsCreateTask(executor'[j]) => executor'[j].call # toJs'[i].call
        OBVIOUS
    <2>1. i + 1 \in 1 .. Len(toJs) /\ toJs'[i] = toJs[i + 1]
        BY <1>2
    <2>2. pc[toJs[i + 1].call] = "creating" /\ toJs[i + 1].call \notin toNative
          /\ \A j \in 1 .. Len(executor) :
                IsCreateTask(executor[j]) => executor[j].call # toJs[i + 1].call
        BY <2>1 DEF TokenInv
    <2>3. toJs[i + 1].call \in Calls \ {taken}
        BY <1>4, <2>1, TokenCalls
    <2> QED  BY <2>1, <2>2, <2>3
<1>d. ASSUME NEW i \in 1 .. Len(toJs'), NEW j \in 1 .. Len(toJs'),
             IsAnswer(toJs'[i]), IsAnswer(toJs'[j]), toJs'[i].call = toJs'[j].call
      PROVE  i = j
    <2>1. i + 1 = j + 1
        BY <1>2, <1>d DEF TokenInv
    <2> QED  BY <1>2, <2>1
<1> QED  BY <1>a, <1>b, <1>c, <1>d DEF TokenInv

(* The request of a call becomes a task or, turned down, an answer. *)
LEMMA TokenNative ==
    ASSUME TypeOK, TokenInv, NEW c \in Calls, NativeCreateCall(c)
    PROVE  TokenInv'
<1>1. executor \in Seq(Task) /\ toJs \in Seq(JsMessage)
      /\ CreateTask(c) \in Task /\ RejectedMessage(c) \in JsMessage
    BY MessageTypes DEF TypeOK
<1>2. c \in toNative /\ toNative' = toNative \ {c} /\ pc' = pc /\ pc[c] = "creating"
    BY DEF NativeCreateCall, jsVars, TokenInv
<1>3. /\ \A i \in 1 .. Len(executor) : IsCreateTask(executor[i]) => executor[i].call # c
      /\ \A i \in 1 .. Len(toJs) : IsAnswer(toJs[i]) => toJs[i].call # c
    BY <1>2 DEF TokenInv
<1>4. CASE executor' = Append(executor, CreateTask(c)) /\ toJs' = toJs
    <2>1. /\ Len(executor') = Len(executor) + 1 /\ Len(executor) \in Nat
          /\ \A i \in 1 .. Len(executor) : executor'[i] = executor[i]
          /\ executor'[Len(executor) + 1] = CreateTask(c) /\ CreateTask(c).call = c
        BY <1>1, <1>4, AppendAt DEF CreateTask
    <2>2. \A i \in 1 .. Len(executor') : i \in 1 .. Len(executor) \/ i = Len(executor) + 1
        BY <2>1
    <2>3. \A i \in 1 .. Len(executor') : IsCreateTask(executor'[i]) =>
              /\ pc'[executor'[i].call] = "creating" /\ executor'[i].call \notin toNative'
              /\ (executor'[i].call = c => i = Len(executor) + 1)
        BY <1>2, <1>3, <2>1, <2>2 DEF TokenInv
    <2>4. \A i, j \in 1 .. Len(executor') :
              /\ IsCreateTask(executor'[i]) /\ IsCreateTask(executor'[j])
              /\ executor'[i].call = executor'[j].call
              => i = j
        BY <2>1, <2>2, <2>3 DEF TokenInv
    <2>5. \A i \in 1 .. Len(toJs) : IsAnswer(toJs[i]) =>
              \A j \in 1 .. Len(executor') :
                  IsCreateTask(executor'[j]) => executor'[j].call # toJs[i].call
        BY <1>3, <2>1, <2>2 DEF TokenInv
    <2> QED  BY <1>2, <1>4, <2>3, <2>4, <2>5 DEF TokenInv
<1>5. CASE toJs' = Append(toJs, RejectedMessage(c)) /\ executor' = executor
    <2>1. /\ Len(toJs') = Len(toJs) + 1 /\ Len(toJs) \in Nat
          /\ \A i \in 1 .. Len(toJs) : toJs'[i] = toJs[i]
          /\ toJs'[Len(toJs) + 1] = RejectedMessage(c) /\ RejectedMessage(c).call = c
        BY <1>1, <1>5, AppendAt DEF RejectedMessage
    <2>2. \A i \in 1 .. Len(toJs') : i \in 1 .. Len(toJs) \/ i = Len(toJs) + 1
        BY <2>1
    <2> QED  BY <1>2, <1>3, <1>5, <2>1, <2>2 DEF TokenInv
<1> QED  BY <1>4, <1>5 DEF NativeCreateCall

(* The task of a call becomes its answer. *)
LEMMA TokenAnswered ==
    ASSUME TypeOK, TokenInv, RunCreateCall
    PROVE  TokenInv'
<1> DEFINE c == Head(executor).call
<1>1. executor \in Seq(Task) /\ executor # << >> /\ toJs \in Seq(JsMessage) /\ c \in Calls
      /\ NewId \in CallIds /\ IsCreateTask(Head(executor))
    <2>1. executor # << >> /\ Head(executor).task = "createCall"
        BY DEF RunCreateCall, RunTask
    <2>2. NewId \in CallIds
        BY NewIdFresh
    <2>3. executor \in Seq(Task) /\ toJs \in Seq(JsMessage)
        BY DEF TypeOK
    <2> QED  BY <2>1, <2>2, <2>3, HeadTypes DEF IsCreateTask
<1>2. UNCHANGED <<toNative, pc>> /\ executor' = Tail(executor)
    BY DEF RunCreateCall, RunTask, jsVars
<1>3. PICK m \in {CreatedMessage(c, NewId), RejectedMessage(c)} : toJs' = Append(toJs, m)
    BY DEF RunCreateCall, Launch, LaunchNothing, LaunchThrows
<1>4. m \in JsMessage /\ m.call = c
    BY <1>1, <1>3, MessageTypes DEF CreatedMessage, RejectedMessage
<1>5. /\ Len(executor) \in Nat \ {0} /\ Len(executor') = Len(executor) - 1
      /\ Head(executor) = executor[1] /\ 1 \in 1 .. Len(executor)
      /\ \A i \in 1 .. Len(executor') :
            i + 1 \in 1 .. Len(executor) /\ executor'[i] = executor[i + 1]
    BY <1>1, <1>2, TailAt
<1>6. /\ Len(toJs') = Len(toJs) + 1 /\ Len(toJs) \in Nat
      /\ \A i \in 1 .. Len(toJs) : toJs'[i] = toJs[i]
      /\ toJs'[Len(toJs) + 1] = m
    BY <1>1, <1>3, <1>4, AppendAt
<1>7. pc[c] = "creating" /\ c \notin toNative
    BY <1>1, <1>5 DEF TokenInv
<1>8. \A i \in 1 .. Len(toJs) : IsAnswer(toJs[i]) => toJs[i].call # c
    BY <1>1, <1>5 DEF TokenInv
<1>9. \A i \in 1 .. Len(executor') : IsCreateTask(executor'[i]) => executor'[i].call # c
    <2> SUFFICES ASSUME NEW i \in 1 .. Len(executor'), IsCreateTask(executor'[i]),
                        executor'[i].call = c
                 PROVE  FALSE
        OBVIOUS
    <2>1. i + 1 = 1
        BY <1>1, <1>5 DEF TokenInv
    <2> QED  BY <1>5, <2>1
<1> HIDE DEF c
<1>10. \A i \in 1 .. Len(toJs') : i \in 1 .. Len(toJs) \/ i = Len(toJs) + 1
    BY <1>6
<1>a. \A i \in 1 .. Len(executor') : IsCreateTask(executor'[i]) =>
          pc'[executor'[i].call] = "creating" /\ executor'[i].call \notin toNative'
    BY <1>2, <1>5 DEF TokenInv
<1>b. ASSUME NEW i \in 1 .. Len(executor'), NEW j \in 1 .. Len(executor'),
             IsCreateTask(executor'[i]), IsCreateTask(executor'[j]),
             executor'[i].call = executor'[j].call
      PROVE  i = j
    <2>1. i + 1 = j + 1
        BY <1>5, <1>b DEF TokenInv
    <2> QED  BY <1>5, <2>1
<1>d. \A i \in 1 .. Len(toJs') : IsAnswer(toJs'[i]) =>
          /\ pc'[toJs'[i].call] = "creating" /\ toJs'[i].call \notin toNative'
          /\ \A j \in 1 .. Len(executor') :
                IsCreateTask(executor'[j]) => executor'[j].call # toJs'[i].call
    BY <1>2, <1>4, <1>5, <1>6, <1>7, <1>9, <1>10 DEF TokenInv
<1>e. \A i, j \in 1 .. Len(toJs') :
          /\ IsAnswer(toJs'[i]) /\ IsAnswer(toJs'[j]) /\ toJs'[i].call = toJs'[j].call
          => i = j
    BY <1>4, <1>6, <1>8, <1>10 DEF TokenInv
<1>f. \A x \in toNative' : pc'[x] = "creating"
    BY <1>2 DEF TokenInv
<1> QED  BY <1>a, <1>b, <1>d, <1>e, <1>f DEF TokenInv

(* A call of the application starts: it was idle, so it had no request. *)
LEMMA TokenStarted ==
    ASSUME TypeOK, TokenInv, NEW c \in Calls, StartCall(c)
    PROVE  TokenInv'
<1>1. pc[c] = "idle" /\ pc' = [pc EXCEPT ![c] = "creating"] /\ toNative' = toNative \cup {c}
      /\ UNCHANGED <<executor, toJs>> /\ pc \in [Calls -> {"idle", "yielded"} \cup InFlight \cup Settled]
    BY DEF StartCall, nativeVars, TypeOK
<1>2. pc'[c] = "creating" /\ \A d \in Calls : pc[d] = "creating" => d # c /\ pc'[d] = "creating"
    BY <1>1
<1>3. /\ \A i \in 1 .. Len(executor) : IsCreateTask(executor[i]) =>
            pc'[executor[i].call] = "creating" /\ executor[i].call \notin toNative'
      /\ \A i \in 1 .. Len(toJs) : IsAnswer(toJs[i]) =>
            pc'[toJs[i].call] = "creating" /\ toJs[i].call \notin toNative'
    BY <1>1, <1>2, TokenCalls DEF TokenInv
<1>4. \A d \in toNative' : pc'[d] = "creating"
    BY <1>1, <1>2, TokenCalls DEF TokenInv
<1> QED  BY <1>1, <1>3, <1>4 DEF TokenInv

(* What the function of a call does when it runs leaves the other calls    *)
(* alone, and a call that runs awaits no createCall.                       *)
CallStep(c) == Pull(c) \/ Return(c) \/ Microtask(c)

LEMMA CallStepFrame ==
    ASSUME TypeInv, NEW c \in Calls, CallStep(c)
    PROVE  /\ pc[c] \in {"yielded", "created", "resumed"}
           /\ pc'[c] \in {"waiting", "resumed", "yielded"} \cup Settled
           /\ \A d \in Calls \ {c} : pc'[d] = pc[d]
           /\ UNCHANGED <<listener, pingId, pingResolves, pinged, callId, toNative,
                           nativeVars, rpcs, toJs>>
<1>0. pc \in [Calls -> {"idle", "yielded"} \cup InFlight \cup Settled]
    BY DEF TypeInv, TypeOK
<1>1. ASSUME NEW STATE states, IsMap(states, CallState), WaitForCallEvent(c, states)
      PROVE  pc'[c] \in {"waiting", "resumed"} /\ \A d \in Calls \ {c} : pc'[d] = pc[d]
    <2>1. pc' = [pc EXCEPT ![c] = pc'[c]] /\ pc'[c] \in {"waiting", "resumed"}
        BY <1>1, WaitTypes DEF TypeInv
    <2> QED  BY <1>0, <2>1
<1>2. ASSUME NEW o \in Settled, Settle(c, o)
      PROVE  pc'[c] = o /\ \A d \in Calls \ {c} : pc'[d] = pc[d]
    BY <1>0, <1>2 DEF Settle
<1>3. IsMap(callStates, CallState)
    BY DEF TypeInv, TypeOK, IsMap
<1>4. CASE Pull(c)
    BY <1>1, <1>3, <1>4 DEF Pull
<1>5. CASE Return(c)
    BY <1>0, <1>5 DEF Return, Settled
<1>6. CASE Register(c)
    <2>1. callId[c] \in CallIds /\ NoEvents \in CallState
        BY <1>6 DEF TypeInv, Register, NoEvents, CallState
    <2>2. IsMap(CreateCall(callStates, callId[c]), CallState)
        BY <1>3, <2>1, PutIsMap DEF CreateCall
    <2> QED  BY <1>1, <1>6, <2>2 DEF Register
<1>7. CASE ResumeUnary(c)
    <2>1. /\ pc[c] = "resumed"
          /\ UNCHANGED <<listener, pingId, pingResolves, pinged, callId, toNative,
                          nativeVars, rpcs, toJs>>
          /\ Settle(c, "returned") \/ Settle(c, "threw") \/ WaitForCallEvent(c, callStates)
        BY <1>7 DEF ResumeUnary
    <2>2. /\ pc'[c] \in {"waiting", "resumed"} \cup Settled
          /\ \A d \in Calls \ {c} : pc'[d] = pc[d]
        BY <1>1, <1>2, <1>3, <2>1 DEF Settled
    <2> QED  BY <2>1, <2>2
<1>8. CASE ResumeStream(c)
    <2>1. /\ pc[c] = "resumed"
          /\ UNCHANGED <<listener, pingId, pingResolves, pinged, callId, toNative,
                          nativeVars, rpcs, toJs>>
          /\ Settle(c, "returned") \/ Settle(c, "threw") \/ pc' = [pc EXCEPT ![c] = "yielded"]
        BY <1>8 DEF ResumeStream
    <2>2. /\ pc'[c] \in {"yielded"} \cup Settled
          /\ \A d \in Calls \ {c} : pc'[d] = pc[d]
        BY <1>0, <1>2, <2>1 DEF Settled
    <2> QED  BY <2>1, <2>2
<1> QED  BY <1>4, <1>5, <1>6, <1>7, <1>8 DEF CallStep, Microtask

(* An event wakes the call it is for, which waits, and no other. *)
LEMMA WakeFrame ==
    ASSUME TypeInv, WaiterDiscipline, NEW event \in CallEvent, OnCallEvent(event)
    PROVE  \A c \in Calls : pc'[c] = pc[c] \/ (pc[c] = "waiting" /\ pc'[c] = "resumed")
<1> DEFINE id == event.callId
<1>1. CASE id \in DOMAIN callStates /\ callStates[id].waiter # << >>
    <2>1. callStates[id].waiter = <<rpcs[id].call>> /\ pc[rpcs[id].call] = "waiting"
        BY <1>1 DEF WaiterDiscipline
    <2>2. Waiters(callStates[id]) = {rpcs[id].call}
        BY <2>1 DEF Waiters
    <2>3. pc' = [c \in Calls |-> IF c \in Waiters(callStates[id]) THEN "resumed" ELSE pc[c]]
        BY <1>1 DEF OnCallEvent
    <2> QED  BY <2>1, <2>2, <2>3
<1>2. CASE ~(id \in DOMAIN callStates /\ callStates[id].waiter # << >>)
    BY <1>2 DEF OnCallEvent
<1> QED  BY <1>1, <1>2

(* gRPC reports one event of one of its calls at a time, and forgets none. *)
LEMMA NetworkEvent ==
    ASSUME TypeOK, Network
    PROVE  /\ \E e \in CallEvent : executor' = Append(executor, EmitTask(e))
           /\ DOMAIN rpcs' = DOMAIN rpcs
           /\ \A i \in DOMAIN rpcs : rpcs'[i].call = rpcs[i].call
<1>1. PICK id \in DOMAIN rpcs : OnNext(id) \/ OnCompleted(id) \/ OnError(id)
    BY DEF Network
<1>2. id \in CallIds /\ rpcs[id] \in RpcState
    BY DEF TypeOK
<1>3. rpcs[id].sent + 1 \in Nat
    BY <1>2 DEF RpcState
<1>4. \E e \in CallEvent : executor' = Append(executor, EmitTask(e))
    BY <1>1, <1>2, <1>3, MessageTypes DEF OnNext, OnCompleted, OnError, Submit
<1>5. \E s \in {"ended", "failed"} :
            \/ rpcs' = [rpcs EXCEPT ![id].sent = @ + 1]
            \/ rpcs' = [rpcs EXCEPT ![id].status = s]
    BY <1>1 DEF OnNext, OnCompleted, OnError
<1>6. \A i \in DOMAIN rpcs : rpcs[i] \in RpcState
    BY DEF TypeOK
<1>7. DOMAIN rpcs' = DOMAIN rpcs /\ \A i \in DOMAIN rpcs : rpcs'[i].call = rpcs[i].call
    BY <1>5, <1>6 DEF RpcState
<1> QED  BY <1>4, <1>7

(* TokenInv is preserved by every step. *)
LEMMA TokenStep == TypeInv /\ TokenInv /\ WaiterDiscipline /\ [Next]_vars => TokenInv'
<1> SUFFICES ASSUME TypeInv, TokenInv, WaiterDiscipline, [Next]_vars
             PROVE  TokenInv'
    OBVIOUS
<1>t. TypeOK
    BY DEF TypeInv
<1>1. ASSUME NEW c \in Calls, StartCall(c)
      PROVE  TokenInv'
    BY <1>1, <1>t, TokenStarted
<1>2. ASSUME NEW c \in Calls, CallStep(c)
      PROVE  TokenInv'
    <2>1. UNCHANGED <<toNative, executor, toJs>>
          /\ \A d \in Calls : pc[d] = "creating" => pc'[d] = "creating"
        BY <1>2, CallStepFrame DEF nativeVars
    <2> QED  BY <1>t, <2>1, TokenQueues
<1>3. ASSUME NEW p \in Pings, Ping(p)
      PROVE  TokenInv'
    <2>1. PingTask(p, pingId) \in Task /\ ~IsCreateTask(PingTask(p, pingId))
        BY <1>t, MessageTypes DEF TypeOK, PingTask, IsCreateTask
    <2>2. executor' = Append(executor, PingTask(p, pingId)) /\ UNCHANGED <<pc, toNative, toJs>>
        BY <1>3 DEF Ping
    <2> QED  BY <1>t, <2>1, <2>2, TokenQueues
<1>4. CASE Shutdown \/ UNCHANGED vars
    <2>1. UNCHANGED <<pc, toNative, executor, toJs>>
        BY <1>4 DEF Shutdown, vars, jsVars, nativeVars
    <2> QED  BY <1>t, <2>1, TokenQueues
<1>5. ASSUME NEW c \in Calls, NativeCreateCall(c)
      PROVE  TokenInv'
    BY <1>5, <1>t, TokenNative
<1>6. CASE TakeCreated \/ TakeRejected
    <2>1. /\ toJs # << >> /\ IsAnswer(Head(toJs)) /\ toJs' = Tail(toJs)
          /\ UNCHANGED <<toNative, executor>>
        BY <1>6 DEF TakeCreated, TakeRejected, Take, IsAnswer, nativeVars
    <2>2. \A d \in Calls \ {Head(toJs).call} : pc'[d] = pc[d]
        BY <1>6, <1>t DEF TakeCreated, TakeRejected, TypeOK
    <2> QED  BY <1>t, <2>1, <2>2, TokenTaken
<1>7. CASE TakeEvent
    <2>1. /\ toJs # << >> /\ toJs' = Tail(toJs) /\ UNCHANGED <<toNative, executor>>
          /\ Head(toJs).event \in CallEvent
        BY <1>7, <1>t, HeadTypes DEF TakeEvent, Take, nativeVars
    <2>2. \A d \in Calls : pc[d] = "creating" => pc'[d] = "creating"
        BY <1>7, <2>1, WakeFrame DEF TakeEvent
    <2> QED  BY <1>t, <2>1, <2>2, TokenQueues
<1>8. CASE TakePong \/ TakeSent
    <2>1. toJs # << >> /\ toJs' = Tail(toJs) /\ UNCHANGED <<pc, toNative, executor>>
        BY <1>8 DEF TakePong, TakeSent, Take, nativeVars
    <2> QED  BY <1>t, <2>1, TokenQueues
<1>9. CASE RunCreateCall
    BY <1>9, <1>t, TokenAnswered
<1>10. CASE RunPing
    <2> DEFINE pong == PongMessage(PongNumber(Head(executor).number))
               sent == SentMessage(Head(executor).ping)
    <2>1. executor # << >> /\ executor' = Tail(executor) /\ UNCHANGED <<pc, toNative>>
        BY <1>10 DEF RunPing, RunTask, jsVars
    <2>2. pong \in JsMessage /\ sent \in JsMessage
        BY <1>10, <1>t, HeadTypes, MessageTypes DEF RunPing, RunTask
    <2>3. ~IsAnswer(pong) /\ ~IsAnswer(sent)
        BY DEF PongMessage, SentMessage, IsAnswer
    <2>4. toJs' = Append(Append(toJs, pong), sent)
        BY <1>10, <1>t, <2>2 DEF RunPing, TypeOK
    <2> HIDE DEF pong, sent
    <2> QED  BY <1>t, <2>1, <2>2, <2>3, <2>4, TokenQueues
<1>11. CASE RunEmit
    <2> DEFINE m == EventMessage(Head(executor).event)
    <2>1. executor # << >> /\ executor' = Tail(executor) /\ toJs' = Append(toJs, m)
          /\ UNCHANGED <<pc, toNative>>
        BY <1>11 DEF RunEmit, RunTask, jsVars
    <2>2. m \in JsMessage /\ ~IsAnswer(m)
        BY <1>11, <1>t, HeadTypes, MessageTypes DEF RunEmit, RunTask, EventMessage, IsAnswer
    <2> QED  BY <1>t, <2>1, <2>2, TokenQueues
<1>12. CASE Network
    <2>1. UNCHANGED <<pc, toNative, toJs>>
        BY <1>12 DEF Network, OnNext, OnCompleted, OnError, Submit, jsVars
    <2>2. \E e \in CallEvent : executor' = Append(executor, EmitTask(e))
        BY <1>12, <1>t, NetworkEvent
    <2>3. \A e \in CallEvent : EmitTask(e) \in Task /\ ~IsCreateTask(EmitTask(e))
        BY MessageTypes DEF EmitTask, IsCreateTask
    <2> QED  BY <1>t, <2>1, <2>2, <2>3, TokenQueues
<1> QED
    BY <1>1, <1>2, <1>3, <1>4, <1>5, <1>6, <1>7, <1>8, <1>9, <1>10, <1>11, <1>12
       DEF Next, Application, System, JsTask, Executor, CallStep

(* A step that makes no call keeps IdInv if rpcs keeps its calls, if the   *)
(* calls that run had an id already, and if answers only leave.            *)
LEMMA IdFrame ==
    ASSUME TypeInv, IdInv, UNCHANGED <<callId, nextId, platform>>,
           DOMAIN rpcs' = DOMAIN rpcs,
           \A i \in DOMAIN rpcs : rpcs'[i].call = rpcs[i].call,
           \A c \in Calls : pc'[c] \in {"created"} \cup Registered =>
                            pc[c] \in {"created"} \cup Registered,
           \A i \in 1 .. Len(toJs') : toJs'[i].kind = "created" =>
                \E j \in 1 .. Len(toJs) : toJs'[i] = toJs[j]
    PROVE  IdInv'
<1>1. \A id \in DOMAIN rpcs' : id < NewId'
    BY DEF IdInv, NewId
<1>2. \A c \in Calls : pc'[c] \in {"created"} \cup Registered =>
          callId'[c] \in DOMAIN rpcs' /\ rpcs'[callId'[c]].call = c
    BY DEF IdInv
<1>3. \A i \in 1 .. Len(toJs') : toJs'[i].kind = "created" =>
          toJs'[i].id \in DOMAIN rpcs' /\ rpcs'[toJs'[i].id].call = toJs'[i].call
    BY DEF IdInv
<1> QED  BY <1>1, <1>2, <1>3 DEF IdInv

(* A message that is no call's id comes, or the oldest message goes. *)
LEMMA CreatedMessagesKept ==
    ASSUME TypeOK,
           \/ toJs' = toJs
           \/ \E m \in JsMessage : m.kind # "created" /\ toJs' = Append(toJs, m)
           \/ toJs # << >> /\ toJs' = Tail(toJs)
    PROVE  \A i \in 1 .. Len(toJs') : toJs'[i].kind = "created" =>
                \E j \in 1 .. Len(toJs) : toJs'[i] = toJs[j]
<1>0. toJs \in Seq(JsMessage)
    BY DEF TypeOK
<1>1. CASE toJs' = toJs
    BY <1>1
<1>2. CASE \E m \in JsMessage : m.kind # "created" /\ toJs' = Append(toJs, m)
    <2> PICK m \in JsMessage : m.kind # "created" /\ toJs' = Append(toJs, m)
        BY <1>2
    <2>1. /\ Len(toJs') = Len(toJs) + 1 /\ Len(toJs) \in Nat
          /\ \A i \in 1 .. Len(toJs) : toJs'[i] = toJs[i]
          /\ toJs'[Len(toJs) + 1] = m
        BY <1>0, AppendAt
    <2>2. \A i \in 1 .. Len(toJs') : i \in 1 .. Len(toJs) \/ i = Len(toJs) + 1
        BY <2>1
    <2> QED  BY <2>1, <2>2
<1>3. CASE toJs # << >> /\ toJs' = Tail(toJs)
    BY <1>0, <1>3, TailAt
<1> QED  BY <1>1, <1>2, <1>3

(* A call the native module makes gets an id no call has. *)
LEMMA IdCreated ==
    ASSUME TypeInv, IdInv, RunCreateCall
    PROVE  /\ IdInv' /\ UNCHANGED <<callId, pc, callStates>>
           /\ DOMAIN rpcs \subseteq DOMAIN rpcs'
           /\ \A i \in DOMAIN rpcs : rpcs'[i] = rpcs[i]
<1> DEFINE c == Head(executor).call
<1>t. TypeOK
    BY DEF TypeInv
<1>1. Head(executor).task = "createCall" /\ executor # << >>
      /\ nextId' = nextId + 1 /\ UNCHANGED <<callId, pc, callStates, platform>>
    BY DEF RunCreateCall, RunTask, jsVars
<1>2. c \in Calls
    BY <1>1, <1>t, HeadTypes
<1>3. NewId \in CallIds /\ NewId' = NewId + 1
    BY <1>1, <1>t, NewIdFresh
<1>4. \E s \in {"running", "none", "aborted"} : rpcs' = Put(rpcs, NewId, Rpc(c, s))
    BY DEF RunCreateCall, Launch, LaunchNothing, LaunchThrows
<1>5. NewId \notin DOMAIN rpcs /\ \A i \in DOMAIN rpcs : i \in Nat /\ i < NewId
    BY <1>3, <1>t DEF IdInv, TypeOK, CallIds
<1>6. /\ DOMAIN rpcs' = DOMAIN rpcs \cup {NewId} /\ rpcs'[NewId].call = c
      /\ \A i \in DOMAIN rpcs : rpcs'[i] = rpcs[i]
    BY <1>4, <1>5 DEF Put, Rpc
<1>7. \E m \in {CreatedMessage(c, NewId), RejectedMessage(c)} : toJs' = Append(toJs, m)
    BY DEF RunCreateCall, Launch, LaunchNothing, LaunchThrows
<1> HIDE DEF c
<1>8. \A i \in 1 .. Len(toJs') : toJs'[i].kind = "created" =>
          (\E j \in 1 .. Len(toJs) : toJs'[i] = toJs[j]) \/ toJs'[i] = CreatedMessage(c, NewId)
    <2> PICK m \in {CreatedMessage(c, NewId), RejectedMessage(c)} : toJs' = Append(toJs, m)
        BY <1>7
    <2>1. m \in JsMessage /\ (m.kind = "created" => m = CreatedMessage(c, NewId))
        BY <1>2, <1>3, MessageTypes DEF CreatedMessage, RejectedMessage
    <2>2. toJs \in Seq(JsMessage)
        BY <1>t DEF TypeOK
    <2>3. /\ Len(toJs') = Len(toJs) + 1 /\ Len(toJs) \in Nat
          /\ \A i \in 1 .. Len(toJs) : toJs'[i] = toJs[i]
          /\ toJs'[Len(toJs) + 1] = m
        BY <2>1, <2>2, AppendAt
    <2>4. \A i \in 1 .. Len(toJs') : i \in 1 .. Len(toJs) \/ i = Len(toJs) + 1
        BY <2>3
    <2> QED  BY <2>1, <2>3, <2>4
<1>9. \A id \in DOMAIN rpcs' : id < NewId'
    <2>1. NewId < NewId + 1 /\ \A i \in Nat : i < NewId => i < NewId + 1
        BY <1>3 DEF CallIds
    <2> QED  BY <1>3, <1>5, <1>6, <2>1
<1>10. \A d \in Calls : pc'[d] \in {"created"} \cup Registered =>
          callId'[d] \in DOMAIN rpcs' /\ rpcs'[callId'[d]].call = d
    BY <1>1, <1>6 DEF IdInv
<1>11. CreatedMessage(c, NewId).id = NewId /\ CreatedMessage(c, NewId).call = c
    BY DEF CreatedMessage
<1>12. \A i \in 1 .. Len(toJs') : toJs'[i].kind = "created" =>
          toJs'[i].id \in DOMAIN rpcs' /\ rpcs'[toJs'[i].id].call = toJs'[i].call
    <2> SUFFICES ASSUME NEW i \in 1 .. Len(toJs'), toJs'[i].kind = "created"
                 PROVE  toJs'[i].id \in DOMAIN rpcs' /\ rpcs'[toJs'[i].id].call = toJs'[i].call
        OBVIOUS
    <2>1. CASE toJs'[i] = CreatedMessage(c, NewId)
        BY <1>6, <1>11, <2>1
    <2>2. CASE \E j \in 1 .. Len(toJs) : toJs'[i] = toJs[j]
        BY <1>6, <2>2 DEF IdInv
    <2> QED  BY <1>8, <2>1, <2>2
<1>13. IdInv'
    BY <1>9, <1>10, <1>12 DEF IdInv
<1> QED  BY <1>1, <1>6, <1>13

(* The call that JavaScript is told about has the id of the answer. *)
LEMMA IdTaken ==
    ASSUME TypeInv, IdInv, TakeCreated
    PROVE  IdInv'
<1> DEFINE c == Head(toJs).call
           id == Head(toJs).id
<1>t. TypeOK
    BY DEF TypeInv
<1>1. /\ toJs # << >> /\ toJs' = Tail(toJs) /\ Head(toJs).kind = "created"
      /\ pc' = [pc EXCEPT ![c] = "created"] /\ callId' = [callId EXCEPT ![c] = id]
      /\ UNCHANGED <<rpcs, nextId, platform>>
    BY DEF TakeCreated, Take, nativeVars
<1>2. c \in Calls /\ id \in CallIds
    BY <1>1, <1>t, HeadTypes
<1>3. toJs \in Seq(JsMessage) /\ callId \in [Calls -> Nat]
      /\ pc \in [Calls -> {"idle", "yielded"} \cup InFlight \cup Settled]
    BY <1>t DEF TypeOK
<1>4. id \in DOMAIN rpcs /\ rpcs[id].call = c
    <2>1. Head(toJs) = toJs[1] /\ 1 \in 1 .. Len(toJs)
        BY <1>1, <1>3, TailAt
    <2> QED  BY <1>1, <2>1 DEF IdInv
<1> HIDE DEF c, id
<1>5. \A d \in Calls : pc'[d] \in {"created"} \cup Registered =>
          callId'[d] \in DOMAIN rpcs' /\ rpcs'[callId'[d]].call = d
    <2>1. callId'[c] = id /\ \A d \in Calls \ {c} : callId'[d] = callId[d] /\ pc'[d] = pc[d]
        BY <1>1, <1>2, <1>3
    <2> QED  BY <1>1, <1>4, <2>1 DEF IdInv
<1>6. \A i \in 1 .. Len(toJs') : toJs'[i].kind = "created" =>
          toJs'[i].id \in DOMAIN rpcs' /\ rpcs'[toJs'[i].id].call = toJs'[i].call
    BY <1>1, <1>t, CreatedMessagesKept DEF IdInv
<1>7. \A i \in DOMAIN rpcs' : i < NewId'
    BY <1>1 DEF IdInv, NewId
<1> QED  BY <1>5, <1>6, <1>7 DEF IdInv

(* IdInv is preserved by every step. *)
LEMMA IdStep == TypeInv /\ IdInv /\ WaiterDiscipline /\ [Next]_vars => IdInv'
<1> SUFFICES ASSUME TypeInv, IdInv, WaiterDiscipline, [Next]_vars
             PROVE  IdInv'
    OBVIOUS
<1>t. TypeOK
    BY DEF TypeInv
<1>p. UNCHANGED platform
    BY PlatformFixed
<1>1. ASSUME NEW c \in Calls, StartCall(c)
      PROVE  IdInv'
    <2>1. UNCHANGED <<callId, nextId, rpcs, toJs>> /\ pc' = [pc EXCEPT ![c] = "creating"]
        BY <1>1 DEF StartCall, nativeVars
    <2>2. \A d \in Calls : pc'[d] = pc[d] \/ pc'[d] = "creating"
        BY <1>t, <2>1 DEF TypeOK
    <2> QED  BY <1>t, <2>1, <2>2, <1>p, IdFrame DEF Registered
<1>2. ASSUME NEW c \in Calls, CallStep(c)
      PROVE  IdInv'
    <2>1. UNCHANGED <<callId, nextId, rpcs, toJs>>
        BY <1>2, CallStepFrame DEF nativeVars
    <2>2. \A d \in Calls : pc'[d] = pc[d] \/ pc[d] \in {"created"} \cup Registered
        BY <1>2, CallStepFrame DEF Registered
    <2> QED  BY <1>t, <2>1, <2>2, <1>p, IdFrame
<1>3. CASE \E p \in Pings : Ping(p)
    <2>1. UNCHANGED <<callId, nextId, rpcs, toJs, pc>>
        BY <1>3 DEF Ping
    <2> QED  BY <1>t, <2>1, <1>p, IdFrame
<1>4. CASE Shutdown \/ UNCHANGED vars
    <2>1. UNCHANGED <<callId, nextId, rpcs, toJs, pc>>
        BY <1>4 DEF Shutdown, vars, jsVars, nativeVars
    <2> QED  BY <1>t, <2>1, <1>p, IdFrame
<1>5. ASSUME NEW c \in Calls, NativeCreateCall(c)
      PROVE  IdInv'
    <2>1. UNCHANGED <<callId, nextId, rpcs, pc>>
        BY <1>5 DEF NativeCreateCall, jsVars
    <2>2. RejectedMessage(c) \in JsMessage /\ RejectedMessage(c).kind # "created"
        BY MessageTypes DEF RejectedMessage
    <2>3. toJs' = toJs \/ toJs' = Append(toJs, RejectedMessage(c))
        BY <1>5 DEF NativeCreateCall
    <2> QED  BY <1>t, <2>1, <2>2, <2>3, <1>p, IdFrame, CreatedMessagesKept
<1>6. CASE TakeCreated
    BY <1>6, IdTaken
<1>7. CASE TakeRejected
    <2>1. /\ UNCHANGED <<callId, nextId, rpcs>> /\ toJs # << >> /\ toJs' = Tail(toJs)
          /\ pc' = [pc EXCEPT ![Head(toJs).call] = "threw"]
        BY <1>7 DEF TakeRejected, Take, nativeVars
    <2>2. \A d \in Calls : pc'[d] = pc[d] \/ pc'[d] = "threw"
        BY <1>t, <2>1 DEF TypeOK
    <2> QED  BY <1>t, <2>1, <2>2, <1>p, IdFrame, CreatedMessagesKept DEF Registered
<1>8. CASE TakeEvent
    <2>1. /\ UNCHANGED <<callId, nextId, rpcs>> /\ toJs # << >> /\ toJs' = Tail(toJs)
          /\ Head(toJs).event \in CallEvent
        BY <1>8, <1>t, HeadTypes DEF TakeEvent, Take, nativeVars
    <2>2. \A d \in Calls : pc'[d] = pc[d] \/ pc[d] = "waiting"
        BY <1>8, <2>1, WakeFrame DEF TakeEvent
    <2> QED  BY <1>t, <2>1, <2>2, <1>p, IdFrame, CreatedMessagesKept DEF Registered
<1>9. CASE TakePong \/ TakeSent
    <2>1. UNCHANGED <<callId, nextId, rpcs, pc>> /\ toJs # << >> /\ toJs' = Tail(toJs)
        BY <1>9 DEF TakePong, TakeSent, Take, nativeVars
    <2> QED  BY <1>t, <2>1, <1>p, IdFrame, CreatedMessagesKept
<1>10. CASE RunCreateCall
    BY <1>10, IdCreated
<1>11. CASE RunPing
    <2> DEFINE pong == PongMessage(PongNumber(Head(executor).number))
               sent == SentMessage(Head(executor).ping)
    <2>1. UNCHANGED <<callId, nextId, rpcs, pc>>
        BY <1>11 DEF RunPing, RunTask, jsVars
    <2>2. pong \in JsMessage /\ sent \in JsMessage
        BY <1>11, <1>t, HeadTypes, MessageTypes DEF RunPing, RunTask
    <2>3. pong.kind # "created" /\ sent.kind # "created"
        BY DEF PongMessage, SentMessage
    <2>4. toJs \in Seq(JsMessage) /\ toJs' = toJs \o <<pong, sent>>
        BY <1>11, <1>t DEF RunPing, TypeOK
    <2> HIDE DEF pong, sent
    <2>5. \A i \in 1 .. Len(toJs') :
              (i \in 1 .. Len(toJs) /\ toJs'[i] = toJs[i]) \/ toJs'[i] \in {pong, sent}
        BY <2>4
    <2> QED  BY <2>1, <2>3, <2>5, <1>p, IdFrame
<1>12. CASE RunEmit
    <2> DEFINE m == EventMessage(Head(executor).event)
    <2>1. UNCHANGED <<callId, nextId, rpcs, pc>> /\ toJs' = Append(toJs, m)
        BY <1>12 DEF RunEmit, RunTask, jsVars
    <2>2. m \in JsMessage /\ m.kind # "created"
        BY <1>12, <1>t, HeadTypes, MessageTypes DEF RunEmit, RunTask, EventMessage
    <2> QED  BY <1>t, <2>1, <2>2, <1>p, IdFrame, CreatedMessagesKept
<1>13. CASE Network
    <2>1. UNCHANGED <<callId, nextId, pc, toJs>>
        BY <1>13 DEF Network, OnNext, OnCompleted, OnError, Submit, jsVars
    <2>2. DOMAIN rpcs' = DOMAIN rpcs /\ \A i \in DOMAIN rpcs : rpcs'[i].call = rpcs[i].call
        BY <1>13, <1>t, NetworkEvent
    <2> QED  BY <1>t, <2>1, <2>2, <1>p, IdFrame
<1> QED
    BY <1>1, <1>2, <1>3, <1>4, <1>5, <1>6, <1>7, <1>8, <1>9, <1>10, <1>11, <1>12, <1>13
       DEF Next, Application, System, JsTask, Executor, CallStep

-----------------------------------------------------------------------------
(* The entries of callStates and the calls they belong to. *)

LEMMA EntryCalls ==
    ASSUME TypeOK, EntryInv, NEW id \in DOMAIN callStates
    PROVE  /\ id \in DOMAIN rpcs /\ rpcs[id].call \in Calls
           /\ callId[rpcs[id].call] = id /\ pc[rpcs[id].call] \in Registered
           /\ callStates[id] \in CallState
    BY DEF TypeOK, EntryInv, WaiterDiscipline, CallStatesReclaimed, RpcState

(* Steps that leave callStates alone, and the calls that have an entry. *)
LEMMA EntryFrame ==
    ASSUME TypeOK, EntryInv, UNCHANGED callStates,
           \A id \in DOMAIN rpcs : id \in DOMAIN rpcs' /\ rpcs'[id].call = rpcs[id].call,
           \A c \in Calls : pc[c] \in Registered =>
                                pc'[c] \in Registered /\ callId'[c] = callId[c],
           \A c \in Calls : pc'[c] = "waiting" <=> pc[c] = "waiting"
    PROVE  EntryInv'
<1>1. ASSUME NEW id \in DOMAIN callStates
      PROVE  LET c == rpcs'[id].call IN
             /\ id \in DOMAIN rpcs' /\ callId'[c] = id /\ pc'[c] \in Registered
             /\ callStates[id].waiter = IF pc'[c] = "waiting" THEN <<c>> ELSE << >>
             /\ pc'[c] = "waiting" => callStates[id].queue = << >>
    BY EntryCalls DEF EntryInv, WaiterDiscipline
<1>2. \A c \in Calls : pc'[c] = "waiting" => callId'[c] \in DOMAIN callStates'
    BY DEF EntryInv, WaiterDiscipline, Registered
<1>3. QueuesOwn(callStates)'
    BY DEF EntryInv, QueuesOwn
<1> QED  BY <1>1, <1>2, <1>3 DEF EntryInv, WaiterDiscipline, CallStatesReclaimed

(* What a map of call states is when call c is about to await its events:  *)
(* the entries of other calls are as EntryInv has them, and nobody waits   *)
(* in the entry of c.                                                      *)
ReadyFor(c, states) ==
    /\ \A id \in DOMAIN states :
          LET d == rpcs[id].call IN
          /\ id \in DOMAIN rpcs /\ callId[d] = id
          /\ d # c => /\ pc[d] \in Registered
                      /\ states[id].waiter = IF pc[d] = "waiting" THEN <<d>> ELSE << >>
                      /\ pc[d] = "waiting" => states[id].queue = << >>
          /\ d = c => states[id].waiter = << >>
    /\ \A d \in Calls \ {c} : pc[d] = "waiting" => callId[d] \in DOMAIN states

LEMMA EntryWait ==
    ASSUME TypeInv, IdInv, NEW c \in Calls, NEW STATE states, IsMap(states, CallState),
           ReadyFor(c, states), QueuesOwn(states),
           rpcs[callId[c]].call = c, callId[c] \in DOMAIN rpcs,
           WaitForCallEvent(c, states), UNCHANGED <<rpcs, callId>>
    PROVE  EntryInv'
<1> DEFINE mine == callId[c]
<1>1. \A d \in Calls \ {c} : pc'[d] = pc[d]
    BY WaitTypes DEF TypeInv, TypeOK
<1>2. pc'[c] \in {"waiting", "resumed"}
    BY WaitTypes DEF TypeInv
<1>3. \A d \in Calls \ {c} : pc[d] = "waiting" => callId[d] # mine
    BY DEF IdInv, Registered
<1>4. \A id \in DOMAIN states : rpcs[id].call \in Calls /\ (rpcs[id].call = c <=> id = mine)
    BY DEF ReadyFor, TypeInv, TypeOK, RpcState
<1>5. ASSUME pc'[c] = "resumed",
             DOMAIN callStates' \in {DOMAIN states, DOMAIN states \ {mine}},
             QueuesOwn(callStates)',
             \A id \in DOMAIN callStates' : callStates'[id].waiter = states[id].waiter
                                            /\ (id # mine => callStates'[id] = states[id])
      PROVE  EntryInv'
    <2>1. ASSUME NEW id \in DOMAIN callStates'
          PROVE  LET d == rpcs[id].call IN
                 /\ id \in DOMAIN rpcs /\ callId[d] = id /\ pc'[d] \in Registered
                 /\ callStates'[id].waiter = IF pc'[d] = "waiting" THEN <<d>> ELSE << >>
                 /\ pc'[d] = "waiting" => callStates'[id].queue = << >>
        <3>1. id \in DOMAIN states
            BY <1>5
        <3>2. CASE id = mine
            BY <1>4, <1>5, <3>1, <3>2 DEF ReadyFor, Registered
        <3>3. CASE id # mine
            <4>1. rpcs[id].call \in Calls \ {c} /\ callStates'[id] = states[id]
                BY <1>4, <1>5, <3>1, <3>3
            <4> QED  BY <1>1, <3>1, <4>1 DEF ReadyFor
        <3> QED  BY <3>2, <3>3
    <2>2. \A d \in Calls : pc'[d] = "waiting" => callId[d] \in DOMAIN callStates'
        BY <1>1, <1>3, <1>5 DEF ReadyFor
    <2> QED  BY <1>5, <2>1, <2>2 DEF EntryInv, WaiterDiscipline, CallStatesReclaimed
<1>p. pc \in [Calls -> {"idle", "yielded"} \cup InFlight \cup Settled]
    BY DEF TypeInv, TypeOK
<1>6. CASE mine \notin DOMAIN states
    <2>1. callStates' = states /\ pc'[c] = "resumed"
        BY <1>6, <1>p DEF WaitForCallEvent, Resolve
    <2>2. QueuesOwn(callStates)'
        BY <2>1 DEF QueuesOwn
    <2> QED  BY <1>5, <2>1, <2>2
<1>7. CASE mine \in DOMAIN states /\ states[mine].queue # << >>
    <2> DEFINE next == Head(states[mine].queue)
               rest == [states EXCEPT ![mine].queue = Tail(@)]
    <2>1. callStates' = CheckComplete(rest, next) /\ pc'[c] = "resumed"
        BY <1>7, <1>p DEF WaitForCallEvent, Resolve
    <2>2. states[mine] \in CallState
        BY <1>7 DEF IsMap
    <2>3. /\ DOMAIN rest = DOMAIN states
          /\ \A id \in DOMAIN states : rest[id].waiter = states[id].waiter
                                       /\ (id # mine => rest[id] = states[id])
        BY <2>2 DEF CallState
    <2>4. states[mine].queue \in Seq(CallEvent)
        BY <2>2, CallStateUpdates
    <2>5. /\ Head(states[mine].queue) = states[mine].queue[1] /\ 1 \in 1 .. Len(states[mine].queue)
          /\ \A i \in 1 .. Len(Tail(states[mine].queue)) :
                /\ i + 1 \in 1 .. Len(states[mine].queue)
                /\ Tail(states[mine].queue)[i] = states[mine].queue[i + 1]
        BY <1>7, <2>4, TailAt
    <2>6. next.callId = mine
        BY <1>7, <2>5 DEF QueuesOwn
    <2>7. rest[mine].queue = Tail(states[mine].queue)
        BY <1>7, <2>2 DEF CallState
    <2>8. QueuesOwn(rest)
        BY <1>7, <2>3, <2>5, <2>7 DEF QueuesOwn
    <2> HIDE DEF rest, next
    <2>9. callStates' = rest \/ callStates' = Remove(rest, mine)
        BY <2>1, <2>6 DEF CheckComplete
    <2>10. CASE callStates' = rest
        <3>1. QueuesOwn(callStates)'
            BY <2>8, <2>10 DEF QueuesOwn
        <3> QED  BY <1>5, <2>1, <2>3, <2>10, <3>1
    <2>11. CASE callStates' = Remove(rest, mine)
        <3>1. DOMAIN callStates' = DOMAIN rest \ {mine}
              /\ \A id \in DOMAIN callStates' : callStates'[id] = rest[id]
            BY <2>11 DEF Remove
        <3>2. QueuesOwn(callStates)'
            BY <2>8, <3>1 DEF QueuesOwn
        <3> QED  BY <1>5, <2>1, <2>3, <3>1, <3>2
    <2> QED  BY <2>9, <2>10, <2>11
<1>8. CASE mine \in DOMAIN states /\ states[mine].queue = << >>
    <2>1. /\ callStates' = [states EXCEPT ![mine].waiter = Append(@, c)]
          /\ pc'[c] = "waiting"
        BY <1>8, <1>p DEF WaitForCallEvent
    <2>2. states[mine] \in CallState /\ states[mine].waiter = << >>
        BY <1>4, <1>8 DEF IsMap, ReadyFor
    <2>3. /\ DOMAIN callStates' = DOMAIN states
          /\ callStates'[mine].waiter = <<c>> /\ callStates'[mine].queue = << >>
          /\ \A id \in DOMAIN states \ {mine} : callStates'[id] = states[id]
        BY <1>8, <2>1, <2>2 DEF CallState
    <2>4. ASSUME NEW id \in DOMAIN callStates'
          PROVE  LET d == rpcs[id].call IN
                 /\ id \in DOMAIN rpcs /\ callId[d] = id /\ pc'[d] \in Registered
                 /\ callStates'[id].waiter = IF pc'[d] = "waiting" THEN <<d>> ELSE << >>
                 /\ pc'[d] = "waiting" => callStates'[id].queue = << >>
        <3>1. CASE id = mine
            BY <1>8, <2>1, <2>3, <3>1 DEF Registered
        <3>2. CASE id # mine
            <4>1. rpcs[id].call \in Calls \ {c} /\ callStates'[id] = states[id]
                  /\ id \in DOMAIN states
                BY <1>4, <2>3, <3>2
            <4> QED  BY <1>1, <4>1 DEF ReadyFor
        <3> QED  BY <3>1, <3>2
    <2>5. \A d \in Calls : pc'[d] = "waiting" => callId[d] \in DOMAIN callStates'
        BY <1>1, <1>8, <2>3 DEF ReadyFor
    <2>6. QueuesOwn(callStates)'
        BY <1>8, <2>3 DEF QueuesOwn
    <2> QED  BY <2>4, <2>5, <2>6 DEF EntryInv, WaiterDiscipline, CallStatesReclaimed
<1> QED  BY <1>6, <1>7, <1>8

(* A call whose function runs and has an entry finds nobody waiting in it. *)
LEMMA ReadyNow ==
    ASSUME TypeOK, EntryInv, NEW c \in Calls, pc[c] # "waiting"
    PROVE  ReadyFor(c, callStates)
    BY EntryCalls DEF EntryInv, WaiterDiscipline, ReadyFor

LEMMA ReadyCreated ==
    ASSUME TypeInv, IdInv, EntryInv, NEW c \in Calls, pc[c] = "created"
    PROVE  LET states == CreateCall(callStates, callId[c]) IN
           /\ IsMap(states, CallState) /\ ReadyFor(c, states) /\ QueuesOwn(states)
           /\ rpcs[callId[c]].call = c /\ callId[c] \in DOMAIN rpcs
<1> DEFINE mine == callId[c]
           states == CreateCall(callStates, mine)
<1>1. mine \in CallIds /\ mine \in DOMAIN rpcs /\ rpcs[mine].call = c
    BY DEF TypeInv, IdInv
<1>2. NoEvents \in CallState /\ NoEvents.waiter = << >> /\ NoEvents.queue = << >>
    BY DEF NoEvents, CallState
<1>3. IsMap(callStates, CallState)
    BY DEF TypeInv, TypeOK, IsMap
<1>4. /\ IsMap(states, CallState) /\ DOMAIN states = DOMAIN callStates \cup {mine}
      /\ states[mine] = NoEvents
      /\ \A i \in DOMAIN callStates \ {mine} : states[i] = callStates[i]
    <2>1. states = Put(callStates, mine, NoEvents)
        BY DEF CreateCall
    <2>2. IsMap(states, CallState)
        BY <1>1, <1>2, <1>3, PutIsMap DEF CreateCall
    <2>3. /\ DOMAIN states = DOMAIN callStates \cup {mine} /\ states[mine] = NoEvents
          /\ \A i \in DOMAIN callStates \ {mine} : states[i] = callStates[i]
        BY <2>1 DEF Put
    <2> QED  BY <2>2, <2>3
<1>5. ReadyFor(c, callStates)
    BY ReadyNow DEF TypeInv
<1> HIDE DEF states
<1>6. ReadyFor(c, states)
    BY <1>1, <1>2, <1>4, <1>5 DEF ReadyFor
<1>7. QueuesOwn(states)
    BY <1>2, <1>4 DEF QueuesOwn, EntryInv
<1> QED  BY <1>1, <1>4, <1>6, <1>7 DEF states

(* Abandoning a call removes its entry, and no other. *)
LEMMA EntryAbandoned ==
    ASSUME TypeOK, IdInv, EntryInv, NEW c \in Calls, pc[c] \in {"resumed", "yielded"},
           callStates' = AbandonCall(callStates, callId[c]),
           pc' = [pc EXCEPT ![c] = pc'[c]], pc'[c] \in Settled,
           UNCHANGED <<rpcs, callId>>
    PROVE  EntryInv'
<1>1. /\ DOMAIN callStates' = DOMAIN callStates \ {callId[c]}
      /\ \A id \in DOMAIN callStates' : callStates'[id] = callStates[id]
    BY DEF AbandonCall, Remove
<1>2. \A d \in Calls \ {c} : pc'[d] = pc[d]
    BY DEF TypeOK
<1>3. \A id \in DOMAIN callStates' : rpcs[id].call \in Calls \ {c}
    BY <1>1, EntryCalls
<1>4. \A d \in Calls : pc'[d] = "waiting" => d # c /\ callId[d] # callId[c]
    BY <1>2 DEF Settled, Registered, IdInv
<1>5. \A d \in Calls : pc'[d] = "waiting" => callId[d] \in DOMAIN callStates'
    BY <1>1, <1>2, <1>4 DEF EntryInv, WaiterDiscipline
<1>6. QueuesOwn(callStates)'
    BY <1>1 DEF EntryInv, QueuesOwn
<1>7. ASSUME NEW id \in DOMAIN callStates'
      PROVE  LET d == rpcs[id].call IN
             /\ id \in DOMAIN rpcs /\ callId[d] = id /\ pc'[d] \in Registered
             /\ callStates'[id].waiter = IF pc'[d] = "waiting" THEN <<d>> ELSE << >>
             /\ pc'[d] = "waiting" => callStates'[id].queue = << >>
    <2>1. id \in DOMAIN callStates /\ callStates'[id] = callStates[id]
          /\ pc'[rpcs[id].call] = pc[rpcs[id].call]
        BY <1>1, <1>2, <1>3
    <2> QED  BY <2>1, EntryCalls DEF EntryInv, WaiterDiscipline
<1> QED  BY <1>5, <1>6, <1>7 DEF EntryInv, WaiterDiscipline, CallStatesReclaimed

(* An event is handed to the call that waits for it, or queued for it. *)
LEMMA EntryEvent ==
    ASSUME TypeInv, IdInv, EntryInv, NEW event \in CallEvent, OnCallEvent(event),
           UNCHANGED <<rpcs, callId>>
    PROVE  EntryInv'
<1> DEFINE mine == event.callId
           c == rpcs[mine].call
<1>t. TypeOK
    BY DEF TypeInv
<1>1. CASE mine \notin DOMAIN callStates
    <2>1. UNCHANGED <<callStates, pc>>
        BY <1>1 DEF OnCallEvent
    <2> QED  BY <1>t, <2>1, EntryFrame
<1>2. CASE mine \in DOMAIN callStates /\ callStates[mine].waiter = << >>
    <2>1. callStates' = [callStates EXCEPT ![mine].queue = Append(@, event)] /\ UNCHANGED pc
        BY <1>2 DEF OnCallEvent
    <2>2. callStates[mine] \in CallState /\ pc[c] # "waiting"
        <3>1. callStates[mine].waiter = IF pc[c] = "waiting" THEN <<c>> ELSE << >>
            BY <1>2 DEF EntryInv, WaiterDiscipline
        <3>2. <<c>> # << >>
            OBVIOUS
        <3> QED  BY <1>2, <1>t, <3>1, <3>2, EntryCalls
    <2>3. callStates[mine].queue \in Seq(CallEvent)
        BY <2>2, CallStateUpdates
    <2> DEFINE queue == callStates[mine].queue
    <2>4. /\ DOMAIN callStates' = DOMAIN callStates
          /\ callStates'[mine].queue = Append(queue, event)
          /\ callStates'[mine].waiter = << >>
          /\ \A id \in DOMAIN callStates \ {mine} : callStates'[id] = callStates[id]
        BY <1>2, <2>1, <2>2 DEF CallState
    <2>5. /\ \A i \in 1 .. Len(queue) : Append(queue, event)[i] = queue[i]
          /\ Append(queue, event)[Len(queue) + 1] = event
          /\ Len(Append(queue, event)) = Len(queue) + 1 /\ Len(queue) \in Nat
        BY <2>3, AppendAt
    <2>6. \A i \in 1 .. Len(Append(queue, event)) : i \in 1 .. Len(queue) \/ i = Len(queue) + 1
        BY <2>5
    <2>7. QueuesOwn(callStates)'
        <3> DEFINE longer == Append(queue, event)
        <3>1. \A i \in 1 .. Len(queue) : queue[i].callId = mine
            BY <1>2 DEF EntryInv, QueuesOwn
        <3>2. /\ \A i \in 1 .. Len(queue) : longer[i] = queue[i]
              /\ longer[Len(queue) + 1] = event
              /\ \A i \in 1 .. Len(longer) : i \in 1 .. Len(queue) \/ i = Len(queue) + 1
            BY <2>5, <2>6
        <3>3. callStates'[mine].queue = longer
            BY <2>4
        <3> HIDE DEF longer, queue
        <3>4. \A i \in 1 .. Len(longer) : longer[i].callId = mine
            BY <3>1, <3>2
        <3>5. \A id \in DOMAIN callStates' \ {mine} :
                  id \in DOMAIN callStates /\ callStates'[id] = callStates[id]
            BY <2>4
        <3>6. \A id \in DOMAIN callStates' \ {mine} : \A i \in 1 .. Len(callStates'[id].queue) :
                  callStates'[id].queue[i].callId = id
            BY <3>5 DEF EntryInv, QueuesOwn
        <3> QED  BY <3>3, <3>4, <3>6 DEF QueuesOwn
    <2>8. ASSUME NEW id \in DOMAIN callStates'
          PROVE  LET d == rpcs[id].call IN
                 /\ id \in DOMAIN rpcs /\ callId[d] = id /\ pc[d] \in Registered
                 /\ callStates'[id].waiter = IF pc[d] = "waiting" THEN <<d>> ELSE << >>
                 /\ pc[d] = "waiting" => callStates'[id].queue = << >>
        <3>1. CASE id = mine
            BY <1>2, <1>t, <2>2, <2>4, <3>1, EntryCalls
        <3>2. CASE id # mine
            BY <1>t, <2>4, <3>2, EntryCalls DEF EntryInv, WaiterDiscipline
        <3> QED  BY <3>1, <3>2
    <2>9. \A d \in Calls : pc[d] = "waiting" => callId[d] \in DOMAIN callStates'
        BY <2>4 DEF EntryInv, WaiterDiscipline
    <2> QED  BY <2>1, <2>7, <2>8, <2>9 DEF EntryInv, WaiterDiscipline, CallStatesReclaimed
<1>3. CASE mine \in DOMAIN callStates /\ callStates[mine].waiter # << >>
    <2> DEFINE rest == [callStates EXCEPT ![mine].waiter = << >>]
    <2>1. callStates' = CheckComplete(rest, event)
          /\ pc' = [d \in Calls |-> IF d \in Waiters(callStates[mine]) THEN "resumed" ELSE pc[d]]
        BY <1>3 DEF OnCallEvent
    <2>2. /\ callStates[mine] \in CallState /\ c \in Calls /\ callId[c] = mine
          /\ callStates[mine].waiter = <<c>> /\ pc[c] = "waiting"
        BY <1>3, <1>t, EntryCalls DEF EntryInv, WaiterDiscipline
    <2>3. Waiters(callStates[mine]) = {c}
        BY <2>2 DEF Waiters
    <2>4. pc'[c] = "resumed" /\ \A d \in Calls \ {c} : pc'[d] = pc[d]
        BY <2>1, <2>2, <2>3
    <2>5. /\ DOMAIN rest = DOMAIN callStates /\ rest[mine].waiter = << >>
          /\ \A id \in DOMAIN callStates : rest[id].queue = callStates[id].queue
                                           /\ (id # mine => rest[id] = callStates[id])
        BY <1>3, <2>2 DEF CallState
    <2>6. callStates' = rest \/ callStates' = Remove(rest, mine)
        BY <2>1 DEF CheckComplete
    <2> HIDE DEF rest
    <2>7. /\ DOMAIN callStates' \in {DOMAIN callStates, DOMAIN callStates \ {mine}}
          /\ \A id \in DOMAIN callStates' : callStates'[id] = rest[id]
        BY <2>5, <2>6 DEF Remove
    <2>8. QueuesOwn(callStates)'
        BY <2>5, <2>7 DEF EntryInv, QueuesOwn
    <2>9. \A d \in Calls \ {c} : pc[d] = "waiting" => callId[d] # mine
        BY <2>2 DEF IdInv, Registered
    <2>10. \A d \in Calls : pc'[d] = "waiting" => callId[d] \in DOMAIN callStates'
        BY <2>4, <2>7, <2>9 DEF EntryInv, WaiterDiscipline
    <2>11. ASSUME NEW id \in DOMAIN callStates'
           PROVE  LET d == rpcs[id].call IN
                  /\ id \in DOMAIN rpcs /\ callId[d] = id /\ pc'[d] \in Registered
                  /\ callStates'[id].waiter = IF pc'[d] = "waiting" THEN <<d>> ELSE << >>
                  /\ pc'[d] = "waiting" => callStates'[id].queue = << >>
        <3>0. id \in DOMAIN callStates /\ id \in DOMAIN rpcs /\ rpcs[id].call \in Calls
              /\ callId[rpcs[id].call] = id /\ pc[rpcs[id].call] \in Registered
            BY <1>t, <2>7, EntryCalls
        <3>1. CASE id = mine
            <4>1. callStates'[id].waiter = << >>
                BY <2>5, <2>7, <3>1
            <4> QED  BY <2>2, <2>4, <3>0, <3>1, <4>1 DEF Registered
        <3>2. CASE id # mine
            <4>1. callStates'[id] = callStates[id] /\ pc'[rpcs[id].call] = pc[rpcs[id].call]
                BY <2>2, <2>4, <2>5, <2>7, <3>0, <3>2
            <4> QED  BY <3>0, <4>1 DEF EntryInv, WaiterDiscipline
        <3> QED  BY <3>1, <3>2
    <2> QED  BY <2>8, <2>10, <2>11 DEF EntryInv, WaiterDiscipline, CallStatesReclaimed
<1> QED  BY <1>1, <1>2, <1>3

(* A step of a call's function keeps EntryInv: it awaits an event, or      *)
(* leaves its try block and abandons the call, or yields a message.        *)
LEMMA EntryCallStep ==
    ASSUME TypeInv, IdInv, EntryInv, NEW c \in Calls, CallStep(c)
    PROVE  EntryInv'
<1>t. /\ TypeOK /\ IsMap(callStates, CallState)
      /\ pc \in [Calls -> {"idle", "yielded"} \cup InFlight \cup Settled]
    BY DEF TypeInv, TypeOK, IsMap
<1>u. UNCHANGED <<rpcs, callId>>
    BY CallStepFrame
<1>i. pc[c] \in {"created"} \cup Registered => rpcs[callId[c]].call = c /\ callId[c] \in DOMAIN rpcs
    BY DEF IdInv
<1>1. ASSUME pc[c] \in {"yielded", "resumed"}, WaitForCallEvent(c, callStates)
      PROVE  EntryInv'
    <2>1. ReadyFor(c, callStates) /\ QueuesOwn(callStates)
        BY <1>t, <1>1, ReadyNow DEF EntryInv
    <2> QED  BY <1>t, <1>u, <1>i, <1>1, <2>1, EntryWait DEF Registered
<1>2. ASSUME NEW o \in Settled, pc[c] \in {"yielded", "resumed"}, pc' = [pc EXCEPT ![c] = o],
             callStates' = AbandonCall(callStates, callId[c])
      PROVE  EntryInv'
    <2>1. pc'[c] = o
        BY <1>t, <1>2
    <2>2. pc' = [pc EXCEPT ![c] = pc'[c]]
        BY <1>2, <2>1
    <2> QED  BY <1>t, <1>u, <1>2, <2>1, <2>2, EntryAbandoned
<1>3. ASSUME pc[c] = "resumed", pc' = [pc EXCEPT ![c] = "yielded"], UNCHANGED callStates
      PROVE  EntryInv'
    <2>1. pc'[c] = "yielded" /\ \A d \in Calls \ {c} : pc'[d] = pc[d]
        BY <1>t, <1>3
    <2>2. \A d \in Calls : (pc[d] \in Registered => pc'[d] \in Registered)
                           /\ (pc'[d] = "waiting" <=> pc[d] = "waiting")
        BY <1>3, <2>1 DEF Registered
    <2> QED  BY <1>t, <1>u, <1>3, <2>2, EntryFrame
<1>4. CASE Pull(c)
    BY <1>1, <1>4 DEF Pull
<1>5. CASE Return(c)
    BY <1>2, <1>5 DEF Return, Settled
<1>6. CASE Register(c)
    <2>1. pc[c] = "created" /\ WaitForCallEvent(c, CreateCall(callStates, callId[c]))
        BY <1>6 DEF Register
    <2> QED  BY <1>u, <2>1, ReadyCreated, EntryWait
<1>7. CASE ResumeUnary(c)
    <2>1. /\ pc[c] = "resumed"
          /\ Settle(c, "returned") \/ Settle(c, "threw") \/ WaitForCallEvent(c, callStates)
        BY <1>7 DEF ResumeUnary
    <2> QED  BY <1>1, <1>2, <2>1 DEF Settle, Settled
<1>8. CASE ResumeStream(c)
    <2>1. /\ pc[c] = "resumed"
          /\ \/ Settle(c, "returned") \/ Settle(c, "threw")
             \/ pc' = [pc EXCEPT ![c] = "yielded"] /\ UNCHANGED callStates
        BY <1>8 DEF ResumeStream
    <2> QED  BY <1>2, <1>3, <2>1 DEF Settle, Settled
<1> QED  BY <1>4, <1>5, <1>6, <1>7, <1>8 DEF CallStep, Microtask

(* EntryInv is preserved by every step. *)
LEMMA EntryStep == TypeInv /\ TokenInv /\ IdInv /\ EntryInv /\ [Next]_vars => EntryInv'
<1> SUFFICES ASSUME TypeInv, TokenInv, IdInv, EntryInv, [Next]_vars
             PROVE  EntryInv'
    OBVIOUS
<1>t. TypeOK /\ pc \in [Calls -> {"idle", "yielded"} \cup InFlight \cup Settled]
      /\ callId \in [Calls -> Nat]
    BY DEF TypeInv, TypeOK
<1>1. ASSUME NEW c \in Calls, StartCall(c)
      PROVE  EntryInv'
    <2>1. UNCHANGED <<callId, rpcs, callStates>> /\ pc' = [pc EXCEPT ![c] = "creating"]
          /\ pc[c] = "idle"
        BY <1>1 DEF StartCall
    <2>2. \A d \in Calls : (pc[d] \in Registered => pc'[d] \in Registered)
                           /\ (pc'[d] = "waiting" <=> pc[d] = "waiting")
        BY <1>t, <2>1 DEF Registered
    <2> QED  BY <1>t, <2>1, <2>2, EntryFrame
<1>2. ASSUME NEW c \in Calls, CallStep(c)
      PROVE  EntryInv'
    BY <1>2, EntryCallStep
<1>3. CASE \/ \E p \in Pings : Ping(p)
           \/ \E c \in Calls : NativeCreateCall(c)
           \/ Shutdown \/ TakePong \/ TakeSent \/ RunPing \/ RunEmit \/ UNCHANGED vars
    <2>1. UNCHANGED <<callId, rpcs, callStates, pc>>
        BY <1>3 DEF Ping, NativeCreateCall, Shutdown, TakePong, TakeSent, Take, RunPing,
                    RunEmit, RunTask, vars, jsVars, nativeVars
    <2> QED  BY <1>t, <2>1, EntryFrame
<1>4. CASE TakeCreated \/ TakeRejected
    <2> DEFINE c == Head(toJs).call
    <2>1. /\ toJs # << >> /\ IsAnswer(Head(toJs)) /\ UNCHANGED <<rpcs, callStates>>
          /\ pc' = [pc EXCEPT ![c] = "created"] \/ pc' = [pc EXCEPT ![c] = "threw"]
          /\ callId' = [callId EXCEPT ![c] = Head(toJs).id] \/ callId' = callId
        BY <1>4 DEF TakeCreated, TakeRejected, Take, IsAnswer
    <2>2. toJs \in Seq(JsMessage)
        BY <1>t DEF TypeOK
    <2>3. pc[c] = "creating"
        <3>1. Head(toJs) = toJs[1] /\ 1 \in 1 .. Len(toJs)
            BY <2>1, <2>2, TailAt
        <3> QED  BY <2>1, <3>1 DEF TokenInv
    <2> HIDE DEF c
    <2>4. \A d \in Calls : /\ pc[d] \in Registered =>
                                pc'[d] \in Registered /\ callId'[d] = callId[d]
                           /\ pc'[d] = "waiting" <=> pc[d] = "waiting"
        BY <1>t, <2>1, <2>3 DEF Registered
    <2> QED  BY <1>t, <2>1, <2>4, EntryFrame
<1>5. CASE TakeEvent
    <2>1. /\ UNCHANGED <<callId, rpcs>> /\ Head(toJs).event \in CallEvent
          /\ OnCallEvent(Head(toJs).event) \/ UNCHANGED <<callStates, pc>>
        BY <1>5, <1>t, HeadTypes DEF TakeEvent, Take
    <2>2. CASE OnCallEvent(Head(toJs).event)
        BY <2>1, <2>2, EntryEvent
    <2>3. CASE UNCHANGED <<callStates, pc>>
        BY <1>t, <2>1, <2>3, EntryFrame
    <2> QED  BY <2>1, <2>2, <2>3
<1>6. CASE RunCreateCall
    <2>1. /\ UNCHANGED <<callId, pc, callStates>> /\ DOMAIN rpcs \subseteq DOMAIN rpcs'
          /\ \A i \in DOMAIN rpcs : rpcs'[i] = rpcs[i]
        BY <1>6, IdCreated
    <2> QED  BY <1>t, <2>1, EntryFrame
<1>7. CASE Network
    <2>1. UNCHANGED <<callId, callStates, pc>>
        BY <1>7 DEF Network, OnNext, OnCompleted, OnError, Submit, jsVars
    <2>2. DOMAIN rpcs' = DOMAIN rpcs /\ \A i \in DOMAIN rpcs : rpcs'[i].call = rpcs[i].call
        BY <1>7, <1>t, NetworkEvent
    <2> QED  BY <1>t, <2>1, <2>2, EntryFrame
<1> QED
    BY <1>1, <1>2, <1>3, <1>4, <1>5, <1>6, <1>7
       DEF Next, Application, System, JsTask, Executor, CallStep

LEMMA BridgeInit == Init => BridgeInv
<1> SUFFICES ASSUME Init
             PROVE  BridgeInv
    OBVIOUS
<1>1. TokenInv
    BY DEF Init, TokenInv
<1>2. IdInv
    BY DEF Init, IdInv, Registered
<1>3. EntryInv
    BY DEF Init, EntryInv, WaiterDiscipline, CallStatesReclaimed, QueuesOwn
<1> QED  BY <1>1, <1>2, <1>3, TypeInit DEF BridgeInv

LEMMA BridgeStep == BridgeInv /\ [Next]_vars => BridgeInv'
    BY TypeStep, TokenStep, IdStep, EntryStep DEF BridgeInv, EntryInv

LEMMA BridgeCorrect == Spec => []BridgeInv
    BY BridgeInit, BridgeStep, PTL DEF Spec

(* Whatever the interleaving of the three threads, an entry of callStates  *)
(* holds queued events or the one call it belongs to, never both, and a    *)
(* suspended call has its entry.                                           *)
THEOREM WaitersCorrect == Spec => []WaiterDiscipline
<1>1. BridgeInv => WaiterDiscipline
    BY DEF BridgeInv, EntryInv
<1> QED  BY <1>1, BridgeCorrect, PTL

(* callStates leaks no entry: each belongs to a call whose function is     *)
(* still in its try block.                                                 *)
THEOREM EntriesReclaimed == Spec => []CallStatesReclaimed
<1>1. BridgeInv => CallStatesReclaimed
    BY DEF BridgeInv, EntryInv
<1> QED  BY <1>1, BridgeCorrect, PTL
=============================================================================
