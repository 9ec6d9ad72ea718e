---------------------- MODULE GrpcBridgeDelivery_proofs ----------------------
(***************************************************************************)
(* Proofs about what GrpcBridge delivers, for every set of calls and pings,*)
(* any number of messages and both platforms: activeCalls is exact, no     *)
(* message is lost, repeated or overtaken, and the bridge implements       *)
(* CallService.                                                            *)
(***************************************************************************)
EXTENDS GrpcBridgeRefinement, GrpcBridge_proofs

-----------------------------------------------------------------------------
(* Queues of numbers.  Of the events of one call, the n-th has the number  *)
(* n; the events of other calls have none, written 0.                      *)

(* The queue holds the numbers after lo up to hi, once each, in order. *)
Carries(numbers, lo, hi) ==
    /\ lo \in Nat /\ hi \in Nat /\ lo <= hi
    /\ \A n \in lo + 1 .. hi : \E i \in 1 .. Len(numbers) : numbers[i] = n
    /\ \A i \in 1 .. Len(numbers) : numbers[i] # 0 => numbers[i] \in lo + 1 .. hi
    /\ \A i, j \in 1 .. Len(numbers) :
          i < j /\ numbers[i] # 0 /\ numbers[j] # 0 => numbers[i] < numbers[j]

LEMMA CarriesNone ==
    ASSUME NEW numbers \in Seq(Nat), NEW lo \in Nat,
           \A i \in 1 .. Len(numbers) : numbers[i] = 0
    PROVE  Carries(numbers, lo, lo)
    BY DEF Carries

(* Without a number of its own, a queue ends where it begins. *)
LEMMA CarriesEmpty ==
    ASSUME NEW lo, NEW hi, Carries(<< >>, lo, hi)
    PROVE  lo = hi
<1>1. lo \in Nat /\ hi \in Nat /\ lo <= hi
    BY DEF Carries
<1>2. ASSUME lo < hi PROVE FALSE
  <2>1. hi \in lo + 1 .. hi
      BY <1>1, <1>2
  <2>2. 1 .. Len(<< >>) = {}
      OBVIOUS
  <2> QED  BY <2>1, <2>2 DEF Carries
<1> QED  BY <1>1, <1>2

(* A number that is not the call's comes, or the next one. *)
LEMMA CarriesAppend ==
    ASSUME NEW numbers \in Seq(Nat), NEW lo, NEW hi, Carries(numbers, lo, hi),
           NEW n \in {0, hi + 1}
    PROVE  Carries(Append(numbers, n), lo, IF n = 0 THEN hi ELSE hi + 1)
<1> DEFINE more == Append(numbers, n)
           last == Len(numbers) + 1
<1>1. lo \in Nat /\ hi \in Nat /\ lo <= hi /\ n \in Nat
    BY DEF Carries
<1>2. /\ Len(numbers) \in Nat /\ Len(more) = last /\ more[last] = n
      /\ \A i \in 1 .. Len(numbers) : more[i] = numbers[i]
    BY <1>1
<1> HIDE DEF more
<1>3. \A i \in 1 .. Len(more) : i \in 1 .. Len(numbers) \/ i = last
    BY <1>2
<1>4. CASE n = 0
  <2>1. \A m \in lo + 1 .. hi : \E i \in 1 .. Len(more) : more[i] = m
    <3> SUFFICES ASSUME NEW m \in lo + 1 .. hi PROVE \E i \in 1 .. Len(more) : more[i] = m
        OBVIOUS
    <3>1. PICK i \in 1 .. Len(numbers) : numbers[i] = m
        BY DEF Carries
    <3>2. i \in 1 .. Len(more)
        BY <1>2
    <3> QED  BY <1>2, <3>1, <3>2
  <2>2. \A i \in 1 .. Len(more) : more[i] # 0 => more[i] \in lo + 1 .. hi
      BY <1>2, <1>3, <1>4 DEF Carries
  <2>3. \A i, j \in 1 .. Len(more) : i < j /\ more[i] # 0 /\ more[j] # 0 => more[i] < more[j]
      BY <1>2, <1>3, <1>4 DEF Carries
  <2> QED  BY <1>1, <1>4, <2>1, <2>2, <2>3 DEF Carries, more
<1>5. CASE n = hi + 1
  <2>1. \A m \in lo + 1 .. hi + 1 : \E i \in 1 .. Len(more) : more[i] = m
    <3> SUFFICES ASSUME NEW m \in lo + 1 .. hi + 1
                 PROVE  \E i \in 1 .. Len(more) : more[i] = m
        OBVIOUS
    <3>1. CASE m = hi + 1
        BY <1>2, <1>5, <3>1
    <3>2. CASE m # hi + 1
      <4>1. m \in lo + 1 .. hi
          BY <1>1, <3>2
      <4>2. PICK i \in 1 .. Len(numbers) : numbers[i] = m
          BY <4>1 DEF Carries
      <4>3. i \in 1 .. Len(more)
          BY <1>2
      <4> QED  BY <1>2, <4>2, <4>3
    <3> QED  BY <3>1, <3>2
  <2>2. \A i \in 1 .. Len(more) : more[i] # 0 => more[i] \in lo + 1 .. hi + 1
    <3>1. \A i \in 1 .. Len(numbers) : numbers[i] # 0 => numbers[i] \in lo + 1 .. hi + 1
        BY <1>1 DEF Carries
    <3> QED  BY <1>1, <1>2, <1>3, <1>5, <3>1
  <2>3. ASSUME NEW i \in 1 .. Len(more), NEW j \in 1 .. Len(more), i < j,
               more[i] # 0, more[j] # 0
        PROVE  more[i] < more[j]
    <3>1. i \in 1 .. Len(numbers)
        BY <1>2, <2>3
    <3>2. CASE j = last
      <4>1. numbers[i] \in lo + 1 .. hi
          BY <1>2, <2>3, <3>1 DEF Carries
      <4> QED  BY <1>1, <1>2, <1>5, <3>1, <3>2, <4>1
    <3>3. CASE j \in 1 .. Len(numbers)
        BY <1>2, <2>3, <3>1, <3>3 DEF Carries
    <3> QED  BY <1>3, <3>2, <3>3
  <2>4. hi + 1 \in Nat /\ lo <= hi + 1 /\ n # 0
      BY <1>1, <1>5
  <2> QED  BY <1>1, <2>1, <2>2, <2>3, <2>4 DEF Carries, more
<1> QED  BY <1>4, <1>5

(* The first entry goes: if it has a number, that is the first one. *)
LEMMA CarriesTail ==
    ASSUME NEW numbers \in Seq(Nat), numbers # << >>, NEW lo, NEW hi, Carries(numbers, lo, hi)
    PROVE  /\ Head(numbers) = 0 => Carries(Tail(numbers), lo, hi)
           /\ Head(numbers) # 0 => /\ Head(numbers) = lo + 1 /\ lo + 1 <= hi
                                   /\ Carries(Tail(numbers), lo + 1, hi)
<1> DEFINE rest == Tail(numbers)
<1>1. lo \in Nat /\ hi \in Nat /\ lo <= hi
    BY DEF Carries
<1>2. /\ Len(numbers) \in Nat \ {0} /\ Len(rest) = Len(numbers) - 1
      /\ \A i \in 1 .. Len(rest) : i + 1 \in 1 .. Len(numbers) /\ rest[i] = numbers[i + 1]
      /\ Head(numbers) = numbers[1] /\ 1 \in 1 .. Len(numbers)
    OBVIOUS
<1>3. \A i \in 2 .. Len(numbers) : i - 1 \in 1 .. Len(rest) /\ rest[i - 1] = numbers[i]
  <2> SUFFICES ASSUME NEW i \in 2 .. Len(numbers)
               PROVE  i - 1 \in 1 .. Len(rest) /\ rest[i - 1] = numbers[i]
      OBVIOUS
  <2>1. i - 1 \in 1 .. Len(rest) /\ (i - 1) + 1 = i
      BY <1>2
  <2> QED  BY <1>2, <2>1
<1> HIDE DEF rest
<1>4. \A i, j \in 1 .. Len(rest) : i < j /\ rest[i] # 0 /\ rest[j] # 0 => rest[i] < rest[j]
  <2> SUFFICES ASSUME NEW i \in 1 .. Len(rest), NEW j \in 1 .. Len(rest), i < j,
                      rest[i] # 0, rest[j] # 0
               PROVE  rest[i] < rest[j]
      OBVIOUS
  <2>1. i + 1 \in 1 .. Len(numbers) /\ j + 1 \in 1 .. Len(numbers) /\ i + 1 < j + 1
      BY <1>2
  <2> QED  BY <1>2, <2>1 DEF Carries
<1>5. ASSUME Head(numbers) = 0
      PROVE  Carries(rest, lo, hi)
  <2>1. ASSUME NEW n \in lo + 1 .. hi
        PROVE  \E i \in 1 .. Len(rest) : rest[i] = n
    <3>1. PICK i \in 1 .. Len(numbers) : numbers[i] = n
        BY DEF Carries
    <3>2. i \in 2 .. Len(numbers)
        BY <1>1, <1>2, <1>5, <3>1
    <3> QED  BY <1>3, <3>1, <3>2
  <2>2. \A i \in 1 .. Len(rest) : rest[i] # 0 => rest[i] \in lo + 1 .. hi
      BY <1>2 DEF Carries
  <2> QED  BY <1>1, <1>4, <2>1, <2>2 DEF Carries
<1>6. ASSUME Head(numbers) # 0
      PROVE  /\ Head(numbers) = lo + 1 /\ lo + 1 <= hi
             /\ Carries(rest, lo + 1, hi)
  <2>1. numbers[1] \in lo + 1 .. hi
      BY <1>2, <1>6 DEF Carries
  <2>2. lo + 1 \in lo + 1 .. hi /\ lo + 1 \in Nat
      BY <1>1, <2>1
  <2>3. PICK k \in 1 .. Len(numbers) : numbers[k] = lo + 1
      BY <2>2 DEF Carries
  <2>4. k = 1
    <3>1. SUFFICES ASSUME 1 < k PROVE FALSE
        BY <1>2
    <3>2. numbers[1] < numbers[k]
        BY <1>1, <1>2, <1>6, <2>3, <3>1 DEF Carries
    <3> QED  BY <1>1, <2>1, <2>3, <3>2
  <2>5. ASSUME NEW n \in (lo + 1) + 1 .. hi
        PROVE  \E i \in 1 .. Len(rest) : rest[i] = n
    <3>1. n \in lo + 1 .. hi /\ n # lo + 1
        BY <1>1
    <3>2. PICK i \in 1 .. Len(numbers) : numbers[i] = n
        BY <3>1 DEF Carries
    <3>3. i \in 2 .. Len(numbers)
        BY <1>2, <2>3, <2>4, <3>1, <3>2
    <3> QED  BY <1>3, <3>2, <3>3
  <2>6. ASSUME NEW i \in 1 .. Len(rest), rest[i] # 0
        PROVE  rest[i] \in (lo + 1) + 1 .. hi
    <3>1. i + 1 \in 1 .. Len(numbers) /\ 1 < i + 1 /\ rest[i] = numbers[i + 1]
        BY <1>2
    <3>2. numbers[1] < numbers[i + 1] /\ numbers[i + 1] \in lo + 1 .. hi
        BY <1>2, <1>6, <2>6, <3>1 DEF Carries
    <3> QED  BY <1>1, <2>3, <2>4, <3>1, <3>2
  <2> QED  BY <1>1, <1>2, <1>4, <2>1, <2>2, <2>3, <2>4, <2>5, <2>6 DEF Carries
<1> QED  BY <1>5, <1>6 DEF rest
-----------------------------------------------------------------------------
(* What gRPC reports                                                       *)

Closed == {"ended", "failed"}

(* An event says what gRPC has reported of its call. *)
Sound(e, calls) ==
    /\ e.callId \in DOMAIN calls
    /\ e.type = "receive" => e.message \in 1 .. calls[e.callId].sent
    /\ e.type = "end" => e = End(e.callId) /\ calls[e.callId].status = "ended"
    /\ e.type = "fail" => e = Fail(e.callId) /\ calls[e.callId].status = "failed"

(* One report of the network. *)
LEMMA NetworkCases ==
    ASSUME TypeOK, NEW id \in DOMAIN rpcs, OnNext(id) \/ OnCompleted(id) \/ OnError(id)
    PROVE  /\ UNCHANGED <<jsVars, toNative, platform, nextId, activeCalls, toJs>>
           /\ DOMAIN rpcs' = DOMAIN rpcs
           /\ \A i \in DOMAIN rpcs \ {id} : rpcs'[i] = rpcs[i]
           /\ rpcs'[id].call = rpcs[id].call
           /\ \E e \in CallEvent :
                 /\ executor' = Append(executor, EmitTask(e)) /\ e.callId = id
                 /\ \/ /\ e.type = "receive" /\ e.message = rpcs[id].sent + 1
                       /\ rpcs'[id].sent = rpcs[id].sent + 1
                       /\ rpcs[id].status = "running" /\ rpcs'[id].status = "running"
                    \/ /\ e = End(id) /\ e.type = "end" /\ rpcs'[id].sent = rpcs[id].sent
                       /\ rpcs[id].status \in {"running", "aborted"}
                       /\ rpcs'[id].status = "ended"
                    \/ /\ e = Fail(id) /\ e.type = "fail" /\ rpcs'[id].sent = rpcs[id].sent
                       /\ rpcs[id].status \in {"running", "aborted"}
                       /\ rpcs'[id].status = "failed"
<1>1. id \in CallIds /\ rpcs[id] \in RpcState /\ rpcs[id].sent + 1 \in Nat
    BY DEF TypeOK, RpcState
<1>2. UNCHANGED <<jsVars, toNative, platform, nextId, activeCalls, toJs>>
    BY DEF OnNext, OnCompleted, OnError, Submit
<1>3. CASE OnNext(id)
  <2>1. rpcs' = [rpcs EXCEPT ![id].sent = @ + 1] /\ rpcs[id].status = "running"
        /\ executor' = Append(executor, EmitTask(Receive(id, rpcs[id].sent + 1)))
      BY <1>3 DEF OnNext, Submit
  <2>2. Receive(id, rpcs[id].sent + 1) \in CallEvent
      BY <1>1, MessageTypes
  <2>3. /\ Receive(id, rpcs[id].sent + 1).type = "receive"
        /\ Receive(id, rpcs[id].sent + 1).callId = id
        /\ Receive(id, rpcs[id].sent + 1).message = rpcs[id].sent + 1
      BY DEF Receive
  <2>4. /\ DOMAIN rpcs' = DOMAIN rpcs /\ \A i \in DOMAIN rpcs \ {id} : rpcs'[i] = rpcs[i]
        /\ rpcs'[id].call = rpcs[id].call /\ rpcs'[id].sent = rpcs[id].sent + 1
        /\ rpcs'[id].status = "running"
      BY <1>1, <2>1 DEF RpcState
  <2> QED  BY <1>2, <2>1, <2>2, <2>3, <2>4
<1>4. ASSUME NEW s \in Closed, rpcs' = [rpcs EXCEPT ![id].status = s]
      PROVE  /\ DOMAIN rpcs' = DOMAIN rpcs /\ \A i \in DOMAIN rpcs \ {id} : rpcs'[i] = rpcs[i]
             /\ rpcs'[id].call = rpcs[id].call /\ rpcs'[id].sent = rpcs[id].sent
             /\ rpcs'[id].status = s
    BY <1>1, <1>4 DEF RpcState
<1>5. CASE OnCompleted(id)
  <2>1. rpcs' = [rpcs EXCEPT ![id].status = "ended"] /\ rpcs[id].status = "running"
        /\ executor' = Append(executor, EmitTask(End(id)))
      BY <1>5 DEF OnCompleted, Submit
  <2>2. End(id) \in CallEvent /\ End(id).type = "end" /\ End(id).callId = id
      BY <1>1, MessageTypes DEF End
  <2> QED  BY <1>2, <1>4, <2>1, <2>2 DEF Closed
<1>6. CASE OnError(id)
  <2>1. rpcs' = [rpcs EXCEPT ![id].status = "failed"] /\ rpcs[id].status \in {"running", "aborted"}
        /\ executor' = Append(executor, EmitTask(Fail(id)))
      BY <1>6 DEF OnError, Submit
  <2>2. Fail(id) \in CallEvent /\ Fail(id).type = "fail" /\ Fail(id).callId = id
      BY <1>1, MessageTypes DEF Fail
  <2> QED  BY <1>2, <1>4, <2>1, <2>2 DEF Closed
<1> QED  BY <1>3, <1>5, <1>6

(* The calls gRPC was given stay, and what it reported stays reported. *)
LEMMA RpcsKept ==
    ASSUME TypeInv, IdInv, [Next]_vars
    PROVE  \A id \in DOMAIN rpcs :
              /\ id \in DOMAIN rpcs' /\ rpcs'[id].call = rpcs[id].call
              /\ rpcs[id].sent \in Nat /\ rpcs'[id].sent \in Nat
              /\ rpcs[id].sent <= rpcs'[id].sent
              /\ rpcs[id].status \in Closed => rpcs'[id] = rpcs[id]
<1>t. TypeOK /\ \A id \in DOMAIN rpcs : rpcs[id].sent \in Nat
    BY DEF TypeInv, TypeOK, RpcState
<1>1. CASE UNCHANGED rpcs
    BY <1>1, <1>t
<1>2. CASE RunCreateCall
    BY <1>2, <1>t, IdCreated
<1>3. CASE Network
  <2>1. PICK id \in DOMAIN rpcs : OnNext(id) \/ OnCompleted(id) \/ OnError(id)
      BY <1>3 DEF Network
  <2>2. /\ DOMAIN rpcs' = DOMAIN rpcs
        /\ \A i \in DOMAIN rpcs \ {id} : rpcs'[i] = rpcs[i]
        /\ rpcs'[id].call = rpcs[id].call /\ rpcs[id].status \notin Closed
        /\ rpcs'[id].sent = rpcs[id].sent + 1 \/ rpcs'[id].sent = rpcs[id].sent
      BY <1>t, <2>1, NetworkCases DEF Closed
  <2> QED  BY <1>t, <2>2
<1>4. CASE \/ \E c \in Calls : StartCall(c) \/ NativeCreateCall(c)
           \/ \E p \in Pings : Ping(p)
           \/ Shutdown \/ JsTask \/ RunPing \/ RunEmit \/ UNCHANGED vars
  <2>1. UNCHANGED rpcs
      BY <1>4 DEF StartCall, NativeCreateCall, Ping, Shutdown, JsTask, TakeCreated,
                  TakeRejected, TakeEvent, TakePong, TakeSent, Take, RunPing, RunEmit, vars
  <2> QED  BY <1>1, <2>1
<1>5. CASE \E c \in Calls : CallStep(c)
    BY <1>1, <1>5, CallStepFrame
<1> QED  BY <1>2, <1>3, <1>4, <1>5 DEF Next, Application, System, Executor, CallStep

(* What an event says stays true. *)
LEMMA StaysSound ==
    ASSUME TypeInv, IdInv, [Next]_vars
    PROVE  \A e : Sound(e, rpcs) => Sound(e, rpcs')
    BY RpcsKept DEF Sound, Closed

-----------------------------------------------------------------------------
(* activeCalls                                                             *)

EmitsSound ==
    \A i \in 1 .. Len(executor) :
        executor[i].task = "emit" => Sound(executor[i].event, rpcs)

(* The tasks that tell of the end of a call. *)
EndTasks(id) == {EmitTask(End(id)), EmitTask(Fail(id))}

EndsOnce ==
    \A i, j \in 1 .. Len(executor), id \in CallIds :
        executor[i] \in EndTasks(id) /\ executor[j] \in EndTasks(id) => i = j

ActiveInv == EmitsSound /\ EndsOnce /\ ActiveCallsTracked

Ending(tasks, id) == \E i \in 1 .. Len(tasks) : tasks[i] \in EndTasks(id)

(* activeCalls, said of the parts of the state it depends on. *)
Tracked(active, calls, tasks) ==
    active = {id \in DOMAIN calls : calls[id].status \in {"running", "aborted"} \/ Ending(tasks, id)}

LEMMA TrackedIs ==
    ASSUME TypeOK
    PROVE  ActiveCallsTracked <=> Tracked(activeCalls, rpcs, executor)
<1>1. DOMAIN executor = 1 .. Len(executor)
    BY DEF TypeOK
<1> QED  BY <1>1 DEF ActiveCallsTracked, Tracked, Ending, EndTasks

LEMMA TrackedNext ==
    ASSUME TypeOK'
    PROVE  ActiveCallsTracked' <=> Tracked(activeCalls', rpcs', executor')
<1>1. DOMAIN executor' = 1 .. Len(executor')
    BY DEF TypeOK
<1> QED  BY <1>1 DEF ActiveCallsTracked, Tracked, Ending, EndTasks

LEMMA EndTaskTypes ==
    /\ \A id : EmitTask(End(id)).task = "emit" /\ EmitTask(Fail(id)).task = "emit"
    /\ \A id, other, t : t \in EndTasks(id) /\ t \in EndTasks(other) => id = other
    /\ \A id, e : EmitTask(e) \in EndTasks(id) <=> e \in {End(id), Fail(id)}
    BY DEF EndTasks, EmitTask, End, Fail

(* A task comes, or the oldest one goes. *)
LEMMA EndingAppend ==
    ASSUME NEW tasks \in Seq(Task), NEW t \in Task
    PROVE  \A id : Ending(Append(tasks, t), id) <=> Ending(tasks, id) \/ t \in EndTasks(id)
<1>1. /\ Len(Append(tasks, t)) = Len(tasks) + 1 /\ Len(tasks) \in Nat
      /\ \A i \in 1 .. Len(tasks) : Append(tasks, t)[i] = tasks[i]
      /\ Append(tasks, t)[Len(tasks) + 1] = t
    BY AppendAt
<1> QED  BY <1>1 DEF Ending

LEMMA EndingTail ==
    ASSUME NEW tasks \in Seq(Task), tasks # << >>
    PROVE  \A id : Ending(tasks, id) <=> Ending(Tail(tasks), id) \/ Head(tasks) \in EndTasks(id)
<1>1. /\ Len(Tail(tasks)) = Len(tasks) - 1 /\ Len(tasks) \in Nat \ {0}
      /\ \A i \in 1 .. Len(Tail(tasks)) : i + 1 \in 1 .. Len(tasks) /\ Tail(tasks)[i] = tasks[i + 1]
      /\ Head(tasks) = tasks[1] /\ 1 \in 1 .. Len(tasks)
    BY TailAt
<1>2. \A i \in 2 .. Len(tasks) : i - 1 \in 1 .. Len(Tail(tasks)) /\ Tail(tasks)[i - 1] = tasks[i]
  <2> SUFFICES ASSUME NEW i \in 2 .. Len(tasks)
               PROVE  i - 1 \in 1 .. Len(Tail(tasks)) /\ Tail(tasks)[i - 1] = tasks[i]
      OBVIOUS
  <2>1. i - 1 \in 1 .. Len(Tail(tasks)) /\ (i - 1) + 1 = i
      BY <1>1
  <2> QED  BY <1>1, <2>1
<1>3. \A i \in 1 .. Len(tasks) : i = 1 \/ i \in 2 .. Len(tasks)
    BY <1>1
<1> QED  BY <1>1, <1>2, <1>3 DEF Ending

LEMMA EndsAppend ==
    ASSUME TypeOK, EmitsSound, EndsOnce, \A e : Sound(e, rpcs) => Sound(e, rpcs'),
           NEW t \in Task, executor' = Append(executor, t),
           t.task = "emit" => Sound(t.event, rpcs'),
           \A id \in CallIds : t \in EndTasks(id) => ~Ending(executor, id)
    PROVE  EmitsSound' /\ EndsOnce'
<1> DEFINE last == Len(executor) + 1
<1>1. /\ Len(executor') = last /\ Len(executor) \in Nat /\ executor'[last] = t
      /\ \A i \in 1 .. Len(executor) : executor'[i] = executor[i]
    BY AppendAt DEF TypeOK
<1>2. \A i \in 1 .. Len(executor') : i \in 1 .. Len(executor) \/ i = last
    BY <1>1
<1>3. EmitsSound'
    BY <1>1, <1>2 DEF EmitsSound
<1>4. EndsOnce'
  <2> SUFFICES ASSUME NEW i \in 1 .. Len(executor'), NEW j \in 1 .. Len(executor'),
                      NEW id \in CallIds,
                      executor'[i] \in EndTasks(id), executor'[j] \in EndTasks(id)
               PROVE  i = j
      BY DEF EndsOnce
  <2>1. CASE i \in 1 .. Len(executor) /\ j \in 1 .. Len(executor)
      BY <1>1, <2>1 DEF EndsOnce
  <2>2. CASE i = last \/ j = last
    <3>1. ~Ending(executor, id)
        BY <1>1, <2>2
    <3> QED  BY <1>1, <1>2, <3>1 DEF Ending
  <2> QED  BY <1>2, <2>1, <2>2
<1> QED  BY <1>3, <1>4

LEMMA EndsTail ==
    ASSUME TypeOK, EmitsSound, EndsOnce, \A e : Sound(e, rpcs) => Sound(e, rpcs'),
           executor # << >>, executor' = Tail(executor)
    PROVE  /\ EmitsSound' /\ EndsOnce'
           /\ \A id \in CallIds : Head(executor) \in EndTasks(id) => ~Ending(executor', id)
<1>1. /\ Len(executor') = Len(executor) - 1 /\ Len(executor) \in Nat \ {0}
      /\ \A i \in 1 .. Len(executor') : i + 1 \in 1 .. Len(executor) /\ executor'[i] = executor[i + 1]
      /\ Head(executor) = executor[1] /\ 1 \in 1 .. Len(executor)
    BY TailAt DEF TypeOK
<1>2. EmitsSound'
    BY <1>1 DEF EmitsSound
<1>3. EndsOnce'
    BY <1>1 DEF EndsOnce
<1>4. ASSUME NEW id \in CallIds, Head(executor) \in EndTasks(id), Ending(executor', id)
      PROVE  FALSE
  <2>1. PICK i \in 1 .. Len(executor') : executor'[i] \in EndTasks(id)
      BY <1>4 DEF Ending
  <2>2. i + 1 \in 1 .. Len(executor) /\ executor[i + 1] \in EndTasks(id) /\ i + 1 # 1
      BY <1>1, <2>1
  <2> QED  BY <1>1, <1>4, <2>2 DEF EndsOnce
<1> QED  BY <1>2, <1>3, <1>4

(* Steps that neither report nor call: a task that emits nothing comes, or *)
(* goes.                                                                   *)
LEMMA ActiveFrame ==
    ASSUME TypeInv, IdInv, ActiveInv, [Next]_vars, UNCHANGED activeCalls, UNCHANGED rpcs,
           \/ executor' = executor
           \/ \E t \in Task : t.task # "emit" /\ executor' = Append(executor, t)
           \/ executor # << >> /\ Head(executor).task # "emit" /\ executor' = Tail(executor)
    PROVE  ActiveInv'
<1>t. TypeOK /\ TypeOK' /\ executor \in Seq(Task)
    BY TypeStep DEF TypeInv, TypeOK
<1>s. \A e : Sound(e, rpcs) => Sound(e, rpcs')
    BY StaysSound
<1>1. EmitsSound' /\ EndsOnce' /\ \A id \in CallIds : Ending(executor', id) <=> Ending(executor, id)
  <2>1. CASE executor' = executor
      BY <2>1 DEF ActiveInv, EmitsSound, EndsOnce
  <2>2. CASE \E t \in Task : t.task # "emit" /\ executor' = Append(executor, t)
    <3> PICK t \in Task : t.task # "emit" /\ executor' = Append(executor, t)
        BY <2>2
    <3>1. \A id : t \notin EndTasks(id)
        BY EndTaskTypes DEF EndTasks
    <3>2. EmitsSound' /\ EndsOnce'
        BY <1>t, <1>s, <3>1, EndsAppend DEF ActiveInv
    <3> QED  BY <1>t, <3>1, <3>2, EndingAppend
  <2>3. CASE executor # << >> /\ Head(executor).task # "emit" /\ executor' = Tail(executor)
    <3>1. \A id : Head(executor) \notin EndTasks(id)
        BY <2>3, EndTaskTypes DEF EndTasks
    <3>2. EmitsSound' /\ EndsOnce'
        BY <1>t, <1>s, <2>3, EndsTail DEF ActiveInv
    <3> QED  BY <1>t, <2>3, <3>1, <3>2, EndingTail
  <2> QED  BY <2>1, <2>2, <2>3
<1>2. DOMAIN rpcs \subseteq CallIds
    BY <1>t DEF TypeOK
<1>3. ActiveCallsTracked'
  <2>1. Tracked(activeCalls, rpcs, executor)
      BY <1>t, TrackedIs DEF ActiveInv
  <2>2. Tracked(activeCalls', rpcs', executor')
      BY <1>1, <1>2, <2>1 DEF Tracked
  <2> QED  BY <1>t, <2>2, TrackedNext
<1> QED  BY <1>1, <1>3 DEF ActiveInv

(* gRPC reports something of a call that is held. *)
LEMMA ActiveNetwork ==
    ASSUME TypeInv, IdInv, ActiveInv, Network
    PROVE  ActiveInv'
<1>n. [Next]_vars
    BY DEF Next
<1>t. /\ TypeOK /\ TypeOK' /\ executor \in Seq(Task) /\ DOMAIN rpcs \subseteq CallIds
      /\ Tracked(activeCalls, rpcs, executor)
    BY <1>n, TypeStep, TrackedIs DEF TypeInv, TypeOK, ActiveInv
<1>s. \A e : Sound(e, rpcs) => Sound(e, rpcs')
    BY <1>n, StaysSound
<1> PICK id \in DOMAIN rpcs : OnNext(id) \/ OnCompleted(id) \/ OnError(id)
    BY DEF Network
<1>1. /\ UNCHANGED activeCalls
      /\ DOMAIN rpcs' = DOMAIN rpcs
      /\ \A i \in DOMAIN rpcs \ {id} : rpcs'[i] = rpcs[i]
    BY <1>t, NetworkCases
<1> PICK e \in CallEvent :
            /\ executor' = Append(executor, EmitTask(e)) /\ e.callId = id
            /\ \/ /\ e.type = "receive" /\ e.message = rpcs[id].sent + 1
                  /\ rpcs'[id].sent = rpcs[id].sent + 1
                  /\ rpcs[id].status = "running" /\ rpcs'[id].status = "running"
               \/ /\ e = End(id) /\ e.type = "end" /\ rpcs'[id].sent = rpcs[id].sent
                  /\ rpcs[id].status \in {"running", "aborted"}
                  /\ rpcs'[id].status = "ended"
               \/ /\ e = Fail(id) /\ e.type = "fail" /\ rpcs'[id].sent = rpcs[id].sent
                  /\ rpcs[id].status \in {"running", "aborted"}
                  /\ rpcs'[id].status = "failed"
    BY <1>t, NetworkCases
<1>2. EmitTask(e) \in Task /\ EmitTask(e).task = "emit" /\ EmitTask(e).event = e
    BY MessageTypes DEF EmitTask
<1>3. Sound(e, rpcs')
  <2>1. e.type = "receive" => e.message \in 1 .. rpcs'[id].sent
    <3>1. rpcs[id].sent \in Nat
        BY <1>t DEF TypeOK, RpcState
    <3> QED  BY <3>1 DEF End, Fail
  <2> QED  BY <1>1, <2>1 DEF Sound, End, Fail
<1>4. ~Ending(executor, id)
  <2> SUFFICES ASSUME NEW i \in 1 .. Len(executor), executor[i] \in EndTasks(id)
               PROVE  FALSE
      BY DEF Ending
  <2>1. executor[i].task = "emit" /\ executor[i].event \in {End(id), Fail(id)}
      BY DEF EndTasks, EmitTask
  <2>2. Sound(executor[i].event, rpcs)
      BY <2>1 DEF ActiveInv, EmitsSound
  <2> QED  BY <2>1, <2>2 DEF Sound, End, Fail
<1>5. \A i : EmitTask(e) \in EndTasks(i) => i = id
    BY EndTaskTypes DEF End, Fail
<1>6. EmitTask(e) \in EndTasks(id) <=> e.type # "receive"
    BY EndTaskTypes DEF End, Fail
<1>7. EmitsSound' /\ EndsOnce'
  <2>1. \A i \in CallIds : EmitTask(e) \in EndTasks(i) => ~Ending(executor, i)
      BY <1>4, <1>5
  <2> QED  BY <1>t, <1>s, <1>2, <1>3, <2>1, EndsAppend DEF ActiveInv
<1>8. \A i : Ending(executor', i) <=> Ending(executor, i) \/ EmitTask(e) \in EndTasks(i)
    BY <1>t, <1>2, EndingAppend
<1>9. Tracked(activeCalls', rpcs', executor')
  <2>1. \A i \in DOMAIN rpcs \ {id} :
            Ending(executor', i) <=> Ending(executor, i)
      BY <1>5, <1>8
  <2>2. /\ rpcs[id].status \in {"running", "aborted"}
        /\ rpcs'[id].status \in {"running", "aborted"} \/ Ending(executor', id)
      BY <1>6, <1>8 DEF End, Fail
  <2> QED  BY <1>t, <1>1, <2>1, <2>2 DEF Tracked
<1> QED  BY <1>t, <1>7, <1>9, TrackedNext DEF ActiveInv

(* The native module makes a call: it holds it if gRPC can report on it. *)
LEMMA ActiveCreated ==
    ASSUME TypeInv, IdInv, ActiveInv, RunCreateCall
    PROVE  ActiveInv'
<1>n. [Next]_vars
    BY DEF Next, System, Executor
<1>t. /\ TypeOK /\ TypeOK' /\ executor \in Seq(Task) /\ DOMAIN rpcs \subseteq CallIds
      /\ Tracked(activeCalls, rpcs, executor)
    BY <1>n, TypeStep, TrackedIs DEF TypeInv, TypeOK, ActiveInv
<1>s. \A e : Sound(e, rpcs) => Sound(e, rpcs')
    BY <1>n, StaysSound
<1>1. executor # << >> /\ Head(executor).task = "createCall" /\ executor' = Tail(executor)
    BY DEF RunCreateCall, RunTask
<1>2. \A id : Head(executor) \notin EndTasks(id)
    BY <1>1, EndTaskTypes DEF EndTasks
<1>3. EmitsSound' /\ EndsOnce'
    BY <1>t, <1>s, <1>1, EndsTail DEF ActiveInv
<1>4. \A id : Ending(executor', id) <=> Ending(executor, id)
    BY <1>t, <1>1, <1>2, EndingTail
<1>5. NewId \in CallIds /\ NewId \notin DOMAIN rpcs
  <2>1. \A i \in DOMAIN rpcs : i \in Nat /\ i < NewId
      BY <1>t DEF IdInv, CallIds
  <2> QED  BY <1>t, <2>1, NewIdFresh DEF CallIds
<1>6. ~Ending(executor, NewId)
  <2> SUFFICES ASSUME NEW i \in 1 .. Len(executor), executor[i] \in EndTasks(NewId)
               PROVE  FALSE
      BY DEF Ending
  <2>1. executor[i].task = "emit" /\ executor[i].event.callId = NewId
      BY DEF EndTasks, EmitTask, End, Fail
  <2> QED  BY <1>5, <2>1 DEF ActiveInv, EmitsSound, Sound
<1>7. PICK s \in {"running", "none", "aborted"} :
          /\ rpcs' = Put(rpcs, NewId, Rpc(Head(executor).call, s))
          /\ activeCalls' = IF s = "none" THEN activeCalls ELSE activeCalls \cup {NewId}
    BY DEF RunCreateCall, Launch, LaunchNothing, LaunchThrows
<1>8. /\ DOMAIN rpcs' = DOMAIN rpcs \cup {NewId} /\ rpcs'[NewId].status = s
      /\ \A i \in DOMAIN rpcs : rpcs'[i] = rpcs[i]
    BY <1>5, <1>7 DEF Put, Rpc
<1>9. Tracked(activeCalls', rpcs', executor')
    BY <1>t, <1>4, <1>5, <1>6, <1>7, <1>8 DEF Tracked
<1> QED  BY <1>t, <1>3, <1>9, TrackedNext DEF ActiveInv

(* The native module emits an event, and lets go of a call that is over. *)
LEMMA ActiveEmitted ==
    ASSUME TypeInv, IdInv, ActiveInv, RunEmit
    PROVE  ActiveInv'
<1> DEFINE event == Head(executor).event
<1>n. [Next]_vars
    BY DEF Next, System, Executor
<1>t. /\ TypeOK /\ TypeOK' /\ executor \in Seq(Task) /\ DOMAIN rpcs \subseteq CallIds
      /\ Tracked(activeCalls, rpcs, executor)
    BY <1>n, TypeStep, TrackedIs DEF TypeInv, TypeOK, ActiveInv
<1>s. \A e : Sound(e, rpcs) => Sound(e, rpcs')
    BY <1>n, StaysSound
<1>1. /\ executor # << >> /\ Head(executor).task = "emit" /\ executor' = Tail(executor)
      /\ activeCalls' = IF Completes(event) THEN activeCalls \ {event.callId} ELSE activeCalls
      /\ UNCHANGED rpcs
    BY DEF RunEmit, RunTask
<1>2. Head(executor) = EmitTask(event) /\ event \in CallEvent
  <2>1. Head(executor) \in Task
      BY <1>t, <1>1, HeadTypes
  <2> QED  BY <1>1, <2>1 DEF Task, EmitTask
<1>3. Sound(event, rpcs)
    BY <1>t, <1>1, TailAt DEF ActiveInv, EmitsSound
<1>4. EmitsSound' /\ EndsOnce'
      /\ \A id \in CallIds : Head(executor) \in EndTasks(id) => ~Ending(executor', id)
    BY <1>t, <1>s, <1>1, EndsTail DEF ActiveInv
<1>5. \A id : Ending(executor, id) <=> Ending(executor', id) \/ Head(executor) \in EndTasks(id)
    BY <1>t, <1>1, EndingTail
<1> HIDE DEF event
<1>6. \A id : Head(executor) \in EndTasks(id) <=> Completes(event) /\ id = event.callId
  <2>1. \A id : Head(executor) \in EndTasks(id) <=> event \in {End(id), Fail(id)}
      BY <1>2, EndTaskTypes
  <2>2. Completes(event) => event \in {End(event.callId), Fail(event.callId)}
      BY <1>3 DEF Completes, Sound
  <2>3. \A id : event \in {End(id), Fail(id)} => Completes(event) /\ id = event.callId
      BY DEF Completes, End, Fail
  <2> QED  BY <2>1, <2>2, <2>3
<1>7. Tracked(activeCalls', rpcs', executor')
  <2>1. CASE Completes(event)
    <3>1. rpcs[event.callId].status \in Closed /\ ~Ending(executor', event.callId)
          /\ event.callId \in DOMAIN rpcs
        BY <1>t, <1>3, <1>4, <1>6, <2>1 DEF Sound, Completes, Closed
    <3>2. \A id \in DOMAIN rpcs \ {event.callId} : Ending(executor, id) <=> Ending(executor', id)
        BY <1>5, <1>6
    <3>3. activeCalls' = activeCalls \ {event.callId}
        BY <1>1, <2>1 DEF event
    <3> QED  BY <1>t, <1>1, <3>1, <3>2, <3>3 DEF Tracked, Closed
  <2>2. CASE ~Completes(event)
    <3>1. \A id : Ending(executor, id) <=> Ending(executor', id)
        BY <1>5, <1>6, <2>2
    <3>2. activeCalls' = activeCalls
        BY <1>1, <2>2 DEF event
    <3> QED  BY <1>t, <1>1, <3>1, <3>2 DEF Tracked
  <2> QED  BY <2>1, <2>2
<1> QED  BY <1>t, <1>4, <1>7, TrackedNext DEF ActiveInv

LEMMA ActiveStep == TypeInv /\ IdInv /\ ActiveInv /\ [Next]_vars => ActiveInv'
<1> SUFFICES ASSUME TypeInv, IdInv, ActiveInv, [Next]_vars
             PROVE  ActiveInv'
    OBVIOUS
<1>t. TypeOK
    BY DEF TypeInv
<1>1. CASE Network
    BY <1>1, ActiveNetwork
<1>2. CASE RunCreateCall
    BY <1>2, ActiveCreated
<1>3. CASE RunEmit
    BY <1>3, ActiveEmitted
<1>4. ASSUME NEW c \in Calls, NativeCreateCall(c)
      PROVE  ActiveInv'
  <2>1. /\ UNCHANGED <<activeCalls, rpcs>>
        /\ executor' = executor \/ executor' = Append(executor, CreateTask(c))
      BY <1>4 DEF NativeCreateCall
  <2>2. CreateTask(c) \in Task /\ CreateTask(c).task # "emit"
      BY MessageTypes DEF CreateTask
  <2> QED  BY <2>1, <2>2, ActiveFrame
<1>5. ASSUME NEW p \in Pings, Ping(p)
      PROVE  ActiveInv'
  <2>1. UNCHANGED <<activeCalls, rpcs>> /\ executor' = Append(executor, PingTask(p, pingId))
      BY <1>5 DEF Ping
  <2>2. PingTask(p, pingId) \in Task /\ PingTask(p, pingId).task # "emit"
      BY <1>t, MessageTypes DEF PingTask, TypeOK
  <2> QED  BY <2>1, <2>2, ActiveFrame
<1>6. CASE RunPing
  <2>1. UNCHANGED activeCalls /\ UNCHANGED rpcs
      BY <1>6 DEF RunPing
  <2>2. executor # << >> /\ Head(executor).task # "emit" /\ executor' = Tail(executor)
      BY <1>6 DEF RunPing, RunTask
  <2> QED  BY <2>1, <2>2, ActiveFrame
<1>7. CASE (\E c \in Calls : StartCall(c) \/ CallStep(c)) \/ Shutdown \/ JsTask \/ UNCHANGED vars
  <2>1. CASE \E c \in Calls : CallStep(c)
    <3>1. UNCHANGED <<activeCalls, rpcs, executor>>
        BY <2>1, CallStepFrame DEF nativeVars
    <3> QED  BY <3>1, ActiveFrame
  <2>2. CASE (\E c \in Calls : StartCall(c)) \/ Shutdown \/ JsTask \/ UNCHANGED vars
    <3>1. UNCHANGED <<activeCalls, rpcs, executor>>
        BY <2>2 DEF StartCall, Shutdown, JsTask, TakeCreated, TakeRejected, TakeEvent, TakePong,
                    TakeSent, Take, nativeVars, vars
    <3> QED  BY <3>1, ActiveFrame
  <2> QED  BY <1>7, <2>1, <2>2
<1> QED  BY <1>1, <1>2, <1>3, <1>4, <1>5, <1>6, <1>7 DEF Next, Application, System, Executor, CallStep

LEMMA ActiveInit == Init => ActiveInv
<1> SUFFICES ASSUME Init PROVE ActiveInv
    OBVIOUS
<1>1. executor = << >> /\ rpcs = << >> /\ activeCalls = {}
    BY DEF Init
<1>2. DOMAIN executor = {} /\ Len(executor) = 0 /\ DOMAIN rpcs = {}
    BY <1>1
<1> QED  BY <1>1, <1>2 DEF ActiveInv, EmitsSound, EndsOnce, ActiveCallsTracked

(* activeCalls leaks no call and drops none that runs: it holds the calls  *)
(* gRPC can still report on, and those whose last report is in the queue.  *)
THEOREM ActiveCallsExact == Spec => []ActiveCallsTracked
<1>1. Init => BridgeInv /\ ActiveInv
    BY BridgeInit, ActiveInit
<1>2. (BridgeInv /\ ActiveInv) /\ [Next]_vars => (BridgeInv /\ ActiveInv)'
    BY BridgeStep, ActiveStep DEF BridgeInv
<1>3. BridgeInv /\ ActiveInv => ActiveCallsTracked
    BY DEF ActiveInv
<1> QED  BY <1>1, <1>2, <1>3, PTL DEF Spec
-----------------------------------------------------------------------------
(* What a step does to the entry of one call                               *)

(* The entries of the other calls are as they were. *)
OthersKept(states, id) ==
    \A i : i # id => /\ i \in DOMAIN callStates' <=> i \in DOMAIN states
                     /\ i \in DOMAIN states => callStates'[i] = states[i]

(* Call c finds no entry, takes the oldest event, or waits. *)
WaitOutcome(c, states) ==
    LET id == callId[c] IN
    \/ /\ id \notin DOMAIN states /\ id \notin DOMAIN callStates'
       /\ pc'[c] = "resumed" /\ handed'[c] = Null
    \/ /\ id \in DOMAIN states /\ states[id].queue # << >>
       /\ pc'[c] = "resumed" /\ handed'[c] = Head(states[id].queue)
       /\ Completes(handed'[c]) => id \notin DOMAIN callStates'
       /\ ~Completes(handed'[c]) => /\ id \in DOMAIN callStates'
                                    /\ callStates'[id].queue = Tail(states[id].queue)
    \/ /\ id \in DOMAIN states /\ states[id].queue = << >>
       /\ pc'[c] = "waiting" /\ handed'[c] = Null
       /\ id \in DOMAIN callStates' /\ callStates'[id].queue = << >>

LEMMA WaitCases ==
    ASSUME TypeOK, NEW c \in Calls, NEW STATE states, IsMap(states, CallState),
           QueuesOwn(states), WaitForCallEvent(c, states)
    PROVE  /\ WaitOutcome(c, states) /\ OthersKept(states, callId[c])
           /\ \A d \in Calls \ {c} : pc'[d] = pc[d] /\ handed'[d] = handed[d]
<1> DEFINE id == callId[c]
<1>t. /\ pc \in [Calls -> {"idle", "yielded"} \cup InFlight \cup Settled]
      /\ handed \in [Calls -> CallEvent \cup {Null}]
    BY DEF TypeOK
<1>1. CASE id \notin DOMAIN states
  <2>1. callStates' = states /\ Resolve(c, Null)
      BY <1>1 DEF WaitForCallEvent
  <2>2. /\ pc'[c] = "resumed" /\ handed'[c] = Null
        /\ \A d \in Calls \ {c} : pc'[d] = pc[d] /\ handed'[d] = handed[d]
      BY <1>t, <2>1 DEF Resolve
  <2> QED  BY <1>1, <2>1, <2>2 DEF WaitOutcome, OthersKept
<1>2. CASE id \in DOMAIN states /\ states[id].queue # << >>
  <2> DEFINE next == Head(states[id].queue)
             rest == [states EXCEPT ![id].queue = Tail(@)]
  <2>1. callStates' = CheckComplete(rest, next) /\ Resolve(c, next)
      BY <1>2 DEF WaitForCallEvent
  <2>2. /\ pc'[c] = "resumed" /\ handed'[c] = next
        /\ \A d \in Calls \ {c} : pc'[d] = pc[d] /\ handed'[d] = handed[d]
      BY <1>t, <2>1 DEF Resolve
  <2>3. states[id] \in CallState
      BY <1>2 DEF IsMap
  <2>4. states[id].queue \in Seq(CallEvent)
      BY <2>3, CallStateUpdates
  <2>5. next.callId = id
    <3>1. next = states[id].queue[1] /\ 1 \in 1 .. Len(states[id].queue)
        BY <1>2, <2>4, TailAt
    <3> QED  BY <1>2, <3>1 DEF QueuesOwn
  <2>6. /\ DOMAIN rest = DOMAIN states /\ rest[id].queue = Tail(states[id].queue)
        /\ \A i \in DOMAIN states \ {id} : rest[i] = states[i]
      BY <1>2, <2>3 DEF CallState
  <2> HIDE DEF rest, next
  <2>7. CASE Completes(next)
    <3>1. callStates' = Remove(rest, id)
        BY <2>1, <2>5, <2>7 DEF CheckComplete
    <3>2. /\ DOMAIN callStates' = DOMAIN states \ {id}
          /\ \A i \in DOMAIN callStates' : callStates'[i] = states[i]
        BY <2>6, <3>1 DEF Remove
    <3> QED  BY <1>2, <2>2, <2>7, <3>2 DEF WaitOutcome, OthersKept, next
  <2>8. CASE ~Completes(next)
    <3>1. callStates' = rest
        BY <2>1, <2>8 DEF CheckComplete
    <3> QED  BY <1>2, <2>2, <2>6, <2>8, <3>1 DEF WaitOutcome, OthersKept, next
  <2> QED  BY <2>7, <2>8
<1>3. CASE id \in DOMAIN states /\ states[id].queue = << >>
  <2>1. /\ callStates' = [states EXCEPT ![id].waiter = Append(@, c)]
        /\ pc' = [pc EXCEPT ![c] = "waiting"] /\ handed' = [handed EXCEPT ![c] = Null]
      BY <1>3 DEF WaitForCallEvent
  <2>2. /\ pc'[c] = "waiting" /\ handed'[c] = Null
        /\ \A d \in Calls \ {c} : pc'[d] = pc[d] /\ handed'[d] = handed[d]
      BY <1>t, <2>1
  <2>3. states[id] \in CallState
      BY <1>3 DEF IsMap
  <2>4. /\ DOMAIN callStates' = DOMAIN states /\ callStates'[id].queue = << >>
        /\ \A i \in DOMAIN states \ {id} : callStates'[i] = states[i]
      BY <1>3, <2>1, <2>3 DEF CallState
  <2> QED  BY <1>3, <2>2, <2>4 DEF WaitOutcome, OthersKept
<1> QED  BY <1>1, <1>2, <1>3

(* What a step of a call's function does: it leaves its try block, yields  *)
(* a message, or awaits the next event.                                    *)
Leaves(c) ==
    /\ pc[c] \in {"yielded", "resumed"} /\ pc'[c] \in Settled
    /\ handed'[c] = Null \/ (handed'[c] = handed[c] /\ pc[c] = "yielded")
    /\ callId[c] \notin DOMAIN callStates' /\ OthersKept(callStates, callId[c])

Yields(c) ==
    /\ pc[c] = "resumed" /\ handed[c].type = "receive"
    /\ pc'[c] = "yielded" /\ handed'[c] = Null /\ UNCHANGED callStates
    /\ delivered'[c] = Append(delivered[c], handed[c].message)

Awaits(c) ==
    /\ \/ pc[c] = "yielded"
       \/ pc[c] = "resumed" /\ handed[c].type = "end"
    /\ WaitOutcome(c, callStates) /\ OthersKept(callStates, callId[c])
    /\ UNCHANGED delivered

Registers(c) ==
    /\ pc[c] = "created" /\ pc'[c] = "waiting" /\ handed'[c] = Null
    /\ callId[c] \in DOMAIN callStates' /\ callStates'[callId[c]].queue = << >>
    /\ OthersKept(callStates, callId[c]) /\ UNCHANGED delivered

LEMMA CallCases ==
    ASSUME BridgeInv, NEW c \in Calls, CallStep(c)
    PROVE  /\ Leaves(c) \/ Yields(c) \/ Awaits(c) \/ Registers(c)
           /\ \A d \in Calls \ {c} : /\ pc'[d] = pc[d] /\ handed'[d] = handed[d]
                                     /\ delivered'[d] = delivered[d]
<1>t. /\ TypeOK /\ IsMap(callStates, CallState) /\ QueuesOwn(callStates)
      /\ pc \in [Calls -> {"idle", "yielded"} \cup InFlight \cup Settled]
      /\ handed \in [Calls -> CallEvent \cup {Null}]
      /\ delivered \in [Calls -> Seq(Nat)]
    BY DEF BridgeInv, TypeInv, TypeOK, IsMap, EntryInv
<1>1. ASSUME \/ pc[c] = "yielded"
             \/ pc[c] = "resumed" /\ handed[c].type = "end",
             WaitForCallEvent(c, callStates), UNCHANGED delivered
      PROVE  /\ Awaits(c)
             /\ \A d \in Calls \ {c} : /\ pc'[d] = pc[d] /\ handed'[d] = handed[d]
                                       /\ delivered'[d] = delivered[d]
    BY <1>t, <1>1, WaitCases DEF Awaits
<1>2. ASSUME pc[c] = "resumed", NEW o \in Settled, Settle(c, o)
      PROVE  Leaves(c) /\ \A d \in Calls \ {c} : pc'[d] = pc[d] /\ handed'[d] = handed[d]
    BY <1>t, <1>2 DEF Settle, Leaves, AbandonCall, Remove, OthersKept
<1>3. ASSUME delivered' = [delivered EXCEPT ![c] = Append(@, handed[c].message)]
      PROVE  /\ delivered'[c] = Append(delivered[c], handed[c].message)
             /\ \A d \in Calls \ {c} : delivered'[d] = delivered[d]
    BY <1>t, <1>3
<1>4. CASE Pull(c)
    BY <1>1, <1>4 DEF Pull
<1>5. CASE Return(c)
  <2>1. /\ pc[c] = "yielded" /\ pc' = [pc EXCEPT ![c] = "canceled"]
        /\ callStates' = Remove(callStates, callId[c]) /\ UNCHANGED <<handed, delivered>>
      BY <1>5 DEF Return, AbandonCall
  <2>2. pc'[c] = "canceled" /\ \A d \in Calls \ {c} : pc'[d] = pc[d]
      BY <1>t, <2>1
  <2> QED  BY <2>1, <2>2 DEF Leaves, Settled, Remove, OthersKept
<1>6. CASE Register(c)
  <2> DEFINE states == CreateCall(callStates, callId[c])
  <2>1. pc[c] = "created" /\ WaitForCallEvent(c, states) /\ UNCHANGED delivered
      BY <1>6 DEF Register
  <2>2. IsMap(states, CallState) /\ QueuesOwn(states)
      BY <2>1, ReadyCreated DEF BridgeInv
  <2>3. /\ callId[c] \in DOMAIN states /\ states[callId[c]].queue = << >>
        /\ \A i : i # callId[c] => /\ i \in DOMAIN states <=> i \in DOMAIN callStates
                                   /\ i \in DOMAIN callStates => states[i] = callStates[i]
      BY DEF CreateCall, Put, NoEvents
  <2> HIDE DEF states
  <2>4. /\ WaitOutcome(c, states) /\ OthersKept(states, callId[c])
        /\ \A d \in Calls \ {c} : pc'[d] = pc[d] /\ handed'[d] = handed[d]
      BY <1>t, <2>1, <2>2, WaitCases
  <2> QED  BY <2>1, <2>3, <2>4 DEF WaitOutcome, OthersKept, Registers
<1>7. CASE ResumeUnary(c)
  <2>1. CASE /\ pc[c] = "resumed" /\ Settle(c, "returned")
             /\ delivered' = [delivered EXCEPT ![c] = Append(@, handed[c].message)]
      BY <1>2, <1>3, <2>1 DEF Settled
  <2>2. CASE pc[c] = "resumed" /\ Settle(c, "threw") /\ UNCHANGED delivered
      BY <1>2, <2>2 DEF Settled
  <2>3. CASE /\ pc[c] = "resumed" /\ handed[c].type = "end"
             /\ WaitForCallEvent(c, callStates) /\ UNCHANGED delivered
      BY <1>1, <2>3
  <2> QED  BY <1>7, <2>1, <2>2, <2>3 DEF ResumeUnary
<1>8. CASE ResumeStream(c)
  <2>1. CASE /\ pc[c] = "resumed" /\ handed[c].type = "receive"
             /\ delivered' = [delivered EXCEPT ![c] = Append(@, handed[c].message)]
             /\ pc' = [pc EXCEPT ![c] = "yielded"]
             /\ handed' = [handed EXCEPT ![c] = Null]
             /\ UNCHANGED callStates
    <3>1. /\ pc'[c] = "yielded" /\ handed'[c] = Null
          /\ \A d \in Calls \ {c} : pc'[d] = pc[d] /\ handed'[d] = handed[d]
        BY <1>t, <2>1
    <3> QED  BY <1>3, <2>1, <3>1 DEF Yields
  <2>2. CASE pc[c] = "resumed" /\ Settle(c, "threw") /\ UNCHANGED delivered
      BY <1>2, <2>2 DEF Settled
  <2>3. CASE pc[c] = "resumed" /\ Settle(c, "returned") /\ UNCHANGED delivered
      BY <1>2, <2>3 DEF Settled
  <2> QED  BY <1>8, <2>1, <2>2, <2>3 DEF ResumeStream
<1> QED  BY <1>4, <1>5, <1>6, <1>7, <1>8 DEF CallStep, Microtask

(* What an event does that reaches JavaScript: nothing without an entry;   *)
(* it wakes the call that waits, or it is queued.                          *)
Wakes(e, c) ==
    /\ e.callId \in DOMAIN callStates /\ pc[c] = "waiting" /\ callId[c] = e.callId
    /\ pc'[c] = "resumed" /\ handed'[c] = e /\ callStates[e.callId].queue = << >>
    /\ \A d \in Calls \ {c} : pc'[d] = pc[d] /\ handed'[d] = handed[d]
    /\ Completes(e) => e.callId \notin DOMAIN callStates'
    /\ ~Completes(e) => e.callId \in DOMAIN callStates' /\ callStates'[e.callId].queue = << >>

Queues(e) ==
    /\ e.callId \in DOMAIN callStates /\ e.callId \in DOMAIN callStates'
    /\ callStates'[e.callId].queue = Append(callStates[e.callId].queue, e)
    /\ UNCHANGED <<pc, handed>>

LEMMA EventCases ==
    ASSUME BridgeInv, NEW e \in CallEvent, OnCallEvent(e)
    PROVE  /\ OthersKept(callStates, e.callId)
           /\ \/ e.callId \notin DOMAIN callStates /\ UNCHANGED <<callStates, pc, handed>>
              \/ e.callId \in DOMAIN callStates /\ Wakes(e, rpcs[e.callId].call)
              \/ Queues(e)
<1> DEFINE id == e.callId
           c == rpcs[id].call
<1>t. TypeOK /\ EntryInv
    BY DEF BridgeInv, TypeInv
<1>1. CASE id \notin DOMAIN callStates
    BY <1>1 DEF OnCallEvent, OthersKept
<1>2. CASE id \in DOMAIN callStates /\ callStates[id].waiter # << >>
  <2> DEFINE rest == [callStates EXCEPT ![id].waiter = << >>]
  <2>1. /\ callStates' = CheckComplete(rest, e)
        /\ pc' = [d \in Calls |-> IF d \in Waiters(callStates[id]) THEN "resumed" ELSE pc[d]]
        /\ handed' = [d \in Calls |-> IF d \in Waiters(callStates[id]) THEN e ELSE handed[d]]
      BY <1>2 DEF OnCallEvent
  <2>2. /\ callStates[id] \in CallState /\ c \in Calls /\ callId[c] = id
        /\ callStates[id].waiter = <<c>> /\ pc[c] = "waiting" /\ callStates[id].queue = << >>
      BY <1>2, <1>t, EntryCalls DEF EntryInv, WaiterDiscipline
  <2>3. Waiters(callStates[id]) = {c}
      BY <2>2 DEF Waiters
  <2>4. /\ pc'[c] = "resumed" /\ handed'[c] = e
        /\ \A d \in Calls \ {c} : pc'[d] = pc[d] /\ handed'[d] = handed[d]
      BY <2>1, <2>2, <2>3
  <2>5. /\ DOMAIN rest = DOMAIN callStates /\ rest[id].queue = << >>
        /\ \A i \in DOMAIN callStates \ {id} : rest[i] = callStates[i]
      BY <1>2, <2>2 DEF CallState
  <2> HIDE DEF rest
  <2>6. callStates' = IF Completes(e) THEN Remove(rest, id) ELSE rest
      BY <2>1 DEF CheckComplete
  <2>7. OthersKept(callStates, id)
      BY <2>5, <2>6 DEF OthersKept, Remove
  <2>8. /\ Completes(e) => id \notin DOMAIN callStates'
        /\ ~Completes(e) => id \in DOMAIN callStates' /\ callStates'[id].queue = << >>
      BY <1>2, <2>5, <2>6 DEF Remove
  <2> QED  BY <1>2, <2>2, <2>4, <2>7, <2>8 DEF Wakes
<1>3. CASE id \in DOMAIN callStates /\ callStates[id].waiter = << >>
  <2>1. callStates' = [callStates EXCEPT ![id].queue = Append(@, e)] /\ UNCHANGED <<pc, handed>>
      BY <1>3 DEF OnCallEvent
  <2>2. callStates[id] \in CallState
      BY <1>3, <1>t, EntryCalls
  <2>3. /\ DOMAIN callStates' = DOMAIN callStates
        /\ callStates'[id].queue = Append(callStates[id].queue, e)
        /\ \A i \in DOMAIN callStates \ {id} : callStates'[i] = callStates[i]
      BY <1>3, <2>1, <2>2 DEF CallState
  <2> QED  BY <1>3, <2>1, <2>3 DEF OthersKept, Queues
<1> QED  BY <1>1, <1>2, <1>3
-----------------------------------------------------------------------------
(* Everything on its way is what gRPC reported.                            *)

MessagesSound(messages, calls) ==
    \A i \in 1 .. Len(messages) :
        messages[i].kind = "event" => Sound(messages[i].event, calls)

EventsSound(events, calls) == \A i \in 1 .. Len(events) : Sound(events[i], calls)

SoundInv ==
    /\ MessagesSound(toJs, rpcs)
    /\ \A id \in DOMAIN callStates : EventsSound(callStates[id].queue, rpcs)
    /\ \A c \in Calls : handed[c] # Null => Sound(handed[c], rpcs)

LEMMA MessagesSoundMove ==
    ASSUME NEW messages \in Seq(JsMessage), NEW calls, MessagesSound(messages, calls)
    PROVE  /\ \A m \in JsMessage : (m.kind = "event" => Sound(m.event, calls))
                                   => MessagesSound(Append(messages, m), calls)
           /\ messages # << >> =>
                /\ MessagesSound(Tail(messages), calls)
                /\ Head(messages).kind = "event" => Sound(Head(messages).event, calls)
<1>1. ASSUME NEW m \in JsMessage, m.kind = "event" => Sound(m.event, calls)
      PROVE  MessagesSound(Append(messages, m), calls)
  <2>1. /\ Len(Append(messages, m)) = Len(messages) + 1 /\ Len(messages) \in Nat
        /\ \A i \in 1 .. Len(messages) : Append(messages, m)[i] = messages[i]
        /\ Append(messages, m)[Len(messages) + 1] = m
      BY AppendAt
  <2>2. \A i \in 1 .. Len(Append(messages, m)) : i \in 1 .. Len(messages) \/ i = Len(messages) + 1
      BY <2>1
  <2> QED  BY <1>1, <2>1, <2>2 DEF MessagesSound
<1>2. ASSUME messages # << >>
      PROVE  /\ MessagesSound(Tail(messages), calls)
             /\ Head(messages).kind = "event" => Sound(Head(messages).event, calls)
  <2>1. /\ \A i \in 1 .. Len(Tail(messages)) :
                i + 1 \in 1 .. Len(messages) /\ Tail(messages)[i] = messages[i + 1]
        /\ Head(messages) = messages[1] /\ 1 \in 1 .. Len(messages)
      BY <1>2, TailAt
  <2> QED  BY <2>1 DEF MessagesSound
<1> QED  BY <1>1, <1>2

LEMMA EventsSoundMove ==
    ASSUME NEW events \in Seq(CallEvent), NEW calls, EventsSound(events, calls)
    PROVE  /\ \A e \in CallEvent : Sound(e, calls) => EventsSound(Append(events, e), calls)
           /\ events # << >> => /\ EventsSound(Tail(events), calls)
                                /\ Sound(Head(events), calls)
<1>1. ASSUME NEW e \in CallEvent, Sound(e, calls)
      PROVE  EventsSound(Append(events, e), calls)
  <2>1. /\ Len(Append(events, e)) = Len(events) + 1 /\ Len(events) \in Nat
        /\ \A i \in 1 .. Len(events) : Append(events, e)[i] = events[i]
        /\ Append(events, e)[Len(events) + 1] = e
      BY AppendAt
  <2>2. \A i \in 1 .. Len(Append(events, e)) : i \in 1 .. Len(events) \/ i = Len(events) + 1
      BY <2>1
  <2> QED  BY <1>1, <2>1, <2>2 DEF EventsSound
<1>2. ASSUME events # << >>
      PROVE  EventsSound(Tail(events), calls) /\ Sound(Head(events), calls)
  <2>1. /\ \A i \in 1 .. Len(Tail(events)) :
                i + 1 \in 1 .. Len(events) /\ Tail(events)[i] = events[i + 1]
        /\ Head(events) = events[1] /\ 1 \in 1 .. Len(events)
      BY <1>2, TailAt
  <2> QED  BY <2>1 DEF EventsSound
<1> QED  BY <1>1, <1>2

(* The queues and what is handed, when one call runs or one event comes. *)
LEMMA SoundEntries ==
    ASSUME BridgeInv, SoundInv, UNCHANGED rpcs,
           \/ \E c \in Calls : CallStep(c)
           \/ \E e \in CallEvent : Sound(e, rpcs) /\ OnCallEvent(e)
           \/ UNCHANGED <<callStates, handed>>
    PROVE  /\ \A id \in DOMAIN callStates' : EventsSound(callStates'[id].queue, rpcs)
           /\ \A c \in Calls : handed'[c] # Null => Sound(handed'[c], rpcs)
<1>q. \A id \in DOMAIN callStates : callStates[id].queue \in Seq(CallEvent)
    BY CallStateUpdates DEF BridgeInv, TypeInv, TypeOK
<1>e. EventsSound(<< >>, rpcs)
    BY DEF EventsSound
<1>1. ASSUME NEW c \in Calls, CallStep(c)
      PROVE  /\ \A id \in DOMAIN callStates' : EventsSound(callStates'[id].queue, rpcs)
             /\ \A d \in Calls : handed'[d] # Null => Sound(handed'[d], rpcs)
  <2> DEFINE mine == callId[c]
  <2>1. /\ Leaves(c) \/ Yields(c) \/ Awaits(c) \/ Registers(c)
        /\ \A d \in Calls \ {c} : handed'[d] = handed[d]
      BY <1>1, CallCases
  <2>2. /\ mine \in DOMAIN callStates' => EventsSound(callStates'[mine].queue, rpcs)
        /\ handed'[c] # Null => Sound(handed'[c], rpcs)
    <3>1. CASE Leaves(c)
        BY <3>1 DEF Leaves, SoundInv
    <3>2. CASE Yields(c)
        BY <3>2 DEF Yields, SoundInv
    <3>3. CASE Awaits(c)
      <4> DEFINE queue == callStates[mine].queue
      <4>1. mine \in DOMAIN callStates /\ queue # << >> =>
                EventsSound(Tail(queue), rpcs) /\ Sound(Head(queue), rpcs)
          BY <1>q, EventsSoundMove DEF SoundInv
      <4> QED  BY <1>e, <3>3, <4>1 DEF Awaits, WaitOutcome
    <3>4. CASE Registers(c)
        BY <1>e, <3>4 DEF Registers
    <3> QED  BY <2>1, <3>1, <3>2, <3>3, <3>4
  <2>3. OthersKept(callStates, mine)
      BY <2>1 DEF Leaves, Yields, Awaits, Registers, OthersKept
  <2>4. \A id \in DOMAIN callStates' : EventsSound(callStates'[id].queue, rpcs)
    <3> SUFFICES ASSUME NEW id \in DOMAIN callStates', id # mine
                 PROVE  EventsSound(callStates'[id].queue, rpcs)
        BY <2>2
    <3>1. id \in DOMAIN callStates /\ callStates'[id] = callStates[id]
        BY <2>3 DEF OthersKept
    <3> QED  BY <3>1 DEF SoundInv
  <2> QED  BY <2>1, <2>2, <2>4 DEF SoundInv
<1>2. ASSUME NEW e \in CallEvent, Sound(e, rpcs), OnCallEvent(e)
      PROVE  /\ \A id \in DOMAIN callStates' : EventsSound(callStates'[id].queue, rpcs)
             /\ \A d \in Calls : handed'[d] # Null => Sound(handed'[d], rpcs)
  <2> DEFINE mine == e.callId
             c == rpcs[mine].call
  <2>1. /\ OthersKept(callStates, mine)
        /\ \/ mine \notin DOMAIN callStates /\ UNCHANGED <<callStates, pc, handed>>
           \/ mine \in DOMAIN callStates /\ Wakes(e, c)
           \/ Queues(e)
      BY <1>2, EventCases
  <2>2. /\ mine \in DOMAIN callStates' => EventsSound(callStates'[mine].queue, rpcs)
        /\ \A d \in Calls : handed'[d] # Null => Sound(handed'[d], rpcs)
    <3>1. CASE mine \notin DOMAIN callStates /\ UNCHANGED <<callStates, pc, handed>>
        BY <3>1 DEF SoundInv
    <3>2. CASE mine \in DOMAIN callStates /\ Wakes(e, c)
        BY <1>2, <1>e, <3>2 DEF Wakes, SoundInv
    <3>3. CASE Queues(e)
      <4>1. mine \in DOMAIN callStates => EventsSound(Append(callStates[mine].queue, e), rpcs)
          BY <1>2, <1>q, EventsSoundMove DEF SoundInv
      <4> QED  BY <3>3, <4>1 DEF Queues, SoundInv
    <3> QED  BY <2>1, <3>1, <3>2, <3>3
  <2>3. \A id \in DOMAIN callStates' : EventsSound(callStates'[id].queue, rpcs)
    <3> SUFFICES ASSUME NEW id \in DOMAIN callStates', id # mine
                 PROVE  EventsSound(callStates'[id].queue, rpcs)
        BY <2>2
    <3>1. id \in DOMAIN callStates /\ callStates'[id] = callStates[id]
        BY <2>1 DEF OthersKept
    <3> QED  BY <3>1 DEF SoundInv
  <2> QED  BY <2>2, <2>3
<1>3. CASE UNCHANGED <<callStates, handed>>
    BY <1>3 DEF SoundInv
<1> QED  BY <1>1, <1>2, <1>3

LEMMA SoundStep == BridgeInv /\ ActiveInv /\ SoundInv /\ [Next]_vars => SoundInv'
<1> SUFFICES ASSUME BridgeInv, ActiveInv, SoundInv, [Next]_vars
             PROVE  SoundInv'
    OBVIOUS
<1>t. TypeOK /\ TypeInv /\ IdInv /\ toJs \in Seq(JsMessage)
    BY DEF BridgeInv, TypeInv, TypeOK
<1>s. \A e : Sound(e, rpcs) => Sound(e, rpcs')
    BY <1>t, StaysSound
<1>m. MessagesSound(toJs, rpcs) /\ MessagesSound(toJs, rpcs')
    BY <1>s DEF SoundInv, MessagesSound
<1>k. ASSUME UNCHANGED <<callStates, handed>>, MessagesSound(toJs', rpcs')
      PROVE  SoundInv'
    BY <1>k, <1>s DEF SoundInv, EventsSound
<1>1. ASSUME NEW c \in Calls, CallStep(c)
      PROVE  SoundInv'
  <2>1. UNCHANGED <<rpcs, toJs>>
      BY <1>1, <1>t, CallStepFrame
  <2> QED  BY <1>1, <1>m, <2>1, SoundEntries DEF SoundInv
<1>2. CASE (\E c \in Calls : StartCall(c)) \/ (\E p \in Pings : Ping(p)) \/ Shutdown \/ UNCHANGED vars
  <2>1. UNCHANGED <<callStates, handed, toJs>>
      BY <1>2 DEF StartCall, Ping, Shutdown, vars, jsVars
  <2> QED  BY <1>k, <1>m, <2>1
<1>3. ASSUME NEW c \in Calls, NativeCreateCall(c)
      PROVE  SoundInv'
  <2>1. /\ UNCHANGED <<callStates, handed>>
        /\ toJs' = toJs \/ toJs' = Append(toJs, RejectedMessage(c))
      BY <1>3 DEF NativeCreateCall, jsVars
  <2>2. RejectedMessage(c) \in JsMessage /\ RejectedMessage(c).kind # "event"
      BY MessageTypes DEF RejectedMessage
  <2>3. MessagesSound(toJs', rpcs')
      BY <1>t, <1>m, <2>1, <2>2, MessagesSoundMove
  <2> QED  BY <1>k, <2>1, <2>3
<1>4. CASE TakeCreated \/ TakeRejected \/ TakePong \/ TakeSent
  <2>1. UNCHANGED <<callStates, handed>> /\ toJs # << >> /\ toJs' = Tail(toJs)
      BY <1>4 DEF TakeCreated, TakeRejected, TakePong, TakeSent, Take
  <2>2. MessagesSound(toJs', rpcs')
      BY <1>t, <1>m, <2>1, MessagesSoundMove
  <2> QED  BY <1>k, <2>1, <2>2
<1>5. CASE TakeEvent
  <2>1. /\ toJs # << >> /\ toJs' = Tail(toJs) /\ UNCHANGED rpcs /\ Head(toJs).kind = "event"
        /\ OnCallEvent(Head(toJs).event) \/ UNCHANGED <<callStates, handed>>
      BY <1>5 DEF TakeEvent, Take
  <2>2. Head(toJs).event \in CallEvent
      BY <1>t, <2>1, HeadTypes
  <2>3. MessagesSound(toJs', rpcs) /\ Sound(Head(toJs).event, rpcs)
      BY <1>t, <1>m, <2>1, MessagesSoundMove
  <2> QED  BY <2>1, <2>2, <2>3, SoundEntries DEF SoundInv
<1>6. CASE RunCreateCall
  <2> DEFINE c == Head(executor).call
  <2>1. /\ UNCHANGED <<callStates, handed>> /\ c \in Calls
        /\ \E m \in {CreatedMessage(c, NewId), RejectedMessage(c)} : toJs' = Append(toJs, m)
      BY <1>6, <1>t, HeadTypes DEF RunCreateCall, RunTask, jsVars, Launch, LaunchNothing, LaunchThrows
  <2>2. \A m \in {CreatedMessage(c, NewId), RejectedMessage(c)} :
            m \in JsMessage /\ m.kind # "event"
    <3>1. NewId \in CallIds
        BY <1>t, NewIdFresh
    <3> QED  BY <2>1, <3>1, MessageTypes DEF CreatedMessage, RejectedMessage
  <2>3. MessagesSound(toJs', rpcs')
      BY <1>t, <1>m, <2>1, <2>2, MessagesSoundMove
  <2> QED  BY <1>k, <2>1, <2>3
<1>7. CASE RunPing
  <2> DEFINE pong == PongMessage(PongNumber(Head(executor).number))
             sent == SentMessage(Head(executor).ping)
  <2>1. UNCHANGED <<callStates, handed>>
      BY <1>7 DEF RunPing, RunTask, jsVars
  <2>2. pong \in JsMessage /\ sent \in JsMessage /\ pong.kind # "event" /\ sent.kind # "event"
      BY <1>7, <1>t, HeadTypes, MessageTypes DEF RunPing, RunTask, PongMessage, SentMessage
  <2>3. toJs' = Append(Append(toJs, pong), sent)
      BY <1>7, <1>t, <2>2 DEF RunPing
  <2> HIDE DEF pong, sent
  <2>4. MessagesSound(Append(toJs, pong), rpcs')
      BY <1>t, <1>m, <2>2, MessagesSoundMove
  <2>5. Append(toJs, pong) \in Seq(JsMessage)
      BY <1>t, <2>2
  <2>6. MessagesSound(toJs', rpcs')
      BY <2>2, <2>3, <2>4, <2>5, MessagesSoundMove
  <2> QED  BY <1>k, <2>1, <2>6
<1>8. CASE RunEmit
  <2> DEFINE event == Head(executor).event
  <2>1. /\ UNCHANGED <<callStates, handed>> /\ toJs' = Append(toJs, EventMessage(event))
        /\ executor # << >> /\ Head(executor).task = "emit"
      BY <1>8 DEF RunEmit, RunTask, jsVars
  <2>2. EventMessage(event) \in JsMessage /\ EventMessage(event).event = event
      BY <1>t, <2>1, HeadTypes, MessageTypes DEF EventMessage
  <2>3. Sound(event, rpcs')
    <3>1. Head(executor) = executor[1] /\ 1 \in 1 .. Len(executor)
        BY <1>t, <2>1, TailAt DEF TypeOK
    <3> QED  BY <1>s, <2>1, <3>1 DEF ActiveInv, EmitsSound
  <2>4. MessagesSound(toJs', rpcs')
      BY <1>t, <1>m, <2>1, <2>2, <2>3, MessagesSoundMove
  <2> QED  BY <1>k, <2>1, <2>4
<1>9. CASE Network
  <2>1. UNCHANGED <<callStates, handed, toJs>>
      BY <1>9 DEF Network, OnNext, OnCompleted, OnError, Submit, jsVars
  <2> QED  BY <1>k, <1>m, <2>1
<1> QED
    BY <1>1, <1>2, <1>3, <1>4, <1>5, <1>6, <1>7, <1>8, <1>9
       DEF Next, Application, System, JsTask, Executor, CallStep
-----------------------------------------------------------------------------
(* gRPC is called once for a call, and answers before it reports.          *)

(* An answer to c is among the messages, ahead of every event of id. *)
AnsweredFirst(messages, c, id) ==
    \E i \in 1 .. Len(messages) :
        /\ IsAnswer(messages[i]) /\ messages[i].call = c
        /\ \A j \in 1 .. Len(messages) :
              messages[j].kind = "event" /\ messages[j].event.callId = id => i < j

OneCall ==
    /\ \A id \in DOMAIN rpcs :
          LET c == rpcs[id].call IN
          /\ pc[c] # "idle" /\ c \notin toNative
          /\ \A i \in 1 .. Len(executor) : IsCreateTask(executor[i]) => executor[i].call # c
          /\ pc[c] = "creating" => AnsweredFirst(toJs, c, id)
    /\ \A id, other \in DOMAIN rpcs : rpcs[id].call = rpcs[other].call => id = other
    /\ \A c \in Calls : pc[c] # "idle" => listener # "none"

LEMMA AnsweredMove ==
    ASSUME NEW messages \in Seq(JsMessage), NEW c, NEW id
    PROVE  /\ \A m \in JsMessage : AnsweredFirst(messages, c, id)
                                   => AnsweredFirst(Append(messages, m), c, id)
           /\ \A m \in JsMessage :
                 /\ IsAnswer(m) /\ m.call = c
                 /\ \A j \in 1 .. Len(messages) :
                       messages[j].kind = "event" => messages[j].event.callId # id
                 => AnsweredFirst(Append(messages, m), c, id)
           /\ messages # << >> /\ AnsweredFirst(messages, c, id) =>
                 \/ IsAnswer(Head(messages)) /\ Head(messages).call = c
                 \/ /\ AnsweredFirst(Tail(messages), c, id)
                    /\ Head(messages).kind = "event" => Head(messages).event.callId # id
<1>1. ASSUME NEW m \in JsMessage
      PROVE  /\ AnsweredFirst(messages, c, id) => AnsweredFirst(Append(messages, m), c, id)
             /\ /\ IsAnswer(m) /\ m.call = c
                /\ \A j \in 1 .. Len(messages) :
                      messages[j].kind = "event" => messages[j].event.callId # id
                => AnsweredFirst(Append(messages, m), c, id)
  <2> DEFINE more == Append(messages, m)
             last == Len(messages) + 1
  <2>1. /\ Len(more) = last /\ Len(messages) \in Nat /\ more[last] = m
        /\ \A i \in 1 .. Len(messages) : more[i] = messages[i] /\ i < last
      BY AppendAt
  <2> HIDE DEF more
  <2>2. \A i \in 1 .. Len(more) : i \in 1 .. Len(messages) \/ i = last
      BY <2>1
  <2>3. last \in 1 .. Len(more) /\ \A i \in 1 .. Len(messages) : i \in 1 .. Len(more)
      BY <2>1
  <2>4. ASSUME AnsweredFirst(messages, c, id)
        PROVE  AnsweredFirst(more, c, id)
    <3>1. PICK i \in 1 .. Len(messages) :
              /\ IsAnswer(messages[i]) /\ messages[i].call = c
              /\ \A j \in 1 .. Len(messages) :
                    messages[j].kind = "event" /\ messages[j].event.callId = id => i < j
        BY <2>4 DEF AnsweredFirst
    <3>2. \A j \in 1 .. Len(more) : more[j].kind = "event" /\ more[j].event.callId = id => i < j
        BY <2>1, <2>2, <3>1
    <3> QED  BY <2>1, <2>3, <3>1, <3>2 DEF AnsweredFirst
  <2>5. ASSUME IsAnswer(m), m.call = c,
               \A j \in 1 .. Len(messages) :
                      messages[j].kind = "event" => messages[j].event.callId # id
        PROVE  AnsweredFirst(more, c, id)
    <3>1. more[last].kind # "event"
        BY <2>1, <2>5 DEF IsAnswer
    <3>2. \A j \in 1 .. Len(more) : ~(more[j].kind = "event" /\ more[j].event.callId = id)
        BY <2>1, <2>2, <2>5, <3>1
    <3> QED  BY <2>1, <2>3, <2>5, <3>2 DEF AnsweredFirst
  <2> QED  BY <2>4, <2>5 DEF more
<1>2. ASSUME messages # << >>, AnsweredFirst(messages, c, id),
             ~(IsAnswer(Head(messages)) /\ Head(messages).call = c)
      PROVE  /\ AnsweredFirst(Tail(messages), c, id)
             /\ Head(messages).kind = "event" => Head(messages).event.callId # id
  <2> DEFINE rest == Tail(messages)
  <2>1. /\ Len(rest) = Len(messages) - 1 /\ Len(messages) \in Nat \ {0}
        /\ \A i \in 1 .. Len(rest) : i + 1 \in 1 .. Len(messages) /\ rest[i] = messages[i + 1]
        /\ Head(messages) = messages[1] /\ 1 \in 1 .. Len(messages)
      BY <1>2, TailAt
  <2> HIDE DEF rest
  <2>2. PICK i \in 1 .. Len(messages) :
              /\ IsAnswer(messages[i]) /\ messages[i].call = c
              /\ \A j \in 1 .. Len(messages) :
                    messages[j].kind = "event" /\ messages[j].event.callId = id => i < j
      BY <1>2 DEF AnsweredFirst
  <2>3. i # 1
      BY <1>2, <2>1, <2>2
  <2>4. i - 1 \in 1 .. Len(rest) /\ (i - 1) + 1 = i
      BY <2>1, <2>3
  <2>5. rest[i - 1] = messages[i]
      BY <2>1, <2>4
  <2>6. \A j \in 1 .. Len(rest) : rest[j].kind = "event" /\ rest[j].event.callId = id => i - 1 < j
    <3> SUFFICES ASSUME NEW j \in 1 .. Len(rest), rest[j].kind = "event", rest[j].event.callId = id
                 PROVE  i - 1 < j
        OBVIOUS
    <3>1. j + 1 \in 1 .. Len(messages) /\ rest[j] = messages[j + 1]
        BY <2>1
    <3>2. i < j + 1
        BY <2>2, <3>1
    <3> QED  BY <2>1, <3>2
  <2>7. ~(messages[1].kind = "event" /\ messages[1].event.callId = id)
      BY <2>1, <2>2
  <2> QED  BY <2>1, <2>2, <2>4, <2>5, <2>6, <2>7 DEF AnsweredFirst, rest
<1> QED  BY <1>1, <1>2

(* Steps that call gRPC for nobody. *)
LEMMA OneCallKept ==
    ASSUME TypeOK, OneCall,
           DOMAIN rpcs' = DOMAIN rpcs, \A id \in DOMAIN rpcs : rpcs'[id].call = rpcs[id].call,
           \A c \in Calls : /\ c \in toNative' => c \in toNative \/ pc[c] = "idle"
                            /\ pc'[c] = "idle" => pc[c] = "idle"
                            /\ pc'[c] = "creating" => pc[c] \in {"creating", "idle"}
                            /\ pc'[c] # "idle" => listener' # "none",
           \A i \in 1 .. Len(executor') : IsCreateTask(executor'[i]) =>
              \/ executor'[i].call \in toNative
              \/ \E j \in 1 .. Len(executor) : executor'[i] = executor[j],
           \A c \in Calls : \A id : AnsweredFirst(toJs, c, id) /\ pc'[c] = "creating"
                                    => AnsweredFirst(toJs', c, id)
    PROVE  OneCall'
<1>1. ASSUME NEW id \in DOMAIN rpcs
      PROVE  LET c == rpcs[id].call IN
             /\ pc'[c] # "idle" /\ c \notin toNative'
             /\ \A i \in 1 .. Len(executor') : IsCreateTask(executor'[i]) => executor'[i].call # c
             /\ pc'[c] = "creating" => AnsweredFirst(toJs', c, id)
  <2> DEFINE c == rpcs[id].call
  <2>1. c \in Calls
      BY DEF TypeOK, RpcState
  <2>2. /\ pc[c] # "idle" /\ c \notin toNative
        /\ \A i \in 1 .. Len(executor) : IsCreateTask(executor[i]) => executor[i].call # c
        /\ pc[c] = "creating" => AnsweredFirst(toJs, c, id)
      BY DEF OneCall
  <2> HIDE DEF c
  <2>3. pc'[c] # "idle" /\ c \notin toNative'
      BY <2>1, <2>2
  <2>4. \A i \in 1 .. Len(executor') : IsCreateTask(executor'[i]) => executor'[i].call # c
      BY <2>2
  <2>5. pc'[c] = "creating" => AnsweredFirst(toJs', c, id)
      BY <2>1, <2>2
  <2> QED  BY <2>3, <2>4, <2>5 DEF c
<1>2. \A id, other \in DOMAIN rpcs' : rpcs'[id].call = rpcs'[other].call => id = other
    BY DEF OneCall
<1> QED  BY <1>1, <1>2 DEF OneCall

(* The createCall tasks are those there were, and those that came. *)
LEMMA CreateTasksKept ==
    ASSUME TypeOK,
           \/ executor' = executor
           \/ \E t \in Task : /\ IsCreateTask(t) => t.call \in toNative
                              /\ executor' = Append(executor, t)
           \/ executor # << >> /\ executor' = Tail(executor)
    PROVE  \A i \in 1 .. Len(executor') : IsCreateTask(executor'[i]) =>
              \/ executor'[i].call \in toNative
              \/ \E j \in 1 .. Len(executor) : executor'[i] = executor[j]
<1>0. executor \in Seq(Task)
    BY DEF TypeOK
<1>1. CASE executor' = executor
    BY <1>1
<1>2. CASE \E t \in Task : /\ IsCreateTask(t) => t.call \in toNative
                           /\ executor' = Append(executor, t)
  <2> PICK t \in Task : /\ IsCreateTask(t) => t.call \in toNative
                        /\ executor' = Append(executor, t)
      BY <1>2
  <2>1. /\ Len(executor') = Len(executor) + 1 /\ Len(executor) \in Nat
        /\ \A i \in 1 .. Len(executor) : executor'[i] = executor[i]
        /\ executor'[Len(executor) + 1] = t
      BY <1>0, AppendAt
  <2>2. \A i \in 1 .. Len(executor') : i \in 1 .. Len(executor) \/ i = Len(executor) + 1
      BY <2>1
  <2> QED  BY <2>1, <2>2
<1>3. CASE executor # << >> /\ executor' = Tail(executor)
    BY <1>0, <1>3, TailAt
<1> QED  BY <1>1, <1>2, <1>3

(* The call gRPC is called for was not called before. *)
LEMMA OneCallCreated ==
    ASSUME BridgeInv, SoundInv, OneCall, RunCreateCall
    PROVE  OneCall'
<1> DEFINE c == Head(executor).call
<1>t. TypeOK /\ TypeInv /\ IdInv /\ TokenInv
    BY DEF BridgeInv, TypeInv
<1>1. /\ executor # << >> /\ executor' = Tail(executor) /\ Head(executor).task = "createCall"
      /\ UNCHANGED <<pc, toNative, listener>>
    BY DEF RunCreateCall, RunTask, jsVars
<1>2. /\ c \in Calls /\ Head(executor) = executor[1] /\ 1 \in 1 .. Len(executor)
      /\ \A i \in 1 .. Len(executor') : i + 1 \in 1 .. Len(executor) /\ executor'[i] = executor[i + 1]
      /\ Len(executor) \in Nat /\ toJs \in Seq(JsMessage)
    BY <1>1, <1>t, HeadTypes, TailAt DEF TypeOK
<1>3. NewId \in CallIds /\ NewId \notin DOMAIN rpcs
  <2>1. \A i \in DOMAIN rpcs : i \in Nat /\ i < NewId
      BY <1>t DEF IdInv, TypeOK, CallIds
  <2> QED  BY <1>t, <2>1, NewIdFresh DEF CallIds
<1>4. \E s \in {"running", "none", "aborted"} : rpcs' = Put(rpcs, NewId, Rpc(c, s))
    BY DEF RunCreateCall, Launch, LaunchNothing, LaunchThrows
<1>5. /\ DOMAIN rpcs' = DOMAIN rpcs \cup {NewId} /\ rpcs'[NewId].call = c
      /\ \A i \in DOMAIN rpcs : rpcs'[i] = rpcs[i]
    BY <1>3, <1>4 DEF Put, Rpc
<1>6. PICK m \in {CreatedMessage(c, NewId), RejectedMessage(c)} : toJs' = Append(toJs, m)
    BY DEF RunCreateCall, Launch, LaunchNothing, LaunchThrows
<1>7. m \in JsMessage /\ IsAnswer(m) /\ m.call = c
    BY <1>2, <1>3, <1>6, MessageTypes DEF CreatedMessage, RejectedMessage, IsAnswer
<1>8. /\ IsCreateTask(executor[1]) /\ executor[1].call = c
      /\ pc[c] = "creating" /\ c \notin toNative
      /\ \A i \in 1 .. Len(executor) : IsCreateTask(executor[i]) /\ executor[i].call = c => i = 1
    BY <1>t, <1>1, <1>2 DEF TokenInv, IsCreateTask
<1> HIDE DEF c
<1>9. \A i \in 1 .. Len(executor') : IsCreateTask(executor'[i]) => executor'[i].call # c
  <2> SUFFICES ASSUME NEW i \in 1 .. Len(executor'), IsCreateTask(executor'[i]), executor'[i].call = c
               PROVE  FALSE
      OBVIOUS
  <2>1. i + 1 \in 1 .. Len(executor) /\ executor'[i] = executor[i + 1] /\ i + 1 # 1
      BY <1>2
  <2> QED  BY <1>8, <2>1
<1>10. AnsweredFirst(toJs', c, NewId)
  <2>1. \A j \in 1 .. Len(toJs) : toJs[j].kind = "event" => toJs[j].event.callId # NewId
      BY <1>3 DEF SoundInv, MessagesSound, Sound
  <2> QED  BY <1>2, <1>6, <1>7, <2>1, AnsweredMove
<1>11. \A id \in DOMAIN rpcs : rpcs[id].call # c
    BY <1>2, <1>8 DEF OneCall
<1>12. ASSUME NEW id \in DOMAIN rpcs'
       PROVE  LET d == rpcs'[id].call IN
              /\ pc[d] # "idle" /\ d \notin toNative
              /\ \A i \in 1 .. Len(executor') : IsCreateTask(executor'[i]) => executor'[i].call # d
              /\ pc[d] = "creating" => AnsweredFirst(toJs', d, id)
  <2>1. CASE id = NewId
      BY <1>5, <1>8, <1>9, <1>10, <2>1
  <2>2. CASE id \in DOMAIN rpcs
    <3>1. AnsweredFirst(toJs, rpcs[id].call, id) => AnsweredFirst(toJs', rpcs[id].call, id)
        BY <1>2, <1>6, <1>7, AnsweredMove
    <3>2. \A i \in 1 .. Len(executor') : IsCreateTask(executor'[i]) => executor'[i].call # rpcs[id].call
        BY <1>2, <2>2 DEF OneCall
    <3> QED  BY <1>5, <2>2, <3>1, <3>2 DEF OneCall
  <2> QED  BY <1>5, <2>1, <2>2
<1>13. \A id, other \in DOMAIN rpcs' : rpcs'[id].call = rpcs'[other].call => id = other
    BY <1>5, <1>11 DEF OneCall
<1> QED  BY <1>1, <1>12, <1>13 DEF OneCall

LEMMA OneCallStep == BridgeInv /\ SoundInv /\ OneCall /\ [Next]_vars => OneCall'
<1> SUFFICES ASSUME BridgeInv, SoundInv, OneCall, [Next]_vars
             PROVE  OneCall'
    OBVIOUS
<1>t. /\ TypeOK /\ TypeInv /\ TokenInv /\ toJs \in Seq(JsMessage)
      /\ pc \in [Calls -> {"idle", "yielded"} \cup InFlight \cup Settled]
      /\ \A c \in Calls : pc[c] # "idle" => listener # "none"
    BY DEF BridgeInv, TypeInv, TypeOK, OneCall
<1>a. ASSUME NEW m \in JsMessage
      PROVE  \A c, id : AnsweredFirst(toJs, c, id) => AnsweredFirst(Append(toJs, m), c, id)
    BY <1>t, AnsweredMove
<1>1. ASSUME NEW c \in Calls, StartCall(c)
      PROVE  OneCall'
  <2>1. /\ pc[c] = "idle" /\ pc' = [pc EXCEPT ![c] = "creating"] /\ toNative' = toNative \cup {c}
        /\ UNCHANGED <<rpcs, executor, toJs>> /\ listener' # "none"
      BY <1>1 DEF StartCall, nativeVars, Subscribed
  <2>2. pc'[c] = "creating" /\ \A d \in Calls \ {c} : pc'[d] = pc[d]
      BY <1>t, <2>1
  <2> QED  BY <1>t, <2>1, <2>2, CreateTasksKept, OneCallKept
<1>2. ASSUME NEW c \in Calls, CallStep(c)
      PROVE  OneCall'
  <2>1. /\ UNCHANGED <<rpcs, executor, toJs, toNative, listener>>
        /\ pc[c] \in {"yielded", "created", "resumed"}
        /\ pc'[c] \in {"waiting", "resumed", "yielded"} \cup Settled
        /\ \A d \in Calls \ {c} : pc'[d] = pc[d]
      BY <1>2, <1>t, CallStepFrame DEF nativeVars
  <2> QED  BY <1>t, <2>1, CreateTasksKept, OneCallKept DEF Settled
<1>3. ASSUME NEW p \in Pings, Ping(p)
      PROVE  OneCall'
  <2>1. /\ executor' = Append(executor, PingTask(p, pingId)) /\ listener' # "none"
        /\ UNCHANGED <<rpcs, toJs, toNative, pc>>
      BY <1>3 DEF Ping, Subscribed
  <2>2. PingTask(p, pingId) \in Task /\ ~IsCreateTask(PingTask(p, pingId))
      BY <1>t, MessageTypes DEF TypeOK, PingTask, IsCreateTask
  <2> QED  BY <1>t, <2>1, <2>2, CreateTasksKept, OneCallKept
<1>4. CASE Shutdown \/ UNCHANGED vars
  <2>1. /\ UNCHANGED <<rpcs, toJs, toNative, pc, executor>>
        /\ listener' = listener \/ listener' = "removed"
      BY <1>4 DEF Shutdown, vars, jsVars, nativeVars
  <2> QED  BY <1>t, <2>1, CreateTasksKept, OneCallKept
<1>5. ASSUME NEW c \in Calls, NativeCreateCall(c)
      PROVE  OneCall'
  <2>1. /\ c \in toNative /\ toNative' = toNative \ {c} /\ UNCHANGED <<pc, rpcs, listener>>
        /\ executor' = executor \/ executor' = Append(executor, CreateTask(c))
        /\ toJs' = toJs \/ toJs' = Append(toJs, RejectedMessage(c))
      BY <1>5 DEF NativeCreateCall, jsVars
  <2>2. CreateTask(c) \in Task /\ CreateTask(c).call = c /\ RejectedMessage(c) \in JsMessage
      BY MessageTypes DEF CreateTask
  <2>3. \A d, id : AnsweredFirst(toJs, d, id) => AnsweredFirst(toJs', d, id)
      BY <1>a, <2>1, <2>2
  <2> QED  BY <1>t, <2>1, <2>2, <2>3, CreateTasksKept, OneCallKept
<1>6. ASSUME toJs # << >>, toJs' = Tail(toJs), UNCHANGED <<rpcs, executor, toNative, listener>>,
             IsAnswer(Head(toJs)) => pc'[Head(toJs).call] \in {"created", "threw"},
             \A c \in Calls : /\ pc'[c] = "idle" => pc[c] = "idle"
                              /\ pc'[c] = "creating" => pc[c] = "creating"
                              /\ pc[c] = "idle" => pc'[c] = "idle"
      PROVE  OneCall'
  <2>1. \A c \in Calls : \A id : AnsweredFirst(toJs, c, id) /\ pc'[c] = "creating"
                                 => AnsweredFirst(toJs', c, id)
      BY <1>t, <1>6, AnsweredMove
  <2> QED  BY <1>t, <1>6, <2>1, CreateTasksKept, OneCallKept
<1>7. CASE TakeCreated \/ TakeRejected
  <2> DEFINE c == Head(toJs).call
  <2>1. /\ toJs # << >> /\ toJs' = Tail(toJs) /\ UNCHANGED <<rpcs, executor, toNative, listener>>
        /\ IsAnswer(Head(toJs))
        /\ pc' = [pc EXCEPT ![c] = "created"] \/ pc' = [pc EXCEPT ![c] = "threw"]
      BY <1>7 DEF TakeCreated, TakeRejected, Take, IsAnswer, nativeVars
  <2>2. c \in Calls /\ pc[c] = "creating"
    <3>1. Head(toJs) = toJs[1] /\ 1 \in 1 .. Len(toJs)
        BY <1>t, <2>1, TailAt
    <3> QED  BY <1>t, <2>1, <3>1, TokenCalls DEF TokenInv
  <2> HIDE DEF c
  <2>3. pc'[c] \in {"created", "threw"} /\ \A d \in Calls \ {c} : pc'[d] = pc[d]
      BY <1>t, <2>1, <2>2
  <2> QED  BY <1>6, <2>1, <2>2, <2>3 DEF c
<1>8. CASE TakeEvent \/ TakePong \/ TakeSent
  <2>1. /\ toJs # << >> /\ toJs' = Tail(toJs) /\ UNCHANGED <<rpcs, executor, toNative, listener>>
        /\ ~IsAnswer(Head(toJs))
      BY <1>8 DEF TakeEvent, TakePong, TakeSent, Take, IsAnswer, nativeVars
  <2>2. \A c \in Calls : pc'[c] = pc[c] \/ (pc[c] = "waiting" /\ pc'[c] = "resumed")
    <3>1. CASE TakeEvent
      <4>1. Head(toJs).event \in CallEvent
          BY <1>t, <3>1, HeadTypes DEF TakeEvent, Take
      <4>2. OnCallEvent(Head(toJs).event) \/ UNCHANGED pc
          BY <3>1 DEF TakeEvent
      <4> QED  BY <1>t, <4>1, <4>2, WakeFrame DEF BridgeInv, EntryInv
    <3>2. CASE TakePong \/ TakeSent
        BY <3>2 DEF TakePong, TakeSent
    <3> QED  BY <1>8, <3>1, <3>2
  <2> QED  BY <1>6, <2>1, <2>2
<1>9. CASE RunCreateCall
    BY <1>9, OneCallCreated
<1>10. CASE RunPing \/ RunEmit
  <2>1. /\ executor # << >> /\ executor' = Tail(executor) /\ UNCHANGED <<pc, toNative, listener, rpcs>>
      BY <1>10 DEF RunPing, RunEmit, RunTask, jsVars
  <2>2. \A c, id : AnsweredFirst(toJs, c, id) => AnsweredFirst(toJs', c, id)
    <3>1. CASE RunPing
      <4> DEFINE pong == PongMessage(PongNumber(Head(executor).number))
                 sent == SentMessage(Head(executor).ping)
      <4>1. pong \in JsMessage /\ sent \in JsMessage
          BY <1>t, <3>1, HeadTypes, MessageTypes DEF RunPing, RunTask
      <4>2. toJs' = Append(Append(toJs, pong), sent)
          BY <1>t, <3>1, <4>1 DEF RunPing
      <4> HIDE DEF pong, sent
      <4>3. Append(toJs, pong) \in Seq(JsMessage)
          BY <1>t, <4>1
      <4>4. \A c, id : AnsweredFirst(Append(toJs, pong), c, id) => AnsweredFirst(toJs', c, id)
          BY <4>1, <4>2, <4>3, AnsweredMove
      <4> QED  BY <1>a, <4>1, <4>4
    <3>2. CASE RunEmit
      <4>1. /\ toJs' = Append(toJs, EventMessage(Head(executor).event))
            /\ EventMessage(Head(executor).event) \in JsMessage
          BY <1>t, <3>2, HeadTypes, MessageTypes DEF RunEmit, RunTask
      <4> QED  BY <1>a, <4>1
    <3> QED  BY <1>10, <3>1, <3>2
  <2> QED  BY <1>t, <2>1, <2>2, CreateTasksKept, OneCallKept
<1>11. CASE Network
  <2>1. UNCHANGED <<pc, toNative, listener, toJs>>
      BY <1>11 DEF Network, OnNext, OnCompleted, OnError, Submit, jsVars
  <2>2. /\ \E e \in CallEvent : executor' = Append(executor, EmitTask(e))
        /\ DOMAIN rpcs' = DOMAIN rpcs /\ \A i \in DOMAIN rpcs : rpcs'[i].call = rpcs[i].call
      BY <1>t, <1>11, NetworkEvent
  <2>3. \A e \in CallEvent : EmitTask(e) \in Task /\ ~IsCreateTask(EmitTask(e))
      BY MessageTypes DEF EmitTask, IsCreateTask
  <2> QED  BY <1>t, <2>1, <2>2, <2>3, CreateTasksKept, OneCallKept
<1> QED
    BY <1>1, <1>2, <1>3, <1>4, <1>5, <1>7, <1>8, <1>9, <1>10, <1>11
       DEF Next, Application, System, JsTask, Executor, CallStep
-----------------------------------------------------------------------------
(* What a call holds at each place of its function.                        *)

Holds(c) ==
    /\ pc[c] # "resumed" => handed[c] = Null
    /\ pc[c] \in {"idle", "creating", "created"} => delivered[c] = << >>
    /\ pc[c] = "yielded" => callId[c] \in DOMAIN callStates
    /\ pc[c] = "resumed" =>
          (callId[c] \in DOMAIN callStates <=> handed[c].type = "receive")

PlaceInv == OneCall /\ \A c \in Calls : Holds(c)

(* The id of a call, and the call of an id, determine each other. *)
LEMMA OwnId ==
    ASSUME BridgeInv, PlaceInv, NEW id \in DOMAIN rpcs
    PROVE  LET c == rpcs[id].call IN
           /\ c \in Calls /\ pc[c] # "idle"
           /\ pc[c] \in {"created"} \cup Registered => callId[c] = id
           /\ id \in DOMAIN callStates => callId[c] = id /\ pc[c] \in Registered
    BY EntryCalls DEF BridgeInv, TypeInv, TypeOK, RpcState, IdInv, PlaceInv, OneCall

LEMMA CompletesOr ==
    \A e \in CallEvent : Completes(e) <=> e.type # "receive"
    BY DEF CallEvent, Completes

LEMMA HoldsStep == BridgeInv /\ PlaceInv /\ [Next]_vars => \A c \in Calls : Holds(c)'
<1> SUFFICES ASSUME BridgeInv, PlaceInv, [Next]_vars
             PROVE  \A c \in Calls : Holds(c)'
    OBVIOUS
<1>t. /\ TypeOK /\ TypeInv /\ IdInv
      /\ pc \in [Calls -> {"idle", "yielded"} \cup InFlight \cup Settled]
      /\ \A c \in Calls : Holds(c)
    BY DEF BridgeInv, TypeInv, TypeOK, PlaceInv
<1>o. \A c, d \in Calls :
          pc[c] \in {"created"} \cup Registered /\ pc[d] \in {"created"} \cup Registered
          /\ c # d => callId[c] # callId[d]
    BY DEF BridgeInv, IdInv
<1>q. \A id \in DOMAIN callStates : callStates[id].queue \in Seq(CallEvent)
    BY <1>t, CallStateUpdates DEF TypeOK
<1>1. ASSUME NEW d \in Calls, CallStep(d)
      PROVE  \A c \in Calls : Holds(c)'
  <2>1. /\ Leaves(d) \/ Yields(d) \/ Awaits(d) \/ Registers(d)
        /\ \A c \in Calls \ {d} : /\ pc'[c] = pc[c] /\ handed'[c] = handed[c]
                                  /\ delivered'[c] = delivered[c]
      BY <1>1, CallCases
  <2>2. UNCHANGED callId /\ pc[d] \in {"created"} \cup Registered
      BY <1>1, <1>t, CallStepFrame DEF Registered
  <2>3. OthersKept(callStates, callId[d])
      BY <2>1 DEF Leaves, Yields, Awaits, Registers, OthersKept
  <2>4. ASSUME NEW c \in Calls \ {d} PROVE Holds(c)'
    <3>1. pc[c] \in {"yielded", "resumed"} => callId[c] # callId[d]
        BY <1>o, <2>2 DEF Registered
    <3>2. pc[c] \in {"yielded", "resumed"} =>
            (callId[c] \in DOMAIN callStates' <=> callId[c] \in DOMAIN callStates)
        BY <2>3, <3>1 DEF OthersKept
    <3> QED  BY <1>t, <2>1, <2>2, <3>2 DEF Holds
  <2>5. Holds(d)'
    <3>1. CASE Leaves(d)
      <4>1. handed'[d] = Null /\ pc'[d] \in Settled
          BY <1>t, <3>1 DEF Leaves, Holds
      <4> QED  BY <4>1 DEF Holds, Settled
    <3>2. CASE Yields(d)
        BY <1>t, <2>2, <3>2 DEF Yields, Holds
    <3>3. CASE Awaits(d)
      <4>1. CASE callId[d] \in DOMAIN callStates /\ callStates[callId[d]].queue # << >>
        <5>1. Head(callStates[callId[d]].queue) \in CallEvent
            BY <1>q, <4>1
        <5> QED  BY <2>2, <3>3, <4>1, <5>1, CompletesOr DEF Awaits, WaitOutcome, Holds
      <4>2. CASE callId[d] \in DOMAIN callStates /\ callStates[callId[d]].queue = << >>
          BY <2>2, <3>3, <4>2 DEF Awaits, WaitOutcome, Holds
      <4>3. CASE callId[d] \notin DOMAIN callStates
          BY <2>2, <3>3, <4>3 DEF Awaits, WaitOutcome, Holds, Null
      <4> QED  BY <4>1, <4>2, <4>3
    <3>4. CASE Registers(d)
        BY <2>2, <3>4 DEF Registers, Holds
    <3> QED  BY <2>1, <3>1, <3>2, <3>3, <3>4
  <2> QED  BY <2>4, <2>5
<1>2. ASSUME NEW d \in Calls, StartCall(d)
      PROVE  \A c \in Calls : Holds(c)'
  <2>1. /\ pc[d] = "idle" /\ pc' = [pc EXCEPT ![d] = "creating"]
        /\ UNCHANGED <<handed, delivered, callStates, callId>>
      BY <1>2 DEF StartCall
  <2>2. pc'[d] = "creating" /\ \A c \in Calls \ {d} : pc'[c] = pc[c]
      BY <1>t, <2>1
  <2> QED  BY <1>t, <2>1, <2>2 DEF Holds
<1>3. CASE \/ \E p \in Pings : Ping(p)
           \/ \E c \in Calls : NativeCreateCall(c)
           \/ Shutdown \/ TakePong \/ TakeSent \/ Executor \/ Network \/ UNCHANGED vars
  <2>1. UNCHANGED <<pc, handed, delivered, callStates, callId>>
      BY <1>3 DEF Ping, NativeCreateCall, Shutdown, TakePong, TakeSent, Take, Executor,
                  RunCreateCall, RunPing, RunEmit, RunTask, Network, OnNext, OnCompleted,
                  OnError, Submit, vars, jsVars
  <2> QED  BY <1>t, <2>1 DEF Holds
<1>4. CASE TakeCreated \/ TakeRejected
  <2> DEFINE d == Head(toJs).call
  <2>1. /\ toJs # << >> /\ IsAnswer(Head(toJs)) /\ UNCHANGED <<handed, delivered, callStates>>
        /\ pc' = [pc EXCEPT ![d] = "created"] \/ pc' = [pc EXCEPT ![d] = "threw"]
        /\ callId' = [callId EXCEPT ![d] = Head(toJs).id] \/ callId' = callId
      BY <1>4 DEF TakeCreated, TakeRejected, Take, IsAnswer
  <2>2. d \in Calls /\ pc[d] = "creating"
    <3>1. Head(toJs) = toJs[1] /\ 1 \in 1 .. Len(toJs)
        BY <1>t, <2>1, TailAt DEF TypeOK
    <3> QED  BY <1>t, <2>1, <3>1, TokenCalls DEF BridgeInv, TokenInv
  <2>3. callId \in [Calls -> Nat]
      BY <1>t DEF TypeOK
  <2> HIDE DEF d
  <2>4. /\ pc'[d] \in {"created", "threw"}
        /\ \A c \in Calls \ {d} : pc'[c] = pc[c] /\ callId'[c] = callId[c]
      BY <1>t, <2>1, <2>2, <2>3
  <2> QED  BY <1>t, <2>1, <2>2, <2>4 DEF Holds
<1>5. CASE TakeEvent
  <2> DEFINE e == Head(toJs).event
  <2>1. /\ e \in CallEvent /\ UNCHANGED <<delivered, callId>>
        /\ OnCallEvent(e) \/ UNCHANGED <<callStates, pc, handed>>
      BY <1>5, <1>t, HeadTypes DEF TakeEvent, Take
  <2> HIDE DEF e
  <2>2. CASE UNCHANGED <<callStates, pc, handed>>
      BY <1>t, <2>1, <2>2 DEF Holds
  <2>3. CASE OnCallEvent(e)
    <3>1. /\ OthersKept(callStates, e.callId)
          /\ \/ e.callId \notin DOMAIN callStates /\ UNCHANGED <<callStates, pc, handed>>
             \/ e.callId \in DOMAIN callStates /\ Wakes(e, rpcs[e.callId].call)
             \/ Queues(e)
        BY <2>1, <2>3, EventCases
    <3>2. CASE e.callId \notin DOMAIN callStates /\ UNCHANGED <<callStates, pc, handed>>
        BY <1>t, <2>1, <3>2 DEF Holds
    <3>3. CASE Queues(e)
      <4>1. \A id : id \in DOMAIN callStates' <=> id \in DOMAIN callStates
          BY <3>1, <3>3 DEF Queues, OthersKept
      <4> QED  BY <1>t, <2>1, <3>3, <4>1 DEF Holds, Queues
    <3>4. CASE e.callId \in DOMAIN callStates /\ Wakes(e, rpcs[e.callId].call)
      <4>1. rpcs[e.callId].call \in Calls
          BY <1>t, <3>4, EntryCalls DEF BridgeInv
      <4> PICK d \in Calls : d = rpcs[e.callId].call
          BY <4>1
      <4>2. Holds(d)'
          BY <2>1, <3>4, CompletesOr DEF Wakes, Holds
      <4>3. ASSUME NEW c \in Calls \ {d} PROVE Holds(c)'
        <5>1. pc[d] = "waiting" /\ callId[d] = e.callId
            BY <3>4 DEF Wakes
        <5>2. pc[c] \in {"yielded", "resumed"} => callId[c] # e.callId
            BY <1>o, <4>1, <5>1 DEF Registered
        <5>3. pc[c] \in {"yielded", "resumed"} =>
                 (callId[c] \in DOMAIN callStates' <=> callId[c] \in DOMAIN callStates)
            BY <3>1, <5>2 DEF OthersKept
        <5>4. pc'[c] = pc[c] /\ handed'[c] = handed[c]
            BY <3>4 DEF Wakes
        <5> QED  BY <1>t, <2>1, <5>3, <5>4 DEF Holds
      <4> QED  BY <4>2, <4>3
    <3> QED  BY <3>1, <3>2, <3>3, <3>4
  <2> QED  BY <2>1, <2>2, <2>3
<1> QED
    BY <1>1, <1>2, <1>3, <1>4, <1>5 DEF Next, Application, System, JsTask, CallStep
-----------------------------------------------------------------------------
(* The number of an event among those of call id: a message has its own,   *)
(* the end of the call follows the last message; 0 for other calls.        *)
EventNumber(id, call) ==
    [e \in CallEvent |->
        IF e.callId # id THEN 0 ELSE IF Completes(e) THEN call.sent + 1 ELSE e.message]
TaskNumber(id, call) ==
    [t \in Task |-> IF t.task = "emit" THEN EventNumber(id, call)[t.event] ELSE 0]
MessageNumber(id, call) ==
    [m \in JsMessage |-> IF m.kind = "event" THEN EventNumber(id, call)[m.event] ELSE 0]

Numbers(s, number) == [i \in 1 .. Len(s) |-> number[s[i]]]

(* The number of the last report of a call so far. *)
Last(call) == IF call.status \in Closed THEN call.sent + 1 ELSE call.sent

LEMMA NumberTypes ==
    ASSUME NEW id, NEW call \in RpcState
    PROVE  /\ EventNumber(id, call) \in [CallEvent -> Nat]
           /\ TaskNumber(id, call) \in [Task -> Nat]
           /\ MessageNumber(id, call) \in [JsMessage -> Nat]
           /\ call.sent \in Nat /\ Last(call) \in Nat
<1>1. call.sent \in Nat /\ call.sent + 1 \in Nat
    BY DEF RpcState
<1>2. \A e \in CallEvent : e.message \in Nat
    BY DEF CallEvent
<1>3. EventNumber(id, call) \in [CallEvent -> Nat]
    BY <1>1, <1>2 DEF EventNumber
<1>4. \A t \in Task : t.task = "emit" => t.event \in CallEvent
    BY DEF Task
<1>5. \A m \in JsMessage : m.kind = "event" => m.event \in CallEvent
    BY DEF JsMessage
<1>6. TaskNumber(id, call) \in [Task -> Nat]
    BY <1>3, <1>4 DEF TaskNumber
<1>7. MessageNumber(id, call) \in [JsMessage -> Nat]
    BY <1>3, <1>5 DEF MessageNumber
<1> QED  BY <1>1, <1>3, <1>6, <1>7 DEF Last

(* Of what gRPC reported, exactly the events of the call have a number. *)
LEMMA NumberOf ==
    ASSUME NEW calls, NEW id, calls[id] \in RpcState, NEW e \in CallEvent, Sound(e, calls)
    PROVE  LET n == EventNumber(id, calls[id])[e] IN
           /\ e.callId # id => n = 0
           /\ e.callId = id => n # 0
           /\ e.callId = id /\ ~Completes(e) => n = e.message /\ n <= calls[id].sent
           /\ e.callId = id /\ Completes(e) =>
                 n = calls[id].sent + 1 /\ n = Last(calls[id]) /\ calls[id].status \in Closed
<1>1. calls[id].sent \in Nat
    BY DEF RpcState
<1>2. EventNumber(id, calls[id])[e] =
        IF e.callId # id THEN 0 ELSE IF Completes(e) THEN calls[id].sent + 1 ELSE e.message
    BY DEF EventNumber
<1>3. e.callId = id /\ ~Completes(e) => e.message \in 1 .. calls[id].sent
    BY CompletesOr DEF Sound
<1>4. e.callId = id /\ Completes(e) => calls[id].status \in Closed
    BY DEF Completes, Sound, Closed
<1> QED  BY <1>1, <1>2, <1>3, <1>4 DEF Last

LEMMA NumbersMove ==
    ASSUME NEW S, NEW s \in Seq(S), NEW number \in [S -> Nat]
    PROVE  /\ Numbers(s, number) \in Seq(Nat) /\ Len(Numbers(s, number)) = Len(s)
           /\ \A x \in S : Numbers(Append(s, x), number) = Append(Numbers(s, number), number[x])
           /\ s # << >> => /\ Numbers(s, number) # << >>
                           /\ Numbers(Tail(s), number) = Tail(Numbers(s, number))
                           /\ Head(Numbers(s, number)) = number[Head(s)]
<1>1. /\ Numbers(s, number) \in Seq(Nat) /\ Len(Numbers(s, number)) = Len(s)
      /\ Len(s) \in Nat /\ \A i \in 1 .. Len(s) : s[i] \in S
    BY DEF Numbers
<1>2. ASSUME NEW x \in S
      PROVE  Numbers(Append(s, x), number) = Append(Numbers(s, number), number[x])
  <2>1. Append(s, x) \in Seq(S) /\ Len(Append(s, x)) = Len(s) + 1
      OBVIOUS
  <2>2. /\ Numbers(Append(s, x), number) = [i \in 1 .. Len(s) + 1 |-> number[Append(s, x)[i]]]
        /\ Append(Numbers(s, number), number[x]) \in Seq(Nat)
        /\ Len(Append(Numbers(s, number), number[x])) = Len(s) + 1
      BY <1>1, <2>1 DEF Numbers
  <2>3. \A i \in 1 .. Len(s) + 1 :
            Append(Numbers(s, number), number[x])[i] = number[Append(s, x)[i]]
      BY <1>1 DEF Numbers
  <2> HIDE DEF Numbers
  <2>4. Append(Numbers(s, number), number[x]) =
            [i \in 1 .. Len(s) + 1 |-> Append(Numbers(s, number), number[x])[i]]
      BY <2>2
  <2> QED  BY <2>2, <2>3, <2>4
<1>3. ASSUME s # << >>
      PROVE  /\ Numbers(s, number) # << >>
             /\ Numbers(Tail(s), number) = Tail(Numbers(s, number))
             /\ Head(Numbers(s, number)) = number[Head(s)]
  <2>1. /\ Tail(s) \in Seq(S) /\ Len(Tail(s)) = Len(s) - 1 /\ Len(s) \in Nat \ {0}
        /\ \A i \in 1 .. Len(s) - 1 : Tail(s)[i] = s[i + 1]
        /\ Head(s) = s[1]
      BY <1>3
  <2>2. Numbers(s, number) # << >> /\ Head(Numbers(s, number)) = number[Head(s)]
      BY <1>1, <2>1 DEF Numbers
  <2>3. /\ Numbers(Tail(s), number) \in Seq(Nat) /\ Len(Numbers(Tail(s), number)) = Len(s) - 1
        /\ \A i \in 1 .. Len(s) - 1 : Numbers(Tail(s), number)[i] = number[s[i + 1]]
      BY <1>1, <2>1 DEF Numbers
  <2>4. /\ Tail(Numbers(s, number)) \in Seq(Nat) /\ Len(Tail(Numbers(s, number))) = Len(s) - 1
        /\ \A i \in 1 .. Len(s) - 1 : Tail(Numbers(s, number))[i] = number[s[i + 1]]
    <3>1. /\ Tail(Numbers(s, number)) \in Seq(Nat) /\ Len(Tail(Numbers(s, number))) = Len(s) - 1
          /\ \A i \in 1 .. Len(s) - 1 : Tail(Numbers(s, number))[i] = Numbers(s, number)[i + 1]
        BY <1>1, <2>1, <2>2
    <3>2. \A i \in 1 .. Len(s) - 1 : Numbers(s, number)[i + 1] = number[s[i + 1]]
        BY <2>1 DEF Numbers
    <3> QED  BY <3>1, <3>2
  <2> HIDE DEF Numbers
  <2>5. \A a, b \in Seq(Nat) : Len(a) = Len(b) /\ (\A i \in 1 .. Len(a) : a[i] = b[i]) => a = b
      OBVIOUS
  <2> QED  BY <2>2, <2>3, <2>4, <2>5
<1> QED  BY <1>1, <1>2, <1>3

(* An element comes, or the first one goes. *)
LEMMA CarriesMore ==
    ASSUME NEW S, NEW s \in Seq(S), NEW number \in [S -> Nat], NEW lo, NEW hi,
           Carries(Numbers(s, number), lo, hi), NEW x \in S
    PROVE  /\ number[x] = 0 => Carries(Numbers(Append(s, x), number), lo, hi)
           /\ number[x] = hi + 1 => Carries(Numbers(Append(s, x), number), lo, hi + 1)
<1>1. /\ Numbers(s, number) \in Seq(Nat)
      /\ Numbers(Append(s, x), number) = Append(Numbers(s, number), number[x])
    BY NumbersMove
<1>2. hi \in Nat
    BY DEF Carries
<1> HIDE DEF Numbers
<1>3. ASSUME number[x] = 0 PROVE Carries(Append(Numbers(s, number), number[x]), lo, hi)
    BY <1>1, <1>3, CarriesAppend
<1>4. ASSUME number[x] = hi + 1 PROVE Carries(Append(Numbers(s, number), number[x]), lo, hi + 1)
  <2>1. number[x] # 0
      BY <1>2, <1>4
  <2> QED  BY <1>1, <1>4, <2>1, CarriesAppend
<1> QED  BY <1>1, <1>3, <1>4

LEMMA CarriesLess ==
    ASSUME NEW S, NEW s \in Seq(S), s # << >>, NEW number \in [S -> Nat], NEW lo, NEW hi,
           Carries(Numbers(s, number), lo, hi)
    PROVE  /\ number[Head(s)] = 0 => Carries(Numbers(Tail(s), number), lo, hi)
           /\ number[Head(s)] # 0 => /\ number[Head(s)] = lo + 1 /\ lo + 1 <= hi
                                     /\ Carries(Numbers(Tail(s), number), lo + 1, hi)
<1>1. /\ Numbers(s, number) \in Seq(Nat) /\ Numbers(s, number) # << >>
      /\ Numbers(Tail(s), number) = Tail(Numbers(s, number))
      /\ Head(Numbers(s, number)) = number[Head(s)]
    BY NumbersMove
<1> DEFINE numbers == Numbers(s, number)
<1>2. numbers \in Seq(Nat) /\ numbers # << >> /\ Carries(numbers, lo, hi)
    BY <1>1
<1> HIDE DEF numbers
<1>3. /\ Head(numbers) = 0 => Carries(Tail(numbers), lo, hi)
      /\ Head(numbers) # 0 => /\ Head(numbers) = lo + 1 /\ lo + 1 <= hi
                              /\ Carries(Tail(numbers), lo + 1, hi)
    BY <1>2, CarriesTail
<1> QED  BY <1>1, <1>3 DEF numbers

LEMMA CarriesNothing ==
    ASSUME NEW number
    PROVE  /\ \A lo \in Nat : Carries(Numbers(<< >>, number), lo, lo)
           /\ \A lo, hi : Carries(Numbers(<< >>, number), lo, hi) => lo = hi
<1>1. Numbers(<< >>, number) = << >>
    BY DEF Numbers
<1>2. \A lo \in Nat : Carries(<< >>, lo, lo)
  <2>1. << >> \in Seq(Nat) /\ \A i \in 1 .. Len(<< >>) : << >>[i] = 0
      OBVIOUS
  <2> QED  BY <2>1, CarriesNone
<1> QED  BY <1>1, <1>2, CarriesEmpty

-----------------------------------------------------------------------------
(* What is on its way from gRPC to JavaScript: the reports of call id that *)
(* follow q.                                                               *)
Coming(messages, tasks, id, call, q) ==
    \E j \in Nat : /\ Carries(Numbers(messages, MessageNumber(id, call)), q, j)
                   /\ Carries(Numbers(tasks, TaskNumber(id, call)), j, Last(call))

LEMMA ComingMove ==
    ASSUME NEW messages \in Seq(JsMessage), NEW tasks \in Seq(Task), NEW id, NEW call \in RpcState,
           NEW q, Coming(messages, tasks, id, call, q)
    PROVE  /\ q \in Nat /\ q <= Last(call)
           /\ \A m \in JsMessage : m.kind # "event" =>
                 Coming(Append(messages, m), tasks, id, call, q)
           /\ \A t \in Task : t.task # "emit" =>
                 Coming(messages, Append(tasks, t), id, call, q)
           /\ messages # << >> =>
                 /\ MessageNumber(id, call)[Head(messages)] = 0 =>
                       Coming(Tail(messages), tasks, id, call, q)
                 /\ MessageNumber(id, call)[Head(messages)] # 0 =>
                       /\ MessageNumber(id, call)[Head(messages)] = q + 1
                       /\ Coming(Tail(messages), tasks, id, call, q + 1)
           /\ tasks # << >> /\ Head(tasks).task # "emit" =>
                 Coming(messages, Tail(tasks), id, call, q)
           /\ tasks # << >> /\ Head(tasks).task = "emit" =>
                 Coming(Append(messages, EventMessage(Head(tasks).event)), Tail(tasks), id, call, q)
<1> DEFINE ofMessage == MessageNumber(id, call)
           ofTask == TaskNumber(id, call)
<1>t. /\ ofMessage \in [JsMessage -> Nat] /\ ofTask \in [Task -> Nat] /\ Last(call) \in Nat
    BY NumberTypes
<1>m. \A m \in JsMessage : m.kind # "event" => ofMessage[m] = 0
    BY DEF MessageNumber
<1>k. \A t \in Task : t.task # "emit" => ofTask[t] = 0
    BY DEF TaskNumber
<1>e. \A t \in Task : t.task = "emit" =>
          EventMessage(t.event) \in JsMessage /\ ofMessage[EventMessage(t.event)] = ofTask[t]
  <2> SUFFICES ASSUME NEW t \in Task, t.task = "emit"
               PROVE  EventMessage(t.event) \in JsMessage /\ ofMessage[EventMessage(t.event)] = ofTask[t]
      OBVIOUS
  <2>1. t.event \in CallEvent
      BY DEF Task
  <2>2. EventMessage(t.event) \in JsMessage
      BY <2>1, MessageTypes
  <2>3. EventMessage(t.event).kind = "event" /\ EventMessage(t.event).event = t.event
      BY DEF EventMessage
  <2> QED  BY <2>2, <2>3 DEF MessageNumber, TaskNumber
<1> PICK j \in Nat : /\ Carries(Numbers(messages, ofMessage), q, j)
                     /\ Carries(Numbers(tasks, ofTask), j, Last(call))
    BY DEF Coming
<1>c. \A s, u, i, n : /\ n \in Nat /\ Carries(Numbers(s, ofMessage), i, n)
                      /\ Carries(Numbers(u, ofTask), n, Last(call))
                      => Coming(s, u, id, call, i)
    BY DEF Coming
<1> HIDE DEF ofMessage, ofTask
<1>1. q \in Nat /\ q <= Last(call)
    BY <1>t DEF Carries
<1>2. ASSUME NEW m \in JsMessage, m.kind # "event"
      PROVE  Coming(Append(messages, m), tasks, id, call, q)
  <2>1. Carries(Numbers(Append(messages, m), ofMessage), q, j)
      BY <1>t, <1>m, <1>2, CarriesMore
  <2> QED  BY <1>c, <2>1
<1>3. ASSUME NEW t \in Task, t.task # "emit"
      PROVE  Coming(messages, Append(tasks, t), id, call, q)
  <2>1. Carries(Numbers(Append(tasks, t), ofTask), j, Last(call))
      BY <1>t, <1>k, <1>3, CarriesMore
  <2> QED  BY <1>c, <2>1
<1>4. ASSUME messages # << >>
      PROVE  /\ ofMessage[Head(messages)] = 0 => Coming(Tail(messages), tasks, id, call, q)
             /\ ofMessage[Head(messages)] # 0 =>
                   /\ ofMessage[Head(messages)] = q + 1
                   /\ Coming(Tail(messages), tasks, id, call, q + 1)
  <2>1. /\ ofMessage[Head(messages)] = 0 => Carries(Numbers(Tail(messages), ofMessage), q, j)
        /\ ofMessage[Head(messages)] # 0 =>
              /\ ofMessage[Head(messages)] = q + 1
              /\ Carries(Numbers(Tail(messages), ofMessage), q + 1, j)
      BY <1>t, <1>4, CarriesLess
  <2> QED  BY <1>c, <2>1
<1>5. ASSUME tasks # << >>, Head(tasks).task # "emit"
      PROVE  Coming(messages, Tail(tasks), id, call, q)
  <2>1. Head(tasks) \in Task
      BY <1>5
  <2>2. Carries(Numbers(Tail(tasks), ofTask), j, Last(call))
      BY <1>t, <1>k, <1>5, <2>1, CarriesLess
  <2> QED  BY <1>c, <2>2
<1>6. ASSUME tasks # << >>, Head(tasks).task = "emit"
      PROVE  Coming(Append(messages, EventMessage(Head(tasks).event)), Tail(tasks), id, call, q)
  <2> DEFINE m == EventMessage(Head(tasks).event)
  <2>1. Head(tasks) \in Task
      BY <1>6
  <2>2. m \in JsMessage /\ ofMessage[m] = ofTask[Head(tasks)]
      BY <1>e, <1>6, <2>1
  <2> HIDE DEF m
  <2>3. CASE ofTask[Head(tasks)] = 0
    <3>1. Carries(Numbers(Tail(tasks), ofTask), j, Last(call))
        BY <1>t, <1>6, <2>3, CarriesLess
    <3>2. Carries(Numbers(Append(messages, m), ofMessage), q, j)
        BY <1>t, <2>2, <2>3, CarriesMore
    <3> QED  BY <1>c, <3>1, <3>2 DEF m
  <2>4. CASE ofTask[Head(tasks)] # 0
    <3>1. ofTask[Head(tasks)] = j + 1 /\ Carries(Numbers(Tail(tasks), ofTask), j + 1, Last(call))
        BY <1>t, <1>6, <2>4, CarriesLess
    <3>2. Carries(Numbers(Append(messages, m), ofMessage), q, j + 1)
        BY <1>t, <2>2, <3>1, CarriesMore
    <3>3. j + 1 \in Nat
        OBVIOUS
    <3> QED  BY <1>c, <3>1, <3>2, <3>3 DEF m
  <2> QED  BY <2>3, <2>4
<1> QED  BY <1>1, <1>2, <1>3, <1>4, <1>5, <1>6 DEF ofMessage
-----------------------------------------------------------------------------
(* What has arrived of call id: its caller was given, or is being handed,  *)
(* the reports up to r, and those after r up to q are queued for it.       *)
Given(given, event, place, id, call, r) ==
    /\ \A i \in 1 .. Len(given) : given[i] = i
    /\ Len(given) <= call.sent
    /\ event # Null => r = Len(given) + 1 /\ EventNumber(id, call)[event] = r
    /\ event = Null =>
          IF place = "resumed"
          THEN r = Len(given) + 1 /\ Len(given) = call.sent /\ call.status \in Closed
          ELSE r = Len(given)

Queued(states, id, call, r, q) ==
    IF id \in DOMAIN states
    THEN Carries(Numbers(states[id].queue, EventNumber(id, call)), r, q)
    ELSE r = q

Arrived(id, q) ==
    LET c == rpcs[id].call IN
    \E r \in Nat : /\ Given(delivered[c], handed[c], pc[c], id, rpcs[id], r)
                   /\ Queued(callStates, id, rpcs[id], r, q)

(* What has arrived, and, while the listener is there, what will arrive. *)
Flows(id) ==
    \E q \in Nat :
        /\ Arrived(id, q) /\ q <= Last(rpcs[id])
        /\ listener = "listening" => Coming(toJs, executor, id, rpcs[id], q)

(* Numbers are not changed by what gRPC reports next. *)
LEMMA NumbersKept ==
    ASSUME TypeInv, IdInv, [Next]_vars, NEW id \in DOMAIN rpcs
    PROVE  /\ rpcs[id] \in RpcState /\ rpcs'[id] \in RpcState
           /\ \A e \in CallEvent : Sound(e, rpcs) =>
                 EventNumber(id, rpcs'[id])[e] = EventNumber(id, rpcs[id])[e]
           /\ \A s \in Seq(CallEvent) : EventsSound(s, rpcs) =>
                 Numbers(s, EventNumber(id, rpcs'[id])) = Numbers(s, EventNumber(id, rpcs[id]))
<1>1. rpcs[id] \in RpcState /\ rpcs'[id] \in RpcState
    BY TypeStep, RpcsKept DEF TypeInv, TypeOK
<1>2. ASSUME NEW e \in CallEvent, Sound(e, rpcs)
      PROVE  EventNumber(id, rpcs'[id])[e] = EventNumber(id, rpcs[id])[e]
  <2>1. CASE e.callId = id /\ Completes(e)
    <3>1. rpcs[id].status \in Closed
        BY <1>2, <2>1 DEF Sound, Completes, Closed
    <3> QED  BY <3>1, RpcsKept
  <2>2. CASE ~(e.callId = id /\ Completes(e))
      BY <2>2 DEF EventNumber
  <2> QED  BY <2>1, <2>2
<1>3. ASSUME NEW s \in Seq(CallEvent), EventsSound(s, rpcs)
      PROVE  Numbers(s, EventNumber(id, rpcs'[id])) = Numbers(s, EventNumber(id, rpcs[id]))
  <2>1. \A i \in 1 .. Len(s) : EventNumber(id, rpcs'[id])[s[i]] = EventNumber(id, rpcs[id])[s[i]]
      BY <1>2, <1>3 DEF EventsSound
  <2> QED  BY <2>1 DEF Numbers
<1> QED  BY <1>1, <1>2, <1>3

(* A step that changes nothing for the caller of call id. *)
LEMMA ArrivedKept ==
    ASSUME BridgeInv, SoundInv, [Next]_vars, NEW id \in DOMAIN rpcs, NEW q, Arrived(id, q),
           NEW c \in Calls, c = rpcs[id].call,
           delivered'[c] = delivered[c], handed'[c] = handed[c],
           pc'[c] = "resumed" <=> pc[c] = "resumed",
           id \in DOMAIN callStates' <=> id \in DOMAIN callStates,
           id \in DOMAIN callStates => callStates'[id] = callStates[id]
    PROVE  Arrived(id, q)'
<1>t. TypeInv /\ IdInv
    BY DEF BridgeInv
<1>1. /\ rpcs'[id].call = c /\ rpcs[id].sent \in Nat /\ rpcs'[id].sent \in Nat
      /\ rpcs[id].sent <= rpcs'[id].sent
      /\ rpcs[id].status \in Closed => rpcs'[id] = rpcs[id]
    BY <1>t, RpcsKept
<1> PICK r \in Nat : /\ Given(delivered[c], handed[c], pc[c], id, rpcs[id], r)
                     /\ Queued(callStates, id, rpcs[id], r, q)
    BY DEF Arrived
<1>2. Given(delivered'[c], handed'[c], pc'[c], id, rpcs'[id], r)
  <2>1. delivered[c] \in Seq(Nat) /\ handed[c] \in CallEvent \cup {Null}
      BY <1>t DEF TypeInv, TypeOK
  <2>2. handed[c] # Null =>
            EventNumber(id, rpcs'[id])[handed[c]] = EventNumber(id, rpcs[id])[handed[c]]
      BY <1>t, <2>1, NumbersKept DEF SoundInv
  <2>3. Len(delivered[c]) <= rpcs'[id].sent
      BY <1>1, <2>1 DEF Given
  <2> QED  BY <1>1, <2>2, <2>3 DEF Given
<1>3. Queued(callStates', id, rpcs'[id], r, q)
  <2>1. id \in DOMAIN callStates =>
            /\ callStates[id].queue \in Seq(CallEvent)
            /\ EventsSound(callStates[id].queue, rpcs)
      BY <1>t, CallStateUpdates DEF TypeInv, TypeOK, SoundInv
  <2> QED  BY <1>t, <2>1, NumbersKept DEF Queued
<1> QED  BY <1>1, <1>2, <1>3 DEF Arrived

(* The caller of call id is handed the event that follows r. *)
LEMMA GivenNext ==
    ASSUME NEW calls, NEW id, calls[id] \in RpcState, NEW e \in CallEvent, Sound(e, calls),
           NEW given \in Seq(Nat), NEW place, place # "resumed", NEW r \in Nat,
           Given(given, Null, place, id, calls[id], r),
           EventNumber(id, calls[id])[e] = r + 1
    PROVE  Given(given, e, "resumed", id, calls[id], r + 1) /\ e # Null
<1>1. e # Null
    BY DEF Null, CallEvent
<1> QED  BY <1>1 DEF Given

(* The caller of call id awaits its next event. *)
LEMMA ArrivedAwaits ==
    ASSUME BridgeInv, PlaceInv, SoundInv, NEW id \in DOMAIN rpcs, NEW q, Arrived(id, q),
           q <= Last(rpcs[id]), NEW c \in Calls, c = rpcs[id].call, callId[c] = id,
           Awaits(c), UNCHANGED rpcs
    PROVE  Arrived(id, q)'
<1>t. /\ TypeInv /\ delivered[c] \in Seq(Nat) /\ handed[c] \in CallEvent \cup {Null}
      /\ rpcs[id] \in RpcState /\ Holds(c)
    BY DEF BridgeInv, TypeInv, TypeOK, PlaceInv
<1>n. rpcs[id].sent \in Nat /\ Last(rpcs[id]) \in Nat
    BY <1>t, NumberTypes
<1> DEFINE number == EventNumber(id, rpcs[id])
           queue == callStates[id].queue
<1> PICK r \in Nat : /\ Given(delivered[c], handed[c], pc[c], id, rpcs[id], r)
                     /\ Queued(callStates, id, rpcs[id], r, q)
    BY DEF Arrived
<1>g. \A r2 \in Nat : /\ Given(delivered'[c], handed'[c], pc'[c], id, rpcs'[id], r2)
                      /\ Queued(callStates', id, rpcs'[id], r2, q)
                      => Arrived(id, q)'
    BY DEF Arrived
<1>d. UNCHANGED delivered
    BY DEF Awaits
<1>1. CASE pc[c] = "resumed" /\ handed[c].type = "end"
  <2>1. handed[c] # Null /\ handed[c] \in CallEvent
      BY <1>t, <1>1 DEF Null
  <2>2. id \notin DOMAIN callStates
      BY <1>t, <1>1 DEF Holds
  <2>3. r = q /\ id \notin DOMAIN callStates' /\ pc'[c] = "resumed" /\ handed'[c] = Null
      BY <2>2 DEF Queued, Awaits, WaitOutcome
  <2>4. r = Len(delivered[c]) + 1 /\ number[handed[c]] = r
      BY <2>1 DEF Given
  <2>5. r = rpcs[id].sent + 1 /\ rpcs[id].status \in Closed
    <3>1. Sound(handed[c], rpcs) /\ Completes(handed[c])
        BY <1>1, <2>1 DEF SoundInv, Completes
    <3>2. handed[c].callId = id
      <4>1. r # 0
          BY <1>t, <2>4
      <4> QED  BY <1>t, <2>1, <2>4, <3>1, <4>1, NumberOf
    <3> QED  BY <1>t, <2>1, <2>4, <3>1, <3>2, NumberOf
  <2>6. Len(delivered[c]) = rpcs[id].sent
      BY <1>t, <1>n, <2>4, <2>5
  <2>7. Given(delivered[c], Null, "resumed", id, rpcs[id], r)
      BY <2>4, <2>5, <2>6 DEF Given
  <2>8. Queued(callStates', id, rpcs[id], r, q)
      BY <2>3 DEF Queued
  <2> QED  BY <1>g, <1>d, <2>3, <2>7, <2>8
<1>2. CASE pc[c] = "yielded"
  <2>1. id \in DOMAIN callStates /\ handed[c] = Null
      BY <1>t, <1>2 DEF Holds
  <2>2. queue \in Seq(CallEvent) /\ EventsSound(queue, rpcs)
      BY <1>t, <2>1, CallStateUpdates DEF TypeInv, TypeOK, SoundInv
  <2>3. Carries(Numbers(queue, number), r, q) /\ number \in [CallEvent -> Nat]
      BY <1>t, <2>1, NumberTypes DEF Queued
  <2>4. CASE queue # << >>
    <3> DEFINE e == Head(queue)
    <3>1. /\ pc'[c] = "resumed" /\ handed'[c] = e
          /\ Completes(e) => id \notin DOMAIN callStates'
          /\ ~Completes(e) => id \in DOMAIN callStates' /\ callStates'[id].queue = Tail(queue)
        BY <2>1, <2>4 DEF Awaits, WaitOutcome
    <3>2. e \in CallEvent /\ Sound(e, rpcs) /\ e.callId = id
      <4>1. e = queue[1] /\ 1 \in 1 .. Len(queue)
          BY <2>2, <2>4, TailAt
      <4> QED  BY <2>1, <2>2, <2>4, <4>1, EventsSoundMove DEF BridgeInv, EntryInv, QueuesOwn
    <3>3. number[e] # 0
        BY <1>t, <3>2, NumberOf
    <3>4. number[e] = r + 1 /\ r + 1 <= q /\ Carries(Numbers(Tail(queue), number), r + 1, q)
        BY <2>2, <2>3, <2>4, <3>3, CarriesLess
    <3> HIDE DEF e
    <3>5. Given(delivered[c], e, "resumed", id, rpcs[id], r + 1)
        BY <1>t, <1>2, <2>1, <3>2, <3>4, GivenNext
    <3>6. CASE Completes(e)
      <4>1. r + 1 = Last(rpcs[id])
          BY <1>t, <3>2, <3>4, <3>6, NumberOf
      <4>2. q \in Nat
          BY <2>3 DEF Carries
      <4>3. r + 1 = q
          BY <1>n, <3>4, <4>1, <4>2
      <4>4. Queued(callStates', id, rpcs[id], r + 1, q)
          BY <3>1, <3>6, <4>3 DEF Queued
      <4> QED  BY <1>g, <1>d, <3>1, <3>5, <4>4
    <3>7. CASE ~Completes(e)
      <4>1. Queued(callStates', id, rpcs[id], r + 1, q)
          BY <3>1, <3>4, <3>7 DEF Queued
      <4> QED  BY <1>g, <1>d, <3>1, <3>5, <4>1
    <3> QED  BY <3>6, <3>7
  <2>5. CASE queue = << >>
    <3>1. /\ pc'[c] = "waiting" /\ handed'[c] = Null
          /\ id \in DOMAIN callStates' /\ callStates'[id].queue = queue
        BY <2>1, <2>5 DEF Awaits, WaitOutcome
    <3>2. Queued(callStates', id, rpcs[id], r, q)
        BY <2>3, <3>1 DEF Queued
    <3>3. Given(delivered[c], Null, "waiting", id, rpcs[id], r)
        BY <1>2, <2>1 DEF Given
    <3> QED  BY <1>g, <1>d, <3>1, <3>2, <3>3
  <2> QED  BY <2>4, <2>5
<1> QED  BY <1>1, <1>2 DEF Awaits

(* The function of the caller of call id runs, and does not leave. *)
LEMMA ArrivedCall ==
    ASSUME BridgeInv, PlaceInv, SoundInv, NEW id \in DOMAIN rpcs, NEW q \in Nat, Arrived(id, q),
           q <= Last(rpcs[id]), NEW c \in Calls, c = rpcs[id].call, CallStep(c),
           pc'[c] \notin Settled
    PROVE  Arrived(id, q)'
<1>t. /\ TypeInv /\ delivered[c] \in Seq(Nat) /\ handed[c] \in CallEvent \cup {Null}
      /\ rpcs[id] \in RpcState /\ Holds(c)
    BY DEF BridgeInv, TypeInv, TypeOK, PlaceInv
<1>u. UNCHANGED rpcs /\ pc[c] \in {"created"} \cup Registered
    BY <1>t, CallStepFrame DEF Registered
<1>i. callId[c] = id
    BY <1>u, OwnId
<1> PICK r \in Nat : /\ Given(delivered[c], handed[c], pc[c], id, rpcs[id], r)
                     /\ Queued(callStates, id, rpcs[id], r, q)
    BY DEF Arrived
<1>g. \A r2 \in Nat : /\ Given(delivered'[c], handed'[c], pc'[c], id, rpcs[id], r2)
                      /\ Queued(callStates', id, rpcs[id], r2, q)
                      => Arrived(id, q)'
    BY <1>u DEF Arrived
<1>1. CASE Awaits(c)
    BY <1>u, <1>i, <1>1, ArrivedAwaits
<1>2. CASE Yields(c)
  <2> DEFINE e == handed[c]
             more == Append(delivered[c], e.message)
  <2>1. /\ e.type = "receive" /\ pc'[c] = "yielded" /\ handed'[c] = Null
        /\ delivered'[c] = more /\ callStates' = callStates
      BY <1>2 DEF Yields
  <2>2. e # Null /\ e \in CallEvent /\ ~Completes(e) /\ Sound(e, rpcs)
      BY <1>t, <2>1 DEF Null, Completes, SoundInv
  <2>3. r = Len(delivered[c]) + 1 /\ EventNumber(id, rpcs[id])[e] = r
      BY <2>2 DEF Given
  <2>4. e.message = r /\ r <= rpcs[id].sent
    <3>1. e.callId = id
      <4>1. r # 0
          BY <1>t, <2>3
      <4> QED  BY <1>t, <2>2, <2>3, <4>1, NumberOf
    <3> QED  BY <1>t, <2>2, <2>3, <3>1, NumberOf
  <2>5. /\ Len(more) = r /\ more[r] = r /\ Len(delivered[c]) \in Nat
        /\ \A i \in 1 .. Len(delivered[c]) : more[i] = delivered[c][i]
      BY <1>t, <2>3, <2>4
  <2> HIDE DEF more, e
  <2>6. \A i \in 1 .. Len(more) : more[i] = i
    <3>1. \A i \in 1 .. Len(more) : i \in 1 .. Len(delivered[c]) \/ i = r
        BY <2>3, <2>5
    <3> QED  BY <2>5, <3>1 DEF Given
  <2>7. Given(more, Null, "yielded", id, rpcs[id], r)
      BY <2>4, <2>5, <2>6 DEF Given
  <2> QED  BY <1>g, <2>1, <2>7
<1>3. CASE Registers(c)
  <2>1. /\ pc[c] = "created" /\ pc'[c] = "waiting" /\ handed'[c] = Null
        /\ id \in DOMAIN callStates' /\ callStates'[id].queue = << >> /\ UNCHANGED delivered
      BY <1>i, <1>3 DEF Registers
  <2>2. handed[c] = Null
      BY <1>t, <2>1 DEF Holds
  <2>3. id \notin DOMAIN callStates
      BY <2>1, OwnId DEF Registered
  <2>4. r = q
      BY <2>3 DEF Queued
  <2>5. Queued(callStates', id, rpcs[id], r, q)
      BY <2>1, <2>4, CarriesNothing DEF Queued
  <2>6. Given(delivered[c], Null, "waiting", id, rpcs[id], r)
      BY <2>1, <2>2 DEF Given
  <2> QED  BY <1>g, <2>1, <2>5, <2>6
<1> QED  BY <1>1, <1>2, <1>3, CallCases DEF Leaves

(* An event of call id comes out of toJs: its caller is handed it, or it   *)
(* is queued for it.                                                       *)
LEMMA ArrivedOwn ==
    ASSUME BridgeInv, PlaceInv, NEW id \in DOMAIN rpcs, NEW q, Arrived(id, q),
           NEW c \in Calls, c = rpcs[id].call, pc[c] \in {"waiting", "yielded"},
           NEW e \in CallEvent, e.callId = id, Sound(e, rpcs), OnCallEvent(e),
           UNCHANGED <<delivered, rpcs>>, EventNumber(id, rpcs[id])[e] = q + 1
    PROVE  Arrived(id, q + 1)'
<1>t. /\ TypeInv /\ TypeOK /\ delivered[c] \in Seq(Nat) /\ rpcs[id] \in RpcState /\ Holds(c)
    BY DEF BridgeInv, TypeInv, TypeOK, PlaceInv
<1> DEFINE number == EventNumber(id, rpcs[id])
           queue == callStates[id].queue
<1>n. number \in [CallEvent -> Nat]
    BY <1>t, NumberTypes
<1> PICK r \in Nat : /\ Given(delivered[c], handed[c], pc[c], id, rpcs[id], r)
                     /\ Queued(callStates, id, rpcs[id], r, q)
    BY DEF Arrived
<1>g. \A r2 \in Nat : /\ Given(delivered[c], handed'[c], pc'[c], id, rpcs[id], r2)
                      /\ Queued(callStates', id, rpcs[id], r2, q + 1)
                      => Arrived(id, q + 1)'
    BY DEF Arrived
<1>1. callId[c] = id /\ handed[c] = Null
    BY <1>t, OwnId DEF Registered, Holds
<1>2. id \in DOMAIN callStates
    BY <1>t, <1>1 DEF Holds, BridgeInv, EntryInv, WaiterDiscipline
<1>3. Carries(Numbers(queue, number), r, q) /\ q \in Nat /\ q + 1 \in Nat
    BY <1>2 DEF Queued, Carries
<1>4. Wakes(e, c) \/ Queues(e)
    BY <1>2, EventCases
<1>5. CASE Wakes(e, c)
  <2>1. /\ pc[c] = "waiting" /\ pc'[c] = "resumed" /\ handed'[c] = e /\ queue = << >>
        /\ Completes(e) => id \notin DOMAIN callStates'
        /\ ~Completes(e) => id \in DOMAIN callStates' /\ callStates'[id].queue = << >>
      BY <1>5 DEF Wakes
  <2>2. r = q
      BY <1>3, <2>1, CarriesNothing
  <2>3. Given(delivered[c], e, "resumed", id, rpcs[id], r + 1)
      BY <1>t, <1>1, <2>1, <2>2, GivenNext
  <2>4. Queued(callStates', id, rpcs[id], r + 1, q + 1)
      BY <1>3, <2>1, <2>2, CarriesNothing DEF Queued
  <2> QED  BY <1>g, <2>1, <2>3, <2>4
<1>6. CASE Queues(e)
  <2>1. /\ pc' = pc /\ handed' = handed /\ id \in DOMAIN callStates'
        /\ callStates'[id].queue = Append(queue, e)
      BY <1>6 DEF Queues
  <2>2. queue \in Seq(CallEvent)
      BY <1>t, <1>2, CallStateUpdates DEF TypeOK
  <2> HIDE DEF number, queue
  <2>3. number[e] = q + 1
      BY DEF number
  <2>4. Carries(Numbers(Append(queue, e), number), r, q + 1)
      BY <1>n, <1>3, <2>2, <2>3, CarriesMore
  <2>5. Queued(callStates', id, rpcs[id], r, q + 1)
      BY <2>1, <2>4 DEF Queued, number
  <2> QED  BY <1>g, <2>1, <2>5
<1> QED  BY <1>4, <1>5, <1>6

(* An event of another call changes nothing for the caller of call id. *)
LEMMA ArrivedOther ==
    ASSUME BridgeInv, PlaceInv, SoundInv, [Next]_vars, NEW id \in DOMAIN rpcs, NEW q,
           Arrived(id, q), NEW e \in CallEvent, e.callId # id, OnCallEvent(e),
           UNCHANGED delivered
    PROVE  Arrived(id, q)'
<1> DEFINE other == rpcs[e.callId].call
<1>1. PICK c \in Calls : c = rpcs[id].call
    BY OwnId
<1>2. /\ OthersKept(callStates, e.callId)
      /\ \/ e.callId \notin DOMAIN callStates /\ UNCHANGED <<callStates, pc, handed>>
         \/ e.callId \in DOMAIN callStates /\ Wakes(e, other)
         \/ Queues(e)
    BY EventCases
<1>3. e.callId \in DOMAIN callStates => other # c
    BY <1>1, EntryCalls DEF BridgeInv, TypeInv, PlaceInv, OneCall
<1>4. pc'[c] = pc[c] /\ handed'[c] = handed[c]
    BY <1>1, <1>2, <1>3 DEF Wakes, Queues
<1>5. /\ id \in DOMAIN callStates' <=> id \in DOMAIN callStates
      /\ id \in DOMAIN callStates => callStates'[id] = callStates[id]
    BY <1>2 DEF OthersKept
<1> QED  BY <1>1, <1>4, <1>5, ArrivedKept

(* A report comes, the next one of the call or one of another call. *)
LEMMA ComingMore ==
    ASSUME NEW messages, NEW tasks \in Seq(Task), NEW id, NEW call \in RpcState,
           NEW next \in RpcState, NEW q, Coming(messages, tasks, id, call, q),
           Numbers(messages, MessageNumber(id, next)) = Numbers(messages, MessageNumber(id, call)),
           Numbers(tasks, TaskNumber(id, next)) = Numbers(tasks, TaskNumber(id, call)),
           NEW t \in Task,
           \/ TaskNumber(id, next)[t] = 0 /\ Last(next) = Last(call)
           \/ TaskNumber(id, next)[t] = Last(call) + 1 /\ Last(next) = Last(call) + 1
    PROVE  Coming(messages, Append(tasks, t), id, next, q)
<1> DEFINE number == TaskNumber(id, next)
<1> PICK j \in Nat : /\ Carries(Numbers(messages, MessageNumber(id, next)), q, j)
                     /\ Carries(Numbers(tasks, number), j, Last(call))
    BY DEF Coming
<1>1. number \in [Task -> Nat]
    BY NumberTypes
<1>2. \/ number[t] = 0 /\ Last(next) = Last(call)
      \/ number[t] = Last(call) + 1 /\ Last(next) = Last(call) + 1
    OBVIOUS
<1>g. \A u : Carries(Numbers(u, number), j, Last(next)) => Coming(messages, u, id, next, q)
    BY DEF Coming
<1> HIDE DEF number
<1>3. Carries(Numbers(Append(tasks, t), number), j, Last(next))
    BY <1>1, <1>2, CarriesMore
<1> QED  BY <1>g, <1>3

LEMMA ComingReported ==
    ASSUME BridgeInv, ActiveInv, SoundInv, [Next]_vars, Network, NEW id \in DOMAIN rpcs, NEW q,
           Coming(toJs, executor, id, rpcs[id], q)
    PROVE  Coming(toJs, executor, id, rpcs[id], q)'
<1>t. TypeInv /\ IdInv /\ TypeOK /\ toJs \in Seq(JsMessage) /\ executor \in Seq(Task)
    BY DEF BridgeInv, TypeInv, TypeOK
<1>n. /\ rpcs[id] \in RpcState /\ rpcs'[id] \in RpcState
      /\ \A e \in CallEvent : Sound(e, rpcs) =>
            EventNumber(id, rpcs'[id])[e] = EventNumber(id, rpcs[id])[e]
    BY <1>t, NumbersKept
<1>1. Numbers(toJs, MessageNumber(id, rpcs'[id])) = Numbers(toJs, MessageNumber(id, rpcs[id]))
  <2>1. ASSUME NEW i \in 1 .. Len(toJs)
        PROVE  MessageNumber(id, rpcs'[id])[toJs[i]] = MessageNumber(id, rpcs[id])[toJs[i]]
    <3>1. toJs[i] \in JsMessage
        BY <1>t
    <3>2. toJs[i].kind = "event" => toJs[i].event \in CallEvent /\ Sound(toJs[i].event, rpcs)
        BY <3>1 DEF JsMessage, SoundInv, MessagesSound
    <3> QED  BY <1>n, <3>1, <3>2 DEF MessageNumber
  <2> QED  BY <2>1 DEF Numbers
<1>2. Numbers(executor, TaskNumber(id, rpcs'[id])) = Numbers(executor, TaskNumber(id, rpcs[id]))
  <2>1. ASSUME NEW i \in 1 .. Len(executor)
        PROVE  TaskNumber(id, rpcs'[id])[executor[i]] = TaskNumber(id, rpcs[id])[executor[i]]
    <3>1. executor[i] \in Task
        BY <1>t
    <3>2. executor[i].task = "emit" => executor[i].event \in CallEvent /\ Sound(executor[i].event, rpcs)
        BY <3>1 DEF Task, ActiveInv, EmitsSound
    <3> QED  BY <1>n, <3>1, <3>2 DEF TaskNumber
  <2> QED  BY <2>1 DEF Numbers
<1> PICK n \in DOMAIN rpcs : OnNext(n) \/ OnCompleted(n) \/ OnError(n)
    BY DEF Network
<1>3. /\ toJs' = toJs /\ \A i \in DOMAIN rpcs \ {n} : rpcs'[i] = rpcs[i]
      /\ \E e \in CallEvent :
            /\ executor' = Append(executor, EmitTask(e)) /\ e.callId = n
            /\ \/ /\ e.type = "receive" /\ e.message = rpcs[n].sent + 1
                  /\ rpcs'[n].sent = rpcs[n].sent + 1
                  /\ rpcs[n].status = "running" /\ rpcs'[n].status = "running"
               \/ /\ e.type \in {"end", "fail"} /\ rpcs'[n].sent = rpcs[n].sent
                  /\ rpcs[n].status \in {"running", "aborted"}
                  /\ rpcs'[n].status \in Closed
    BY <1>t, NetworkCases DEF Closed
<1> PICK e \in CallEvent :
            /\ executor' = Append(executor, EmitTask(e)) /\ e.callId = n
            /\ \/ /\ e.type = "receive" /\ e.message = rpcs[n].sent + 1
                  /\ rpcs'[n].sent = rpcs[n].sent + 1
                  /\ rpcs[n].status = "running" /\ rpcs'[n].status = "running"
               \/ /\ e.type \in {"end", "fail"} /\ rpcs'[n].sent = rpcs[n].sent
                  /\ rpcs[n].status \in {"running", "aborted"}
                  /\ rpcs'[n].status \in Closed
    BY <1>3
<1>4. EmitTask(e) \in Task /\ EmitTask(e).task = "emit" /\ EmitTask(e).event = e
    BY MessageTypes DEF EmitTask
<1>5. TaskNumber(id, rpcs'[id])[EmitTask(e)] = EventNumber(id, rpcs'[id])[e]
    BY <1>4 DEF TaskNumber
<1>6. \/ EventNumber(id, rpcs'[id])[e] = 0 /\ Last(rpcs'[id]) = Last(rpcs[id])
      \/ /\ EventNumber(id, rpcs'[id])[e] = Last(rpcs[id]) + 1
         /\ Last(rpcs'[id]) = Last(rpcs[id]) + 1
  <2>1. CASE n # id
      BY <1>3, <2>1 DEF EventNumber
  <2>2. CASE n = id
    <3>1. rpcs[id].sent \in Nat
        BY <1>n DEF RpcState
    <3>2. CASE e.type = "receive"
      <4>1. ~Completes(e) /\ e.message = rpcs[id].sent + 1 /\ rpcs'[id].sent = rpcs[id].sent + 1
          BY <2>2, <3>2 DEF Completes
      <4>2. rpcs[id].status = "running" /\ rpcs'[id].status = "running"
          BY <2>2, <3>2
      <4> QED  BY <2>2, <4>1, <4>2 DEF EventNumber, Last, Closed
    <3>3. CASE e.type \in {"end", "fail"}
      <4>1. Completes(e) /\ rpcs'[id].sent = rpcs[id].sent
          BY <2>2, <3>3 DEF Completes
      <4>2. rpcs[id].status \in {"running", "aborted"} /\ rpcs'[id].status \in Closed
          BY <2>2, <3>3
      <4> QED  BY <2>2, <4>1, <4>2 DEF EventNumber, Last, Closed
    <3> QED  BY <3>2, <3>3
  <2> QED  BY <2>1, <2>2
<1>7. Coming(toJs, Append(executor, EmitTask(e)), id, rpcs'[id], q)
    BY <1>t, <1>n, <1>1, <1>2, <1>4, <1>5, <1>6, ComingMore
<1> QED  BY <1>3, <1>7

(* A call gRPC has only been given: nothing of it is on its way. *)
LEMMA ComingNone ==
    ASSUME NEW messages \in Seq(JsMessage), NEW tasks \in Seq(Task), NEW calls,
           MessagesSound(messages, calls),
           \A i \in 1 .. Len(tasks) : tasks[i].task = "emit" => Sound(tasks[i].event, calls),
           NEW id, id \notin DOMAIN calls, NEW call \in RpcState, Last(call) = 0
    PROVE  Coming(messages, tasks, id, call, 0)
<1> DEFINE ofMessages == Numbers(messages, MessageNumber(id, call))
           ofTasks == Numbers(tasks, TaskNumber(id, call))
<1>1. ofMessages \in Seq(Nat) /\ ofTasks \in Seq(Nat)
      /\ Len(ofMessages) = Len(messages) /\ Len(ofTasks) = Len(tasks)
    BY NumberTypes, NumbersMove
<1>2. \A i \in 1 .. Len(messages) : ofMessages[i] = 0
  <2> SUFFICES ASSUME NEW i \in 1 .. Len(messages) PROVE ofMessages[i] = 0
      OBVIOUS
  <2>1. messages[i] \in JsMessage
      OBVIOUS
  <2>2. messages[i].kind = "event" =>
            messages[i].event \in CallEvent /\ messages[i].event.callId # id
      BY <2>1 DEF JsMessage, MessagesSound, Sound
  <2>3. MessageNumber(id, call)[messages[i]] = 0
      BY <2>1, <2>2 DEF MessageNumber, EventNumber
  <2> QED  BY <2>3 DEF Numbers
<1>3. \A i \in 1 .. Len(tasks) : ofTasks[i] = 0
  <2> SUFFICES ASSUME NEW i \in 1 .. Len(tasks) PROVE ofTasks[i] = 0
      OBVIOUS
  <2>1. tasks[i] \in Task
      OBVIOUS
  <2>2. tasks[i].task = "emit" => tasks[i].event \in CallEvent /\ tasks[i].event.callId # id
      BY <2>1 DEF Task, Sound
  <2>3. TaskNumber(id, call)[tasks[i]] = 0
      BY <2>1, <2>2 DEF TaskNumber, EventNumber
  <2> QED  BY <2>3 DEF Numbers
<1> HIDE DEF ofMessages, ofTasks
<1>4. Carries(ofMessages, 0, 0) /\ Carries(ofTasks, 0, 0)
    BY <1>1, <1>2, <1>3, CarriesNone
<1> QED  BY <1>4 DEF Coming, ofMessages, ofTasks

(* Steps that report nothing and tell no caller anything. *)
QuietStep ==
    \/ \E c \in Calls : StartCall(c) \/ NativeCreateCall(c)
    \/ \E p \in Pings : Ping(p)
    \/ TakeCreated \/ TakeRejected \/ TakePong \/ TakeSent
    \/ Executor \/ UNCHANGED vars

LEMMA QuietPlace ==
    ASSUME BridgeInv, QuietStep \/ Network, NEW c \in Calls, pc[c] # "idle"
    PROVE  \/ pc'[c] = pc[c]
           \/ pc[c] = "creating" /\ pc'[c] \in {"created", "threw"}
<1>t. TypeOK /\ toJs \in Seq(JsMessage)
      /\ pc \in [Calls -> {"idle", "yielded"} \cup InFlight \cup Settled]
    BY DEF BridgeInv, TypeInv, TypeOK
<1>1. CASE \E d \in Calls : StartCall(d)
  <2>1. PICK d \in Calls : pc[d] = "idle" /\ pc' = [pc EXCEPT ![d] = "creating"]
      BY <1>1 DEF StartCall
  <2> QED  BY <1>t, <2>1
<1>2. CASE TakeCreated \/ TakeRejected
  <2> DEFINE d == Head(toJs).call
  <2>1. /\ toJs # << >> /\ IsAnswer(Head(toJs))
        /\ pc' = [pc EXCEPT ![d] = "created"] \/ pc' = [pc EXCEPT ![d] = "threw"]
      BY <1>2 DEF TakeCreated, TakeRejected, Take, IsAnswer
  <2>2. Head(toJs) = toJs[1] /\ 1 \in 1 .. Len(toJs)
      BY <1>t, <2>1, TailAt
  <2>3. d \in Calls /\ pc[d] = "creating"
      BY <1>t, <2>1, <2>2, TokenCalls DEF BridgeInv, TokenInv
  <2> HIDE DEF d
  <2> QED  BY <1>t, <2>1, <2>3
<1>3. CASE \/ \E d \in Calls : NativeCreateCall(d)
           \/ \E p \in Pings : Ping(p)
           \/ TakePong \/ TakeSent \/ Executor \/ Network \/ UNCHANGED vars
  <2>1. UNCHANGED pc
      BY <1>3 DEF Ping, NativeCreateCall, TakePong, TakeSent, Take, Executor, RunCreateCall,
                  RunPing, RunEmit, RunTask, Network, OnNext, OnCompleted, OnError, Submit,
                  vars, jsVars
  <2> QED  BY <2>1
<1> QED  BY <1>1, <1>2, <1>3 DEF QuietStep

LEMMA QuietArrived ==
    ASSUME BridgeInv, PlaceInv, SoundInv, [Next]_vars, QuietStep \/ Network,
           NEW id \in DOMAIN rpcs, NEW q, Arrived(id, q)
    PROVE  Arrived(id, q)'
<1> PICK c \in Calls : c = rpcs[id].call
    BY OwnId
<1>1. UNCHANGED <<delivered, handed, callStates>>
    BY DEF QuietStep, StartCall, Ping, NativeCreateCall, TakeCreated, TakeRejected, TakePong,
           TakeSent, Take, Executor, RunCreateCall, RunPing, RunEmit, RunTask, Network, OnNext,
           OnCompleted, OnError, Submit, vars, jsVars
<1>2. pc[c] # "idle"
    BY OwnId
<1>3. pc'[c] = "resumed" <=> pc[c] = "resumed"
    BY <1>2, QuietPlace
<1> QED  BY <1>1, <1>3, ArrivedKept

LEMMA QuietComing ==
    ASSUME BridgeInv, QuietStep, NEW id \in DOMAIN rpcs, NEW q,
           Coming(toJs, executor, id, rpcs[id], q)
    PROVE  Coming(toJs, executor, id, rpcs[id], q)'
<1>t. TypeOK /\ TypeInv /\ IdInv /\ toJs \in Seq(JsMessage) /\ executor \in Seq(Task)
    BY DEF BridgeInv, TypeInv, TypeOK
<1> PICK call \in RpcState : call = rpcs[id]
    BY <1>t DEF TypeOK
<1>m. ASSUME NEW messages \in Seq(JsMessage), NEW tasks \in Seq(Task),
             Coming(messages, tasks, id, call, q)
      PROVE  /\ \A m \in JsMessage : m.kind # "event" =>
                   Coming(Append(messages, m), tasks, id, call, q)
             /\ \A t \in Task : t.task # "emit" =>
                   Coming(messages, Append(tasks, t), id, call, q)
             /\ messages # << >> /\ Head(messages).kind # "event" =>
                   Coming(Tail(messages), tasks, id, call, q)
             /\ tasks # << >> /\ Head(tasks).task # "emit" =>
                   Coming(messages, Tail(tasks), id, call, q)
             /\ tasks # << >> /\ Head(tasks).task = "emit" =>
                   Coming(Append(messages, EventMessage(Head(tasks).event)), Tail(tasks), id, call, q)
  <2>1. \A m \in JsMessage : m.kind # "event" => MessageNumber(id, call)[m] = 0
      BY DEF MessageNumber
  <2>2. messages # << >> => Head(messages) \in JsMessage
      OBVIOUS
  <2> QED  BY <1>m, <2>1, <2>2, ComingMove
<1>g. rpcs'[id] = call /\ Coming(toJs', executor', id, call, q)
      => Coming(toJs, executor, id, rpcs[id], q)'
    OBVIOUS
<1>0. Coming(toJs, executor, id, call, q)
    OBVIOUS
<1>1. CASE \/ \E c \in Calls : StartCall(c)
           \/ UNCHANGED vars
  <2>1. UNCHANGED <<toJs, executor, rpcs>>
      BY <1>1 DEF StartCall, vars, nativeVars
  <2> QED  BY <1>0, <1>g, <2>1
<1>2. ASSUME NEW p \in Pings, Ping(p)
      PROVE  Coming(toJs, executor, id, rpcs[id], q)'
  <2>1. /\ UNCHANGED <<toJs, rpcs>> /\ executor' = Append(executor, PingTask(p, pingId))
        /\ pingId \in CallIds
      BY <1>2, <1>t DEF Ping, TypeOK
  <2>2. PingTask(p, pingId) \in Task /\ PingTask(p, pingId).task # "emit"
      BY <2>1 DEF PingTask, Task
  <2> QED  BY <1>0, <1>t, <1>m, <1>g, <2>1, <2>2
<1>3. ASSUME NEW c \in Calls, NativeCreateCall(c)
      PROVE  Coming(toJs, executor, id, rpcs[id], q)'
  <2>1. /\ UNCHANGED rpcs
        /\ \/ executor' = Append(executor, CreateTask(c)) /\ toJs' = toJs
           \/ toJs' = Append(toJs, RejectedMessage(c)) /\ executor' = executor
      BY <1>3 DEF NativeCreateCall
  <2>2. /\ CreateTask(c) \in Task /\ CreateTask(c).task # "emit"
        /\ RejectedMessage(c) \in JsMessage /\ RejectedMessage(c).kind # "event"
      BY DEF CreateTask, Task, RejectedMessage, JsMessage
  <2> QED  BY <1>0, <1>t, <1>m, <1>g, <2>1, <2>2
<1>4. CASE TakeCreated \/ TakeRejected \/ TakePong \/ TakeSent
  <2>1. /\ UNCHANGED <<executor, rpcs>> /\ toJs # << >> /\ toJs' = Tail(toJs)
        /\ Head(toJs).kind # "event"
      BY <1>4 DEF TakeCreated, TakeRejected, TakePong, TakeSent, Take, nativeVars
  <2> QED  BY <1>0, <1>t, <1>m, <1>g, <2>1
<1>5. CASE RunCreateCall
  <2> DEFINE c == Head(executor).call
  <2>1. /\ executor # << >> /\ executor' = Tail(executor) /\ Head(executor).task = "createCall"
        /\ toJs' = Append(toJs, CreatedMessage(c, NewId)) \/ toJs' = Append(toJs, RejectedMessage(c))
      BY <1>5 DEF RunCreateCall, RunTask, Launch, LaunchNothing, LaunchThrows
  <2>2. c \in Calls /\ NewId \in CallIds /\ Tail(executor) \in Seq(Task)
      BY <2>1, <1>t, HeadTypes, NewIdFresh
  <2>3. /\ CreatedMessage(c, NewId) \in JsMessage /\ CreatedMessage(c, NewId).kind # "event"
        /\ RejectedMessage(c) \in JsMessage /\ RejectedMessage(c).kind # "event"
      BY <2>2 DEF CreatedMessage, RejectedMessage, JsMessage
  <2>4. Coming(toJs, Tail(executor), id, call, q)
      BY <1>0, <1>t, <1>m, <2>1
  <2> HIDE DEF c
  <2>5. Coming(toJs', Tail(executor), id, call, q)
      BY <1>t, <1>m, <2>1, <2>2, <2>3, <2>4
  <2>6. rpcs'[id] = call
      BY <1>5, <1>t, IdCreated
  <2> QED  BY <1>g, <2>1, <2>5, <2>6
<1>6. CASE RunPing
  <2> DEFINE pong == PongMessage(PongNumber(Head(executor).number))
             sent == SentMessage(Head(executor).ping)
  <2>1. /\ executor # << >> /\ executor' = Tail(executor) /\ Head(executor).task = "ping"
        /\ toJs' = toJs \o <<pong, sent>> /\ UNCHANGED rpcs
      BY <1>6 DEF RunPing, RunTask
  <2>2. Tail(executor) \in Seq(Task) /\ Head(executor).ping \in Pings /\ Head(executor).number \in CallIds
      BY <2>1, <1>t, HeadTypes
  <2>3. pong \in JsMessage /\ pong.kind # "event" /\ sent \in JsMessage /\ sent.kind # "event"
      BY <2>2 DEF PongMessage, PongNumber, SentMessage, JsMessage
  <2> HIDE DEF pong, sent
  <2>4. toJs \o <<pong, sent>> = Append(Append(toJs, pong), sent)
      BY <1>t, <2>3
  <2>5. Append(toJs, pong) \in Seq(JsMessage)
      BY <1>t, <2>3
  <2>6. Coming(toJs, Tail(executor), id, call, q)
      BY <1>0, <1>t, <1>m, <2>1
  <2>7. Coming(Append(toJs, pong), Tail(executor), id, call, q)
      BY <1>t, <1>m, <2>2, <2>3, <2>6
  <2>8. Coming(Append(Append(toJs, pong), sent), Tail(executor), id, call, q)
      BY <1>m, <2>2, <2>3, <2>5, <2>7
  <2> QED  BY <1>g, <2>1, <2>4, <2>8
<1>7. CASE RunEmit
  <2>1. /\ executor # << >> /\ executor' = Tail(executor) /\ Head(executor).task = "emit"
        /\ toJs' = Append(toJs, EventMessage(Head(executor).event)) /\ UNCHANGED rpcs
      BY <1>7 DEF RunEmit, RunTask
  <2> QED  BY <1>0, <1>t, <1>m, <1>g, <2>1
<1> QED  BY <1>1, <1>2, <1>3, <1>4, <1>5, <1>6, <1>7 DEF QuietStep, Executor
-----------------------------------------------------------------------------
(* Nothing is lost.                                                        *)

FlowInv == \A id \in DOMAIN rpcs : pc[rpcs[id].call] \notin Settled => Flows(id)

LEMMA LastKept ==
    ASSUME TypeInv, IdInv, [Next]_vars, NEW id \in DOMAIN rpcs, NEW q \in Nat, q <= Last(rpcs[id])
    PROVE  q <= Last(rpcs'[id])
<1>1. /\ rpcs[id].sent \in Nat /\ rpcs'[id].sent \in Nat /\ rpcs[id].sent <= rpcs'[id].sent
      /\ rpcs[id].status \in Closed => rpcs'[id] = rpcs[id]
    BY RpcsKept
<1> QED  BY <1>1 DEF Last

(* A call is given to gRPC. *)
LEMMA FlowsNew ==
    ASSUME BridgeInv, ActiveInv, SoundInv, PlaceInv, RunCreateCall, NEW id \in DOMAIN rpcs',
           id \notin DOMAIN rpcs
    PROVE  Flows(id)'
<1>t. TypeOK /\ TypeInv /\ IdInv /\ toJs \in Seq(JsMessage) /\ executor \in Seq(Task)
    BY DEF BridgeInv, TypeInv, TypeOK
<1> DEFINE c == Head(executor).call
<1>1. /\ executor # << >> /\ executor' = Tail(executor) /\ Head(executor).task = "createCall"
      /\ toJs' = Append(toJs, CreatedMessage(c, NewId)) \/ toJs' = Append(toJs, RejectedMessage(c))
      /\ UNCHANGED <<callStates, pc, handed, delivered>>
    BY DEF RunCreateCall, RunTask, Launch, LaunchNothing, LaunchThrows, jsVars
<1>2. c \in Calls /\ NewId \in CallIds /\ Tail(executor) \in Seq(Task)
    BY <1>1, <1>t, HeadTypes, NewIdFresh
<1>3. pc[c] = "creating"
  <2>1. Head(executor) = executor[1] /\ 1 \in 1 .. Len(executor)
      BY <1>t, <1>1, TailAt
  <2> QED  BY <1>1, <2>1 DEF BridgeInv, TokenInv, IsCreateTask
<1>4. handed[c] = Null /\ delivered[c] = << >>
    BY <1>2, <1>3 DEF PlaceInv, Holds
<1>5. id \notin DOMAIN callStates
    BY <1>t, EntryCalls DEF BridgeInv
<1>6. \E s \in {"running", "none", "aborted"} : rpcs' = Put(rpcs, NewId, Rpc(c, s))
    BY <1>1 DEF RunCreateCall, Launch, LaunchNothing, LaunchThrows
<1> PICK s \in {"running", "none", "aborted"} : rpcs' = Put(rpcs, NewId, Rpc(c, s))
    BY <1>6
<1>m. /\ CreatedMessage(c, NewId) \in JsMessage /\ CreatedMessage(c, NewId).kind # "event"
      /\ RejectedMessage(c) \in JsMessage /\ RejectedMessage(c).kind # "event"
    BY <1>2 DEF CreatedMessage, RejectedMessage, JsMessage
<1> PICK d \in Calls : d = c
    BY <1>2
<1> DEFINE call == Rpc(d, s)
<1>7. rpcs'[id] = call /\ call \in RpcState /\ call.call = d /\ call.sent = 0 /\ Last(call) = 0
    BY DEF Put, Rpc, RpcState, Last, Closed
<1> HIDE DEF call, c
<1>8. Coming(toJs, executor, id, call, 0)
    BY <1>t, <1>7, ComingNone DEF ActiveInv, EmitsSound, SoundInv
<1>9. Coming(toJs, Tail(executor), id, call, 0)
    BY <1>t, <1>1, <1>7, <1>8, ComingMove
<1>10. Coming(toJs', Tail(executor), id, call, 0)
  <2>1. \A m \in JsMessage : m.kind # "event" =>
            Coming(Append(toJs, m), Tail(executor), id, call, 0)
      BY <1>t, <1>2, <1>7, <1>9, ComingMove
  <2> QED  BY <1>m, <1>1, <2>1
<1>11. Given(<< >>, Null, "creating", id, call, 0)
  <2>1. Len(<< >>) = 0 /\ \A i \in 1 .. Len(<< >>) : << >>[i] = i
      OBVIOUS
  <2> QED  BY <1>7, <2>1 DEF Given
<1>12. Queued(callStates', id, call, 0, 0)
    BY <1>1, <1>5 DEF Queued
<1>13. Arrived(id, 0)'
    BY <1>1, <1>3, <1>4, <1>7, <1>11, <1>12 DEF Arrived
<1>14. 0 \in Nat /\ 0 <= Last(rpcs'[id])
    BY <1>7
<1> QED  BY <1>1, <1>7, <1>10, <1>13, <1>14 DEF Flows

(* An event comes out of toJs while the listener is there. *)
LEMMA FlowsEvent ==
    ASSUME BridgeInv, SoundInv, PlaceInv, [Next]_vars, TakeEvent, listener = "listening",
           NEW id \in DOMAIN rpcs, NEW c \in Calls, c = rpcs[id].call, pc[c] \notin Settled,
           Flows(id)
    PROVE  Flows(id)'
<1>t. TypeOK /\ TypeInv /\ IdInv /\ toJs \in Seq(JsMessage) /\ executor \in Seq(Task)
      /\ rpcs[id] \in RpcState /\ Holds(c)
    BY DEF BridgeInv, TypeInv, TypeOK, PlaceInv
<1> PICK q \in Nat : /\ Arrived(id, q) /\ q <= Last(rpcs[id])
                     /\ Coming(toJs, executor, id, rpcs[id], q)
    BY DEF Flows
<1>1. /\ MicrotasksDrained /\ toJs # << >> /\ toJs' = Tail(toJs) /\ Head(toJs).kind = "event"
      /\ UNCHANGED <<delivered, rpcs, executor>> /\ OnCallEvent(Head(toJs).event)
    BY DEF TakeEvent, Take, nativeVars
<1>2. Head(toJs).event \in CallEvent /\ Head(toJs) \in JsMessage
    BY <1>1, <1>t, HeadTypes
<1>3. Sound(Head(toJs).event, rpcs)
    BY <1>1, <1>t, MessagesSoundMove DEF SoundInv
<1> PICK e \in CallEvent : e = Head(toJs).event
    BY <1>2
<1>4. MessageNumber(id, rpcs[id])[Head(toJs)] = EventNumber(id, rpcs[id])[e]
    BY <1>1, <1>2 DEF MessageNumber
<1>5. CASE e.callId = id
  <2>1. EventNumber(id, rpcs[id])[e] # 0
      BY <1>3, <1>5, <1>t, NumberOf
  <2>2. EventNumber(id, rpcs[id])[e] = q + 1 /\ Coming(Tail(toJs), executor, id, rpcs[id], q + 1)
      BY <1>1, <1>4, <1>t, <2>1, ComingMove
  <2>3. pc[c] # "creating"
    <3>1. ASSUME pc[c] = "creating" PROVE FALSE
      <4>1. AnsweredFirst(toJs, c, id)
          BY <3>1 DEF PlaceInv, OneCall
      <4> QED  BY <1>1, <1>t, <1>5, <4>1, AnsweredMove DEF IsAnswer
    <3> QED  BY <3>1
  <2>4. pc[c] \in {"waiting", "yielded"}
    <3>1. pc[c] \in {"idle", "yielded"} \cup InFlight \cup Settled
        BY <1>t DEF TypeOK
    <3>2. pc[c] # "idle" /\ pc[c] \notin {"created", "resumed"}
        BY <1>1, OwnId DEF MicrotasksDrained
    <3> QED  BY <2>3, <3>1, <3>2 DEF InFlight
  <2>5. Arrived(id, q + 1)'
      BY <1>1, <1>3, <1>5, <2>2, <2>4, ArrivedOwn
  <2>6. q + 1 \in Nat /\ q + 1 <= Last(rpcs[id])
    <3>1. Tail(toJs) \in Seq(JsMessage)
        BY <1>1, <1>t, HeadTypes
    <3> QED  BY <1>t, <2>2, <3>1, ComingMove
  <2> QED  BY <1>1, <2>2, <2>5, <2>6 DEF Flows
<1>6. CASE e.callId # id
  <2>1. EventNumber(id, rpcs[id])[e] = 0
      BY <1>3, <1>6, <1>t, NumberOf
  <2>2. Coming(Tail(toJs), executor, id, rpcs[id], q)
      BY <1>1, <1>4, <1>t, <2>1, ComingMove
  <2>3. Arrived(id, q)'
      BY <1>1, <1>6, ArrivedOther
  <2> QED  BY <1>1, <2>2, <2>3 DEF Flows
<1> QED  BY <1>5, <1>6

(* The function of a call runs. *)
LEMMA FlowsCall ==
    ASSUME BridgeInv, SoundInv, PlaceInv, [Next]_vars, NEW d \in Calls, CallStep(d),
           NEW id \in DOMAIN rpcs, NEW c \in Calls, c = rpcs[id].call, pc'[c] \notin Settled,
           Flows(id)
    PROVE  Flows(id)'
<1>t. TypeOK /\ TypeInv /\ toJs \in Seq(JsMessage) /\ executor \in Seq(Task) /\ rpcs[id] \in RpcState
    BY DEF BridgeInv, TypeInv, TypeOK
<1> PICK q \in Nat : /\ Arrived(id, q) /\ q <= Last(rpcs[id])
                     /\ listener = "listening" => Coming(toJs, executor, id, rpcs[id], q)
    BY DEF Flows
<1>1. /\ UNCHANGED <<toJs, executor, rpcs, listener>>
      /\ pc[d] \in {"created"} \cup Registered
    BY <1>t, CallStepFrame DEF nativeVars, Registered
<1>3. CASE d = c
  <2>1. Arrived(id, q)'
      BY <1>3, ArrivedCall
  <2> QED  BY <1>1, <2>1 DEF Flows
<1>4. CASE d # c
  <2>1. /\ Leaves(d) \/ Yields(d) \/ Awaits(d) \/ Registers(d)
        /\ pc'[c] = pc[c] /\ handed'[c] = handed[c] /\ delivered'[c] = delivered[c]
      BY <1>4, CallCases
  <2>2. OthersKept(callStates, callId[d])
      BY <2>1 DEF Leaves, Yields, Awaits, Registers, OthersKept
  <2>3. callId[d] # id
      BY <1>1, <1>4 DEF BridgeInv, IdInv
  <2>4. /\ id \in DOMAIN callStates' <=> id \in DOMAIN callStates
        /\ id \in DOMAIN callStates => callStates'[id] = callStates[id]
      BY <2>2, <2>3 DEF OthersKept
  <2>5. Arrived(id, q)'
      BY <2>1, <2>4, ArrivedKept
  <2> QED  BY <1>1, <2>5 DEF Flows
<1> QED  BY <1>3, <1>4

LEMMA FlowStep ==
    BridgeInv /\ ActiveInv /\ SoundInv /\ PlaceInv /\ FlowInv /\ [Next]_vars => FlowInv'
<1> SUFFICES ASSUME BridgeInv, ActiveInv, SoundInv, PlaceInv, FlowInv, [Next]_vars,
                    NEW id \in DOMAIN rpcs', pc'[rpcs'[id].call] \notin Settled
             PROVE  Flows(id)'
    BY DEF FlowInv
<1>t. TypeOK /\ TypeInv /\ IdInv
      /\ pc \in [Calls -> {"idle", "yielded"} \cup InFlight \cup Settled]
    BY DEF BridgeInv, TypeInv, TypeOK
<1>1. CASE id \notin DOMAIN rpcs
  <2>1. RunCreateCall
    <3>1. CASE Network
        BY <1>1, <1>t, <3>1, NetworkCases DEF Network
    <3>2. CASE \/ \E c \in Calls : StartCall(c) \/ NativeCreateCall(c)
               \/ \E p \in Pings : Ping(p)
               \/ Shutdown \/ JsTask \/ RunPing \/ RunEmit \/ UNCHANGED vars
      <4>1. UNCHANGED rpcs
          BY <3>2 DEF StartCall, NativeCreateCall, Ping, Shutdown, JsTask, TakeCreated,
                      TakeRejected, TakeEvent, TakePong, TakeSent, Take, RunPing, RunEmit, vars
      <4> QED  BY <1>1, <4>1
    <3>3. CASE \E c \in Calls : CallStep(c)
        BY <1>1, <1>t, <3>3, CallStepFrame
    <3> QED  BY <3>1, <3>2, <3>3 DEF Next, Application, System, Executor, CallStep
  <2> QED  BY <1>1, <2>1, FlowsNew
<1>2. CASE id \in DOMAIN rpcs
  <2> PICK c \in Calls : c = rpcs[id].call
      BY <1>2, OwnId
  <2>1. rpcs'[id].call = c
      BY <1>2, <1>t, RpcsKept
  <2>l. listener' = "listening" => listener = "listening"
    <3>1. listener # "none"
        BY <1>2, OwnId DEF PlaceInv, OneCall
    <3>2. UNCHANGED listener \/ listener' = Subscribed \/ listener' = "removed"
      <4>1. CASE \E d \in Calls : CallStep(d)
          BY <4>1, <1>t, CallStepFrame
      <4> QED
          BY <4>1 DEF Next, Application, System, Executor, JsTask, CallStep, StartCall,
             NativeCreateCall, Ping, Shutdown, TakeCreated, TakeRejected, TakeEvent, TakePong,
             TakeSent, Take, RunCreateCall, RunPing, RunEmit, RunTask, Network, OnNext,
             OnCompleted, OnError, Submit, vars, jsVars
    <3> QED  BY <3>1, <3>2 DEF Subscribed
  <2>2. ASSUME NEW d \in Calls, CallStep(d)
        PROVE  Flows(id)'
    <3>1. pc[c] \notin Settled
      <4>1. pc[d] \notin Settled /\ \A e \in Calls \ {d} : pc'[e] = pc[e]
          BY <1>t, <2>2, CallStepFrame DEF Settled
      <4> QED  BY <2>1, <4>1
    <3>2. Flows(id)
        BY <1>2, <3>1 DEF FlowInv
    <3> QED  BY <1>2, <2>1, <2>2, <3>2, FlowsCall
  <2>3. CASE TakeEvent /\ listener = "listening"
    <3>1. pc[c] \notin Settled
      <4>1. OnCallEvent(Head(toJs).event) /\ Head(toJs).event \in CallEvent
          BY <1>t, <2>3, HeadTypes DEF TakeEvent, Take
      <4>2. UNCHANGED pc \/ \E d \in Calls : pc[d] = "waiting" /\ \A e \in Calls \ {d} : pc'[e] = pc[e]
          BY <1>t, <4>1, EventCases, EntryCalls DEF BridgeInv, Wakes, Queues
      <4> QED  BY <2>1, <4>2 DEF Settled
    <3>2. Flows(id)
        BY <1>2, <3>1 DEF FlowInv
    <3> QED  BY <1>2, <2>3, <3>1, <3>2, FlowsEvent
  <2>4. ASSUME pc[c] \notin Settled, \A q : Arrived(id, q) => Arrived(id, q)',
               \A q : /\ listener' = "listening" /\ Coming(toJs, executor, id, rpcs[id], q)
                      => Coming(toJs, executor, id, rpcs[id], q)'
        PROVE  Flows(id)'
    <3>1. PICK q \in Nat : /\ Arrived(id, q) /\ q <= Last(rpcs[id])
                           /\ listener = "listening" => Coming(toJs, executor, id, rpcs[id], q)
        BY <1>2, <2>4 DEF FlowInv, Flows
    <3>2. q <= Last(rpcs'[id])
        BY <1>2, <1>t, <3>1, LastKept
    <3> QED  BY <2>l, <2>4, <3>1, <3>2 DEF Flows
  <2>5. CASE QuietStep \/ Network
    <3>1. \A q : Arrived(id, q) => Arrived(id, q)'
        BY <1>2, <2>5, QuietArrived
    <3>2. pc[c] \notin Settled
      <4>1. pc[c] # "idle"
          BY <1>2, OwnId
      <4> QED  BY <2>1, <2>5, <4>1, QuietPlace DEF Settled
    <3>3. \A q : Coming(toJs, executor, id, rpcs[id], q) => Coming(toJs, executor, id, rpcs[id], q)'
        BY <1>2, <2>5, QuietComing, ComingReported
    <3> QED  BY <2>4, <3>1, <3>2, <3>3
  <2>6. CASE Shutdown \/ (TakeEvent /\ listener # "listening")
    <3>1. UNCHANGED <<delivered, handed, pc, callStates>>
        BY <2>6 DEF Shutdown, TakeEvent, Take
    <3>2. \A q : Arrived(id, q) => Arrived(id, q)'
        BY <1>2, <3>1, ArrivedKept
    <3>3. listener' # "listening"
        BY <2>6 DEF Shutdown, TakeEvent, Take
    <3> QED  BY <2>1, <2>4, <3>1, <3>2, <3>3
  <2> QED
      BY <2>2, <2>3, <2>5, <2>6 DEF Next, Application, System, JsTask, CallStep, QuietStep
<1> QED  BY <1>1, <1>2

-----------------------------------------------------------------------------
(* What flows is what the property speaks of.                              *)

AnyEvent == CallEvent \cup {Null}
AnyNumber(id, call) ==
    [e \in AnyEvent |-> IF e \in CallEvent THEN EventNumber(id, call)[e] ELSE 0]

LEMMA CarriesConcat ==
    ASSUME NEW S, NEW s \in Seq(S), NEW t \in Seq(S), NEW number \in [S -> Nat],
           NEW lo, NEW mid, NEW hi,
           Carries(Numbers(s, number), lo, mid), Carries(Numbers(t, number), mid, hi)
    PROVE  Carries(Numbers(s \o t, number), lo, hi)
<1> DEFINE a == Numbers(s, number)
           b == Numbers(t, number)
           ab == Numbers(s \o t, number)
           n == Len(s)
<1>1. lo \in Nat /\ mid \in Nat /\ hi \in Nat /\ lo <= mid /\ mid <= hi
    BY DEF Carries
<1>2. s \o t \in Seq(S) /\ Len(s \o t) = n + Len(t) /\ n \in Nat /\ Len(t) \in Nat
    OBVIOUS
<1>3. /\ Len(a) = n /\ Len(b) = Len(t) /\ Len(ab) = n + Len(t)
      /\ \A i \in 1 .. Len(a) : a[i] \in Nat
      /\ \A i \in 1 .. Len(b) : b[i] \in Nat
    BY <1>2 DEF Numbers
<1>4. \A i \in 1 .. n : i \in 1 .. Len(ab) /\ ab[i] = a[i]
    BY <1>2 DEF Numbers
<1>5. \A i \in 1 .. Len(t) : n + i \in 1 .. Len(ab) /\ ab[n + i] = b[i]
  <2> SUFFICES ASSUME NEW i \in 1 .. Len(t) PROVE n + i \in 1 .. Len(ab) /\ ab[n + i] = b[i]
      OBVIOUS
  <2>1. n + i \in 1 .. n + Len(t)
      BY <1>2
  <2>2. (s \o t)[n + i] = t[i]
      BY <1>2, <2>1
  <2> QED  BY <1>2, <2>1, <2>2 DEF Numbers
<1> HIDE DEF a, b, ab
<1>6. \A i \in 1 .. Len(ab) : i \in 1 .. n \/ \E k \in 1 .. Len(t) : i = n + k
  <2> SUFFICES ASSUME NEW i \in 1 .. Len(ab), i \notin 1 .. n
               PROVE  \E k \in 1 .. Len(t) : i = n + k
      OBVIOUS
  <2>1. i - n \in 1 .. Len(t) /\ i = n + (i - n)
      BY <1>2, <1>3
  <2> QED  BY <2>1
<1>7. ASSUME NEW m \in lo + 1 .. hi
      PROVE  \E i \in 1 .. Len(ab) : ab[i] = m
  <2>1. CASE m <= mid
    <3>1. PICK i \in 1 .. Len(a) : a[i] = m
        BY <1>1, <2>1 DEF Carries, a
    <3> QED  BY <1>3, <1>4, <3>1
  <2>2. CASE mid < m
    <3>1. PICK i \in 1 .. Len(b) : b[i] = m
        BY <1>1, <2>2 DEF Carries, b
    <3> QED  BY <1>3, <1>5, <3>1
  <2> QED  BY <1>1, <2>1, <2>2
<1>8. /\ \A i \in 1 .. n : a[i] # 0 => a[i] \in lo + 1 .. mid
      /\ \A i \in 1 .. Len(t) : b[i] # 0 => b[i] \in mid + 1 .. hi
    BY <1>3 DEF Carries, a, b
<1>r. /\ \A x \in lo + 1 .. mid : x \in lo + 1 .. hi
      /\ \A x \in mid + 1 .. hi : x \in lo + 1 .. hi
      /\ \A x \in lo + 1 .. mid, y \in mid + 1 .. hi : x < y
    BY <1>1
<1>9. ASSUME NEW i \in 1 .. Len(ab), ab[i] # 0
      PROVE  ab[i] \in lo + 1 .. hi
  <2>1. CASE i \in 1 .. n
    <3>1. a[i] # 0 /\ ab[i] = a[i]
        BY <1>4, <1>9, <2>1
    <3>2. a[i] \in lo + 1 .. mid
        BY <1>8, <2>1, <3>1
    <3> QED  BY <1>r, <3>1, <3>2
  <2>2. ASSUME NEW k \in 1 .. Len(t), i = n + k PROVE ab[i] \in lo + 1 .. hi
    <3>1. b[k] # 0 /\ ab[i] = b[k]
        BY <1>5, <1>9, <2>2
    <3>2. b[k] \in mid + 1 .. hi
        BY <1>8, <3>1
    <3> QED  BY <1>r, <3>1, <3>2
  <2> QED  BY <1>6, <2>1, <2>2
<1>10. ASSUME NEW i \in 1 .. Len(ab), NEW j \in 1 .. Len(ab), i < j, ab[i] # 0, ab[j] # 0
       PROVE  ab[i] < ab[j]
  <2>1. CASE i \in 1 .. n /\ j \in 1 .. n
      BY <1>3, <1>4, <1>10, <2>1 DEF Carries, a
  <2>2. ASSUME i \in 1 .. n, NEW l \in 1 .. Len(t), j = n + l
        PROVE  ab[i] < ab[j]
    <3>1. ab[i] = a[i] /\ a[i] \in lo + 1 .. mid
        BY <1>4, <1>8, <1>10, <2>2
    <3>2. ab[j] = b[l] /\ b[l] \in mid + 1 .. hi
        BY <1>5, <1>8, <1>10, <2>2
    <3> QED  BY <1>r, <3>1, <3>2
  <2>3. ASSUME NEW k \in 1 .. Len(t), NEW l \in 1 .. Len(t), i = n + k, j = n + l
        PROVE  ab[i] < ab[j]
    <3>1. ab[i] = b[k] /\ ab[j] = b[l] /\ k < l
        BY <1>2, <1>5, <1>10, <2>3
    <3> QED  BY <1>3, <1>10, <3>1 DEF Carries, b
  <2>4. ASSUME NEW k \in 1 .. Len(t), i = n + k, j \in 1 .. n
        PROVE  FALSE
      BY <1>2, <1>10, <2>4
  <2> QED  BY <1>6, <2>1, <2>2, <2>3, <2>4
<1> QED  BY <1>1, <1>7, <1>9, <1>10 DEF Carries, ab

LEMMA CarriesFour ==
    ASSUME NEW S, NEW s \in Seq(S), NEW t \in Seq(S), NEW u \in Seq(S), NEW v \in Seq(S),
           NEW number \in [S -> Nat], NEW lo, NEW i, NEW j, NEW k, NEW hi,
           Carries(Numbers(s, number), lo, i), Carries(Numbers(t, number), i, j),
           Carries(Numbers(u, number), j, k), Carries(Numbers(v, number), k, hi)
    PROVE  /\ ((s \o t) \o u) \o v \in Seq(S)
           /\ Carries(Numbers(((s \o t) \o u) \o v, number), lo, hi)
<1>1. PICK st \in Seq(S) : st = s \o t
  <2>1. s \o t \in Seq(S)
      OBVIOUS
  <2> QED  BY <2>1
<1>2. Carries(Numbers(st, number), lo, j)
    BY <1>1, CarriesConcat
<1>3. PICK stu \in Seq(S) : stu = st \o u
  <2>1. st \o u \in Seq(S)
      OBVIOUS
  <2> QED  BY <2>1
<1>4. Carries(Numbers(stu, number), lo, k)
    BY <1>2, <1>3, CarriesConcat
<1>5. stu \o v \in Seq(S)
    OBVIOUS
<1>6. Carries(Numbers(stu \o v, number), lo, hi)
    BY <1>4, CarriesConcat
<1> QED  BY <1>1, <1>3, <1>5, <1>6

LEMMA CarriesOne ==
    ASSUME NEW S, NEW x \in S, NEW number \in [S -> Nat], NEW lo \in Nat
    PROVE  /\ number[x] = 0 => Carries(Numbers(<<x>>, number), lo, lo)
           /\ number[x] = lo + 1 => Carries(Numbers(<<x>>, number), lo, lo + 1)
<1>1. Carries(Numbers(<< >>, number), lo, lo)
    BY CarriesNothing
<1>2. << >> \in Seq(S) /\ Append(<< >>, x) = <<x>>
    OBVIOUS
<1>3. /\ number[x] = 0 => Carries(Numbers(Append(<< >>, x), number), lo, lo)
      /\ number[x] = lo + 1 => Carries(Numbers(Append(<< >>, x), number), lo, lo + 1)
    BY <1>1, <1>2, CarriesMore
<1> QED  BY <1>2, <1>3

(* Numbered events are the messages of the call. *)
LEMMA CarriesAre ==
    ASSUME NEW calls, NEW id \in CallIds, calls[id] \in RpcState, NEW events \in Seq(AnyEvent),
           \A i \in 1 .. Len(events) : events[i] # Null => Sound(events[i], calls),
           NEW lo, Carries(Numbers(events, AnyNumber(id, calls[id])), lo, Last(calls[id]))
    PROVE  CarriesMessages(events, id, lo, calls[id].sent)
<1> DEFINE number == AnyNumber(id, calls[id])
           mine == {i \in DOMAIN events :
                       events[i].callId = id /\ events[i].type = "receive"}
           sent == calls[id].sent
<1>1. DOMAIN events = 1 .. Len(events) /\ Len(events) \in Nat /\ sent \in Nat
      /\ Last(calls[id]) \in {sent, sent + 1} /\ lo \in Nat
    BY DEF RpcState, Last, Carries
<1>2. ASSUME NEW i \in 1 .. Len(events)
      PROVE  /\ i \in mine => number[events[i]] = events[i].message /\ events[i].message \in 1 .. sent
             /\ i \notin mine => number[events[i]] \in {0, sent + 1}
  <2>1. events[i] \in AnyEvent
      OBVIOUS
  <2>2. CASE events[i] = Null
    <3>1. events[i].type = "null" /\ events[i] \notin CallEvent
        BY <2>2 DEF Null, CallEvent
    <3> QED  BY <2>1, <3>1 DEF AnyNumber
  <2>3. CASE events[i] # Null
    <3>1. events[i] \in CallEvent /\ Sound(events[i], calls)
        BY <2>1, <2>3 DEF AnyEvent
    <3> PICK e \in CallEvent : e = events[i] /\ Sound(e, calls)
        BY <3>1
    <3>2. number[e] = EventNumber(id, calls[id])[e]
        BY <2>1 DEF AnyNumber
    <3>3. Completes(e) <=> e.type # "receive"
        BY CompletesOr
    <3>4. CASE e.callId = id /\ e.type = "receive"
      <4>1. number[e] = e.message
          BY <3>2, <3>3, <3>4, NumberOf
      <4>2. e.message \in 1 .. sent
          BY <3>4 DEF Sound
      <4> QED  BY <1>1, <3>4, <4>1, <4>2
    <3>5. CASE ~(e.callId = id /\ e.type = "receive")
      <4>1. number[e] \in {0, sent + 1}
          BY <3>2, <3>3, <3>5, NumberOf
      <4> QED  BY <1>1, <3>5, <4>1
    <3> QED  BY <3>4, <3>5
  <2> QED  BY <2>2, <2>3
<1> HIDE DEF number
<1> DEFINE numbers == Numbers(events, number)
<1>3. Carries(numbers, lo, Last(calls[id]))
    BY DEF number
<1>4. Len(numbers) = Len(events) /\ \A i \in 1 .. Len(events) : numbers[i] = number[events[i]]
    BY <1>1 DEF Numbers
<1> HIDE DEF numbers
<1>5. \A i \in mine : i \in 1 .. Len(events) /\ numbers[i] = events[i].message /\ numbers[i] # 0
    BY <1>1, <1>2, <1>4
<1>6. ASSUME NEW i \in mine PROVE events[i].message \in lo + 1 .. sent
  <2>1. numbers[i] \in lo + 1 .. Last(calls[id])
      BY <1>3, <1>4, <1>5 DEF Carries
  <2>2. events[i].message \in 1 .. sent
      BY <1>1, <1>2
  <2> QED  BY <1>1, <1>5, <2>1, <2>2
<1>7. ASSUME NEW m \in lo + 1 .. sent PROVE \E i \in mine : events[i].message = m
  <2>1. m \in lo + 1 .. Last(calls[id])
      BY <1>1
  <2>2. PICK i \in 1 .. Len(events) : numbers[i] = m
      BY <1>3, <1>4, <2>1 DEF Carries
  <2>3. m # 0 /\ m # sent + 1
      BY <1>1
  <2>4. i \in mine
      BY <1>2, <1>4, <2>2, <2>3
  <2> QED  BY <1>5, <2>2, <2>4
<1>8. ASSUME NEW i \in mine, NEW j \in mine, i < j PROVE events[i].message < events[j].message
  <2>1. /\ i \in 1 .. Len(numbers) /\ numbers[i] = events[i].message /\ numbers[i] # 0
        /\ j \in 1 .. Len(numbers) /\ numbers[j] = events[j].message /\ numbers[j] # 0
      BY <1>4, <1>5
  <2>2. numbers[i] < numbers[j]
      BY <1>3, <1>8, <2>1 DEF Carries
  <2> QED  BY <2>1, <2>2
<1>9. {events[i].message : i \in mine} = lo + 1 .. sent
    BY <1>6, <1>7
<1> QED  BY <1>8, <1>9 DEF CarriesMessages

(* The numbers of what lies between gRPC and the caller. *)
LEMMA WayNumbers ==
    ASSUME TypeOK, NEW id \in DOMAIN rpcs
    PROVE  LET number == AnyNumber(id, rpcs[id]) IN
           /\ number \in [AnyEvent -> Nat] /\ number[Null] = 0
           /\ \A e \in CallEvent : number[e] = EventNumber(id, rpcs[id])[e]
           /\ ToJsEvents \in Seq(AnyEvent) /\ ExecutorEvents \in Seq(AnyEvent)
           /\ Numbers(ToJsEvents, number) = Numbers(toJs, MessageNumber(id, rpcs[id]))
           /\ Numbers(ExecutorEvents, number) = Numbers(executor, TaskNumber(id, rpcs[id]))
           /\ \A s \in Seq(CallEvent) :
                 Numbers(s, number) = Numbers(s, EventNumber(id, rpcs[id]))
<1> DEFINE number == AnyNumber(id, rpcs[id])
<1>t. rpcs[id] \in RpcState /\ toJs \in Seq(JsMessage) /\ executor \in Seq(Task)
    BY DEF TypeOK
<1>0. Null \notin CallEvent /\ EventNumber(id, rpcs[id]) \in [CallEvent -> Nat]
    BY <1>t, NumberTypes DEF Null, CallEvent
<1>1. number \in [AnyEvent -> Nat] /\ number[Null] = 0
    BY <1>0 DEF AnyNumber, AnyEvent
<1>2. \A e \in CallEvent : number[e] = EventNumber(id, rpcs[id])[e]
    BY DEF AnyNumber, AnyEvent
<1> HIDE DEF number
<1>3. /\ ToJsEvents \in Seq(AnyEvent)
      /\ Numbers(ToJsEvents, number) = Numbers(toJs, MessageNumber(id, rpcs[id]))
  <2>1. ASSUME NEW m \in JsMessage
        PROVE  /\ (IF m.kind = "event" THEN m.event ELSE Null) \in AnyEvent
               /\ number[IF m.kind = "event" THEN m.event ELSE Null]
                     = MessageNumber(id, rpcs[id])[m]
    <3>1. m.kind = "event" => m.event \in CallEvent
        BY DEF JsMessage
    <3> QED  BY <1>1, <1>2, <3>1 DEF AnyEvent, MessageNumber
  <2>2. \A i \in 1 .. Len(toJs) : toJs[i] \in JsMessage
      BY <1>t
  <2>3. /\ DOMAIN toJs = 1 .. Len(toJs) /\ Len(toJs) \in Nat
        /\ ToJsEvents = [i \in 1 .. Len(toJs) |->
                            IF toJs[i].kind = "event" THEN toJs[i].event ELSE Null]
      BY <1>t DEF ToJsEvents
  <2>4. ToJsEvents \in Seq(AnyEvent) /\ Len(ToJsEvents) = Len(toJs)
      BY <2>1, <2>2, <2>3
  <2>5. \A i \in 1 .. Len(toJs) : number[ToJsEvents[i]] = MessageNumber(id, rpcs[id])[toJs[i]]
      BY <2>1, <2>2, <2>3
  <2> QED  BY <2>4, <2>5 DEF Numbers
<1>4. /\ ExecutorEvents \in Seq(AnyEvent)
      /\ Numbers(ExecutorEvents, number) = Numbers(executor, TaskNumber(id, rpcs[id]))
  <2>1. ASSUME NEW t \in Task
        PROVE  /\ (IF t.task = "emit" THEN t.event ELSE Null) \in AnyEvent
               /\ number[IF t.task = "emit" THEN t.event ELSE Null] = TaskNumber(id, rpcs[id])[t]
    <3>1. t.task = "emit" => t.event \in CallEvent
        BY DEF Task
    <3> QED  BY <1>1, <1>2, <3>1 DEF AnyEvent, TaskNumber
  <2>2. \A i \in 1 .. Len(executor) : executor[i] \in Task
      BY <1>t
  <2>3. /\ DOMAIN executor = 1 .. Len(executor) /\ Len(executor) \in Nat
        /\ ExecutorEvents = [i \in 1 .. Len(executor) |->
                                IF executor[i].task = "emit" THEN executor[i].event ELSE Null]
      BY <1>t DEF ExecutorEvents
  <2>4. ExecutorEvents \in Seq(AnyEvent) /\ Len(ExecutorEvents) = Len(executor)
      BY <2>1, <2>2, <2>3
  <2>5. \A i \in 1 .. Len(executor) :
            number[ExecutorEvents[i]] = TaskNumber(id, rpcs[id])[executor[i]]
      BY <2>1, <2>2, <2>3
  <2> QED  BY <2>4, <2>5 DEF Numbers
<1>5. \A s \in Seq(CallEvent) : Numbers(s, number) = Numbers(s, EventNumber(id, rpcs[id]))
  <2> SUFFICES ASSUME NEW s \in Seq(CallEvent)
               PROVE  Numbers(s, number) = Numbers(s, EventNumber(id, rpcs[id]))
      OBVIOUS
  <2>1. \A i \in 1 .. Len(s) : number[s[i]] = EventNumber(id, rpcs[id])[s[i]]
      BY <1>2
  <2> QED  BY <2>1 DEF Numbers
<1> QED  BY <1>1, <1>2, <1>3, <1>4, <1>5 DEF number

(* Everything that lies there is what gRPC reported. *)
LEMMA WaySound ==
    ASSUME TypeOK, ActiveInv, SoundInv
    PROVE  /\ \A i \in 1 .. Len(ToJsEvents) : ToJsEvents[i] # Null => Sound(ToJsEvents[i], rpcs)
           /\ \A i \in 1 .. Len(ExecutorEvents) :
                 ExecutorEvents[i] # Null => Sound(ExecutorEvents[i], rpcs)
<1>1. /\ DOMAIN toJs = 1 .. Len(toJs) /\ Len(toJs) \in Nat
      /\ DOMAIN executor = 1 .. Len(executor) /\ Len(executor) \in Nat
    BY DEF TypeOK
<1>2. Len(ToJsEvents) = Len(toJs) /\ Len(ExecutorEvents) = Len(executor)
    BY <1>1 DEF ToJsEvents, ExecutorEvents
<1> QED  BY <1>1, <1>2 DEF ToJsEvents, ExecutorEvents, ActiveInv, EmitsSound, SoundInv, MessagesSound

LEMMA NothingLostOf ==
    BridgeInv /\ ActiveInv /\ SoundInv /\ PlaceInv /\ FlowInv => NothingLost
<1> SUFFICES ASSUME BridgeInv, ActiveInv, SoundInv, PlaceInv, FlowInv, listener = "listening",
                    NEW id \in DOMAIN rpcs, NEW c \in Calls, c = rpcs[id].call,
                    pc[c] \notin Settled
             PROVE  /\ delivered[c] = [m \in 1 .. Len(delivered[c]) |-> m]
                    /\ Len(delivered[c]) <= rpcs[id].sent
                    /\ CarriesMessages(UnderWay(id), id, Len(delivered[c]), rpcs[id].sent)
    BY OwnId DEF NothingLost
<1> DEFINE number == AnyNumber(id, rpcs[id])
           given == Len(delivered[c])
           event == handed[c]
           queue == IF id \in DOMAIN callStates THEN callStates[id].queue ELSE << >>
<1>t. /\ TypeOK /\ rpcs[id] \in RpcState /\ rpcs[id].sent \in Nat /\ id \in CallIds
      /\ delivered[c] \in Seq(Nat) /\ given \in Nat /\ event \in CallEvent \cup {Null}
    BY DEF BridgeInv, TypeInv, TypeOK, RpcState
<1> PICK q \in Nat : Arrived(id, q) /\ Coming(toJs, executor, id, rpcs[id], q)
    BY DEF FlowInv, Flows
<1> PICK r \in Nat : /\ Given(delivered[c], event, pc[c], id, rpcs[id], r)
                     /\ Queued(callStates, id, rpcs[id], r, q)
    BY DEF Arrived
<1> PICK j \in Nat : /\ Carries(Numbers(toJs, MessageNumber(id, rpcs[id])), q, j)
                     /\ Carries(Numbers(executor, TaskNumber(id, rpcs[id])), j, Last(rpcs[id]))
    BY DEF Coming
<1>n. /\ number \in [AnyEvent -> Nat] /\ number[Null] = 0
      /\ \A e \in CallEvent : number[e] = EventNumber(id, rpcs[id])[e]
      /\ ToJsEvents \in Seq(AnyEvent) /\ ExecutorEvents \in Seq(AnyEvent)
      /\ Numbers(ToJsEvents, number) = Numbers(toJs, MessageNumber(id, rpcs[id]))
      /\ Numbers(ExecutorEvents, number) = Numbers(executor, TaskNumber(id, rpcs[id]))
      /\ \A s \in Seq(CallEvent) : Numbers(s, number) = Numbers(s, EventNumber(id, rpcs[id]))
    BY <1>t, WayNumbers
<1>1. /\ \A i \in 1 .. Len(delivered[c]) : delivered[c][i] = i
      /\ given <= rpcs[id].sent
    BY DEF Given
<1>2. delivered[c] = [m \in 1 .. given |-> m]
    BY <1>t, <1>1
<1>q. queue \in Seq(CallEvent) /\ \A i \in 1 .. Len(queue) : Sound(queue[i], rpcs)
  <2>1. CASE id \in DOMAIN callStates
      BY <1>t, <2>1, CallStateUpdates DEF TypeOK, SoundInv, EventsSound
  <2>2. CASE id \notin DOMAIN callStates
      BY <2>2
  <2> QED  BY <2>1, <2>2
<1>3. Carries(Numbers(queue, number), r, q)
  <2>1. CASE id \in DOMAIN callStates
      BY <1>n, <1>q, <2>1 DEF Queued
  <2>2. CASE id \notin DOMAIN callStates
      BY <2>2, CarriesNothing DEF Queued
  <2> QED  BY <2>1, <2>2
<1> HIDE DEF number
<1>4. \E lo \in {given, given + 1} :
         /\ Carries(Numbers(<<event>>, number), lo, r)
         /\ lo = given + 1 => given = rpcs[id].sent
  <2>1. event \in AnyEvent
      BY <1>t DEF AnyEvent
  <2>2. CASE event # Null
    <3>1. r = given + 1 /\ number[event] = r
        BY <1>n, <1>t, <2>2 DEF Given
    <3>2. Carries(Numbers(<<event>>, number), given, r)
        BY <1>n, <1>t, <2>1, <3>1, CarriesOne
    <3> QED  BY <1>t, <3>2
  <2>3. CASE event = Null
    <3>1. number[event] = 0
        BY <1>n, <2>3
    <3>2. Carries(Numbers(<<event>>, number), r, r)
        BY <1>n, <2>1, <3>1, CarriesOne
    <3>3. r = given \/ (r = given + 1 /\ given = rpcs[id].sent)
        BY <2>3 DEF Given
    <3> QED  BY <1>t, <3>2, <3>3
  <2> QED  BY <2>2, <2>3
<1> PICK lo \in {given, given + 1} :
         /\ Carries(Numbers(<<event>>, number), lo, r)
         /\ lo = given + 1 => given = rpcs[id].sent
    BY <1>4
<1> DEFINE way == ((<<event>> \o queue) \o ToJsEvents) \o ExecutorEvents
<1>5. way \in Seq(AnyEvent) /\ Carries(Numbers(way, number), lo, Last(rpcs[id]))
  <2>1. <<event>> \in Seq(AnyEvent) /\ queue \in Seq(AnyEvent)
      BY <1>t, <1>q DEF AnyEvent
  <2>2. /\ number \in [AnyEvent -> Nat]
        /\ ToJsEvents \in Seq(AnyEvent) /\ ExecutorEvents \in Seq(AnyEvent)
      BY <1>n
  <2>3. /\ Carries(Numbers(<<event>>, number), lo, r)
        /\ Carries(Numbers(ToJsEvents, number), q, j)
        /\ Carries(Numbers(ExecutorEvents, number), j, Last(rpcs[id]))
      BY <1>n
  <2> HIDE DEF queue, event
  <2> QED  BY <1>3, <2>1, <2>2, <2>3, CarriesFour
<1>6. \A i \in 1 .. Len(way) : way[i] # Null => Sound(way[i], rpcs)
  <2>1. \A i \in 1 .. Len(<<event>>) : <<event>>[i] # Null => Sound(<<event>>[i], rpcs)
      BY DEF SoundInv
  <2>2. ASSUME NEW s \in Seq(AnyEvent), NEW u \in Seq(AnyEvent),
               \A i \in 1 .. Len(s) : s[i] # Null => Sound(s[i], rpcs),
               \A i \in 1 .. Len(u) : u[i] # Null => Sound(u[i], rpcs)
        PROVE  s \o u \in Seq(AnyEvent) /\ \A i \in 1 .. Len(s \o u) : (s \o u)[i] # Null => Sound((s \o u)[i], rpcs)
    <3>1. s \o u \in Seq(AnyEvent) /\ Len(s \o u) = Len(s) + Len(u) /\ Len(s) \in Nat /\ Len(u) \in Nat
        OBVIOUS
    <3>2. ASSUME NEW i \in 1 .. Len(s \o u), (s \o u)[i] # Null
          PROVE  Sound((s \o u)[i], rpcs)
      <4>1. CASE i \in 1 .. Len(s)
        <5>1. (s \o u)[i] = s[i]
            BY <4>1
        <5> QED  BY <2>2, <3>2, <4>1, <5>1
      <4>2. CASE i \notin 1 .. Len(s)
        <5>1. i - Len(s) \in 1 .. Len(u)
            BY <3>1, <4>2
        <5>2. (s \o u)[i] = u[i - Len(s)]
            BY <3>1, <4>2
        <5> QED  BY <2>2, <3>2, <5>1, <5>2
      <4> QED  BY <4>1, <4>2
    <3> QED  BY <3>1, <3>2
  <2>3. <<event>> \in Seq(AnyEvent) /\ queue \in Seq(AnyEvent)
      BY <1>t, <1>q DEF AnyEvent
  <2>4. /\ \A i \in 1 .. Len(ToJsEvents) : ToJsEvents[i] # Null => Sound(ToJsEvents[i], rpcs)
        /\ \A i \in 1 .. Len(ExecutorEvents) :
              ExecutorEvents[i] # Null => Sound(ExecutorEvents[i], rpcs)
      BY <1>t, WaySound
  <2> DEFINE AllSound(s) == \A i \in 1 .. Len(s) : s[i] # Null => Sound(s[i], rpcs)
  <2>5. /\ AllSound(<<event>>) /\ AllSound(queue) /\ AllSound(ToJsEvents) /\ AllSound(ExecutorEvents)
        /\ \A s, u \in Seq(AnyEvent) : AllSound(s) /\ AllSound(u) =>
              s \o u \in Seq(AnyEvent) /\ AllSound(s \o u)
      BY <1>q, <2>1, <2>2, <2>4
  <2> HIDE DEF AllSound, queue, event
  <2>6. AllSound(way)
      BY <1>n, <2>3, <2>5
  <2> QED  BY <2>6 DEF AllSound
<1>7. way = UnderWay(id)
    BY DEF UnderWay
<1> HIDE DEF way
<1>8. CarriesMessages(way, id, lo, rpcs[id].sent)
    BY <1>t, <1>5, <1>6, CarriesAre DEF number
<1>9. lo + 1 .. rpcs[id].sent = given + 1 .. rpcs[id].sent
    BY <1>t
<1>10. CarriesMessages(way, id, given, rpcs[id].sent)
    BY <1>8, <1>9 DEF CarriesMessages
<1> QED  BY <1>1, <1>2, <1>7, <1>10

(* What is inductive: the bridge's own invariant, what the native side      *)
(* still holds, that events are true of their call, and the flow.          *)
DeliveryInv == BridgeInv /\ ActiveInv /\ SoundInv /\ PlaceInv /\ FlowInv

LEMMA DeliveryInit == Init => DeliveryInv
<1> SUFFICES ASSUME Init PROVE DeliveryInv
    OBVIOUS
<1>1. BridgeInv /\ ActiveInv
    BY BridgeInit, ActiveInit
<1>2. SoundInv /\ PlaceInv /\ FlowInv
    BY DEF Init, SoundInv, MessagesSound, PlaceInv, OneCall, Holds, FlowInv
<1> QED  BY <1>1, <1>2 DEF DeliveryInv

LEMMA DeliveryStep == DeliveryInv /\ [Next]_vars => DeliveryInv'
<1> SUFFICES ASSUME DeliveryInv, [Next]_vars PROVE DeliveryInv'
    OBVIOUS
<1>1. BridgeInv' /\ ActiveInv'
    BY BridgeStep, ActiveStep DEF DeliveryInv, BridgeInv
<1>2. SoundInv'
    BY SoundStep DEF DeliveryInv
<1>3. PlaceInv'
  <2>1. OneCall'
      BY OneCallStep DEF DeliveryInv, PlaceInv
  <2>2. \A c \in Calls : Holds(c)'
      BY HoldsStep DEF DeliveryInv
  <2> QED  BY <2>1, <2>2 DEF PlaceInv
<1>4. FlowInv'
    BY FlowStep DEF DeliveryInv
<1> QED  BY <1>1, <1>2, <1>3, <1>4 DEF DeliveryInv

LEMMA DeliveryCorrect == Spec => []DeliveryInv
    BY DeliveryInit, DeliveryStep, PTL DEF Spec

(* GrpcBridge.tla, NothingLost: whatever calls, pings and shutdowns there  *)
(* are, on either platform, and however many messages a server sends, what *)
(* a caller was given followed by what is under way to it is what the      *)
(* server sent, in order (callState.ts, index.tsx, the native observers).  *)
THEOREM NothingIsLost == Spec => []NothingLost
<1>1. DeliveryInv => NothingLost
    BY NothingLostOf DEF DeliveryInv
<1> QED  BY <1>1, DeliveryCorrect, PTL

-----------------------------------------------------------------------------
(* Calls that createCall turned down                                       *)

Rejects(messages, c) == \E i \in 1 .. Len(messages) : messages[i] = RejectedMessage(c)

LEMMA RefusedIs ==
    ASSUME TypeOK, NEW c
    PROVE  Refused(c) <=> Rejects(toJs, c) \/ (pc[c] = "threw" /\ callId[c] = 0)
<1>1. DOMAIN toJs = 1 .. Len(toJs)
    BY DEF TypeOK
<1> QED  BY <1>1 DEF Refused, Rejects

LEMMA RefusedNext ==
    ASSUME TypeOK', NEW c
    PROVE  Refused(c)' <=> Rejects(toJs', c) \/ (pc'[c] = "threw" /\ callId'[c] = 0)
<1>1. DOMAIN toJs' = 1 .. Len(toJs')
    BY DEF TypeOK
<1> QED  BY <1>1 DEF Refused, Rejects

LEMMA RejectsMove ==
    ASSUME NEW messages \in Seq(JsMessage), NEW c
    PROVE  /\ \A m \in JsMessage : Rejects(Append(messages, m), c)
                                   <=> Rejects(messages, c) \/ m = RejectedMessage(c)
           /\ messages # << >> =>
                 (Rejects(messages, c)
                  <=> Rejects(Tail(messages), c) \/ Head(messages) = RejectedMessage(c))
<1>1. ASSUME NEW m \in JsMessage
      PROVE  Rejects(Append(messages, m), c) <=> Rejects(messages, c) \/ m = RejectedMessage(c)
  <2> DEFINE more == Append(messages, m)
             last == Len(messages) + 1
  <2>1. /\ Len(more) = last /\ Len(messages) \in Nat /\ more[last] = m
        /\ \A i \in 1 .. Len(messages) : more[i] = messages[i]
      BY AppendAt
  <2> HIDE DEF more
  <2>2. \A i \in 1 .. Len(more) : i \in 1 .. Len(messages) \/ i = last
      BY <2>1
  <2>3. last \in 1 .. Len(more) /\ \A i \in 1 .. Len(messages) : i \in 1 .. Len(more)
      BY <2>1
  <2> QED  BY <2>1, <2>2, <2>3 DEF Rejects, more
<1>2. ASSUME messages # << >>
      PROVE  Rejects(messages, c)
             <=> Rejects(Tail(messages), c) \/ Head(messages) = RejectedMessage(c)
  <2> DEFINE rest == Tail(messages)
  <2>1. /\ Len(rest) = Len(messages) - 1 /\ Len(messages) \in Nat \ {0}
        /\ \A i \in 1 .. Len(rest) : i + 1 \in 1 .. Len(messages) /\ rest[i] = messages[i + 1]
        /\ Head(messages) = messages[1] /\ 1 \in 1 .. Len(messages)
      BY <1>2, TailAt
  <2> HIDE DEF rest
  <2>2. \A i \in 1 .. Len(messages) :
            i = 1 \/ (i - 1 \in 1 .. Len(rest) /\ rest[i - 1] = messages[i])
    <3> SUFFICES ASSUME NEW i \in 1 .. Len(messages), i # 1
                 PROVE  i - 1 \in 1 .. Len(rest) /\ rest[i - 1] = messages[i]
        OBVIOUS
    <3>1. i - 1 \in 1 .. Len(rest) /\ (i - 1) + 1 = i
        BY <2>1
    <3> QED  BY <2>1, <3>1
  <2> QED  BY <2>1, <2>2 DEF Rejects, rest
<1> QED  BY <1>1, <1>2

(* A rejection is on its way to a call that awaits it, gRPC holds nothing  *)
(* of that call but its failure, and no stream is resumed empty-handed.    *)
RefusedInv ==
    /\ \A c \in Calls : pc[c] \in {"idle", "creating"} => callId[c] = 0
    /\ \A id \in DOMAIN rpcs :
          /\ rpcs[id].status = "none" => rpcs[id].sent = 0
          /\ rpcs[id].status = "aborted" => Refused(rpcs[id].call)
          /\ Refused(rpcs[id].call) =>
                rpcs[id].status \in {"none", "aborted", "failed"} /\ rpcs[id].sent = 0
    /\ \A c \in StreamCalls : pc[c] = "resumed" => handed[c] # Null

(* Which steps turn a call down. *)
TurnsDown(c) ==
    \/ c \in toNative /\ NativeCreateCall(c)
    \/ /\ RunCreateCall /\ executor # << >> /\ IsCreateTask(Head(executor))
       /\ Head(executor).call = c /\ LaunchThrows(c)

LEMMA NotRefused ==
    ASSUME BridgeInv, NEW c \in Calls,
           \/ pc[c] \in {"created"} \cup Registered
           \/ c \in toNative
           \/ executor # << >> /\ IsCreateTask(Head(executor)) /\ Head(executor).call = c
    PROVE  ~Refused(c)
<1>t. TypeOK /\ TokenInv /\ IdInv /\ executor \in Seq(Task)
    BY DEF BridgeInv, TypeInv, TypeOK
<1>1. ASSUME NEW i \in 1 .. Len(toJs), toJs[i] = RejectedMessage(c)
      PROVE  /\ pc[c] = "creating" /\ c \notin toNative
             /\ \A j \in 1 .. Len(executor) : IsCreateTask(executor[j]) => executor[j].call # c
  <2>1. IsAnswer(toJs[i]) /\ toJs[i].call = c
      BY <1>1 DEF RejectedMessage, IsAnswer
  <2> QED  BY <1>t, <2>1 DEF TokenInv
<1>2. executor # << >> => Head(executor) = executor[1] /\ 1 \in 1 .. Len(executor)
    BY <1>t
<1>3. ~Rejects(toJs, c)
    BY <1>1, <1>2 DEF Rejects, Registered
<1>4. pc[c] # "threw"
    BY <1>t, <1>2 DEF TokenInv, Registered
<1> QED  BY <1>t, <1>3, <1>4, RefusedIs

LEMMA RefusedCases ==
    ASSUME BridgeInv, RefusedInv, [Next]_vars, NEW c \in Calls
    PROVE  /\ Refused(c) => Refused(c)'
           /\ Refused(c)' /\ ~Refused(c) => TurnsDown(c)
<1>t. /\ TypeOK /\ TypeInv /\ TokenInv /\ IdInv /\ toJs \in Seq(JsMessage) /\ executor \in Seq(Task)
      /\ pc \in [Calls -> {"idle", "yielded"} \cup InFlight \cup Settled]
      /\ callId \in [Calls -> Nat] /\ TypeOK'
    BY TypeStep DEF BridgeInv, TypeInv, TypeOK
<1>r. /\ Refused(c) <=> Rejects(toJs, c) \/ (pc[c] = "threw" /\ callId[c] = 0)
      /\ Refused(c)' <=> Rejects(toJs', c) \/ (pc'[c] = "threw" /\ callId'[c] = 0)
    BY <1>t, RefusedIs, RefusedNext
<1>k. (\A m \in JsMessage : m # RejectedMessage(c) =>
          (Rejects(Append(toJs, m), c) <=> Rejects(toJs, c)))
    BY <1>t, RejectsMove
<1>1. ASSUME NEW d \in Calls, StartCall(d)
      PROVE  Refused(c)' <=> Refused(c)
  <2>1. /\ pc[d] = "idle" /\ pc' = [pc EXCEPT ![d] = "creating"] /\ UNCHANGED <<toJs, callId>>
      BY <1>1 DEF StartCall
  <2> QED  BY <1>t, <1>r, <2>1
<1>2. ASSUME NEW d \in Calls, CallStep(d)
      PROVE  Refused(c)' <=> Refused(c)
  <2>1. /\ pc[d] \in {"created"} \cup Registered /\ UNCHANGED <<toJs, callId>>
        /\ \A e \in Calls \ {d} : pc'[e] = pc[e]
      BY <1>2, <1>t, CallStepFrame DEF Registered
  <2>2. callId[d] # 0
      BY <1>t, <2>1 DEF IdInv, TypeOK, CallIds
  <2>3. pc[d] # "threw"
      BY <2>1 DEF Registered
  <2> QED  BY <1>r, <2>1, <2>2, <2>3
<1>3. CASE \/ \E p \in Pings : Ping(p)
           \/ Shutdown \/ Network \/ UNCHANGED vars
  <2>1. UNCHANGED <<toJs, pc, callId>>
      BY <1>3 DEF Ping, Shutdown, Network, OnNext, OnCompleted, OnError, Submit, vars, jsVars
  <2> QED  BY <1>r, <2>1
<1>4. ASSUME NEW d \in Calls, NativeCreateCall(d)
      PROVE  /\ Refused(c) => Refused(c)'
             /\ Refused(c)' /\ ~Refused(c) => TurnsDown(c)
  <2>1. /\ d \in toNative /\ UNCHANGED <<pc, callId>>
        /\ toJs' = toJs \/ toJs' = Append(toJs, RejectedMessage(d))
      BY <1>4 DEF NativeCreateCall, jsVars
  <2>2. RejectedMessage(d) \in JsMessage /\ (RejectedMessage(d) = RejectedMessage(c) => d = c)
      BY DEF RejectedMessage, JsMessage
  <2>3. Rejects(Append(toJs, RejectedMessage(d)), c) <=> Rejects(toJs, c) \/ d = c
      BY <1>t, <2>2, RejectsMove
  <2> QED  BY <1>4, <1>r, <2>1, <2>3 DEF TurnsDown
<1>5. CASE TakeCreated \/ TakePong \/ TakeSent
  <2>1. /\ toJs # << >> /\ toJs' = Tail(toJs) /\ Head(toJs) # RejectedMessage(c)
      BY <1>5 DEF TakeCreated, TakePong, TakeSent, Take, RejectedMessage
  <2>2. Rejects(toJs', c) <=> Rejects(toJs, c)
      BY <1>t, <2>1, RejectsMove
  <2>3. pc'[c] = "threw" /\ callId'[c] = 0 <=> pc[c] = "threw" /\ callId[c] = 0
    <3>1. CASE TakePong \/ TakeSent
        BY <3>1 DEF TakePong, TakeSent, Take
    <3>2. CASE TakeCreated
      <4> DEFINE d == Head(toJs).call
      <4>1. /\ IsAnswer(Head(toJs)) /\ pc' = [pc EXCEPT ![d] = "created"]
            /\ callId' = [callId EXCEPT ![d] = Head(toJs).id]
          BY <3>2 DEF TakeCreated, Take, IsAnswer
      <4>2. d \in Calls /\ pc[d] = "creating"
        <5>1. Head(toJs) = toJs[1] /\ 1 \in 1 .. Len(toJs)
            BY <1>t, <2>1, TailAt
        <5> QED  BY <1>t, <4>1, <5>1, TokenCalls DEF TokenInv
      <4> HIDE DEF d
      <4> QED  BY <1>t, <4>1, <4>2
    <3> QED  BY <1>5, <3>1, <3>2
  <2> QED  BY <1>r, <2>2, <2>3
<1>6. CASE TakeRejected
  <2> DEFINE d == Head(toJs).call
  <2>1. /\ toJs # << >> /\ toJs' = Tail(toJs) /\ Head(toJs).kind = "rejected"
        /\ pc' = [pc EXCEPT ![d] = "threw"] /\ UNCHANGED callId
      BY <1>6 DEF TakeRejected, Take
  <2>2. Head(toJs) = toJs[1] /\ 1 \in 1 .. Len(toJs) /\ Head(toJs) \in JsMessage
      BY <1>t, <2>1, TailAt
  <2>3. d \in Calls /\ pc[d] = "creating"
      BY <1>t, <2>1, <2>2, TokenCalls DEF TokenInv, IsAnswer
  <2>4. Head(toJs) = RejectedMessage(d) /\ (RejectedMessage(d) = RejectedMessage(c) => d = c)
      BY <2>1, <2>2 DEF RejectedMessage, JsMessage
  <2>5. callId[d] = 0
      BY <2>3 DEF RefusedInv
  <2> HIDE DEF d
  <2>6. Rejects(toJs, c) <=> Rejects(toJs', c) \/ d = c
      BY <1>t, <2>1, <2>4, RejectsMove
  <2> QED  BY <1>t, <1>r, <2>1, <2>3, <2>5, <2>6
<1>7. CASE TakeEvent
  <2>1. /\ toJs # << >> /\ toJs' = Tail(toJs) /\ Head(toJs) # RejectedMessage(c) /\ UNCHANGED callId
        /\ Head(toJs).event \in CallEvent
        /\ UNCHANGED pc \/ OnCallEvent(Head(toJs).event)
      BY <1>7, <1>t, HeadTypes DEF TakeEvent, Take, RejectedMessage
  <2>2. Rejects(toJs', c) <=> Rejects(toJs, c)
      BY <1>t, <2>1, RejectsMove
  <2>3. pc'[c] = pc[c] \/ (pc[c] = "waiting" /\ pc'[c] = "resumed")
      BY <2>1, EventCases DEF Wakes, Queues
  <2> QED  BY <1>r, <2>1, <2>2, <2>3
<1>8. CASE RunCreateCall
  <2> DEFINE d == Head(executor).call
  <2>1. /\ executor # << >> /\ IsCreateTask(Head(executor)) /\ UNCHANGED <<pc, callId>>
        /\ Launch(d) \/ LaunchNothing(d) \/ LaunchThrows(d)
      BY <1>8 DEF RunCreateCall, RunTask, jsVars, IsCreateTask
  <2>2. d \in Calls /\ NewId \in CallIds
      BY <1>t, <2>1, HeadTypes, NewIdFresh DEF IsCreateTask
  <2> HIDE DEF d
  <2>3. CASE Launch(d) \/ LaunchNothing(d)
    <3>1. toJs' = Append(toJs, CreatedMessage(d, NewId))
        BY <2>3 DEF Launch, LaunchNothing
    <3>2. CreatedMessage(d, NewId) \in JsMessage /\ CreatedMessage(d, NewId) # RejectedMessage(c)
        BY <2>2 DEF CreatedMessage, RejectedMessage, JsMessage
    <3> QED  BY <1>r, <1>k, <2>1, <3>1, <3>2
  <2>4. CASE LaunchThrows(d)
    <3>1. toJs' = Append(toJs, RejectedMessage(d))
        BY <2>4 DEF LaunchThrows
    <3>2. RejectedMessage(d) \in JsMessage /\ (RejectedMessage(d) = RejectedMessage(c) => d = c)
        BY <2>2 DEF RejectedMessage, JsMessage
    <3>3. Rejects(toJs', c) <=> Rejects(toJs, c) \/ d = c
        BY <1>t, <3>1, <3>2, RejectsMove
    <3> QED  BY <1>8, <1>r, <2>1, <2>4, <3>3 DEF TurnsDown, d
  <2> QED  BY <2>1, <2>3, <2>4
<1>9. CASE RunPing \/ RunEmit
  <2>1. UNCHANGED <<pc, callId>>
      BY <1>9 DEF RunPing, RunEmit, RunTask, jsVars
  <2>2. Rejects(toJs', c) <=> Rejects(toJs, c)
    <3>1. CASE RunPing
      <4> DEFINE pong == PongMessage(PongNumber(Head(executor).number))
                 sent == SentMessage(Head(executor).ping)
      <4>1. toJs' = toJs \o <<pong, sent>>
          BY <3>1 DEF RunPing
      <4>2. Head(executor).ping \in Pings /\ Head(executor).number \in CallIds
          BY <3>1, <1>t, HeadTypes DEF RunPing, RunTask
      <4>3. /\ pong \in JsMessage /\ pong # RejectedMessage(c)
            /\ sent \in JsMessage /\ sent # RejectedMessage(c)
          BY <4>2 DEF PongMessage, PongNumber, SentMessage, RejectedMessage, JsMessage
      <4> HIDE DEF pong, sent
      <4>4. toJs' = Append(Append(toJs, pong), sent) /\ Append(toJs, pong) \in Seq(JsMessage)
          BY <1>t, <4>1, <4>3
      <4> QED  BY <1>k, <4>3, <4>4, RejectsMove
    <3>2. CASE RunEmit
      <4>1. /\ toJs' = Append(toJs, EventMessage(Head(executor).event))
            /\ EventMessage(Head(executor).event) \in JsMessage
          BY <1>t, <3>2, HeadTypes, MessageTypes DEF RunEmit, RunTask
      <4>2. EventMessage(Head(executor).event) # RejectedMessage(c)
          BY DEF EventMessage, RejectedMessage
      <4> QED  BY <1>k, <4>1, <4>2
    <3> QED  BY <1>9, <3>1, <3>2
  <2> QED  BY <1>r, <2>1, <2>2
<1> QED
    BY <1>1, <1>2, <1>3, <1>4, <1>5, <1>6, <1>7, <1>8, <1>9
       DEF Next, Application, System, JsTask, Executor, CallStep

(* A call that has no answer yet had none before, and no id either. *)
LEMMA PlaceBack ==
    ASSUME BridgeInv, [Next]_vars, NEW c \in Calls, pc'[c] \in {"idle", "creating"}
    PROVE  pc[c] \in {"idle", "creating"} /\ callId'[c] = callId[c]
<1>t. /\ TypeOK /\ TypeInv /\ TokenInv /\ toJs \in Seq(JsMessage)
      /\ pc \in [Calls -> {"idle", "yielded"} \cup InFlight \cup Settled]
      /\ callId \in [Calls -> Nat]
    BY DEF BridgeInv, TypeInv, TypeOK
<1>1. CASE \E d \in Calls : StartCall(d)
  <2>1. PICK d \in Calls : /\ pc[d] = "idle" /\ pc' = [pc EXCEPT ![d] = "creating"]
                           /\ UNCHANGED callId
      BY <1>1 DEF StartCall
  <2> QED  BY <1>t, <2>1
<1>2. CASE \E d \in Calls : CallStep(d)
  <2>1. PICK d \in Calls : /\ pc'[d] \in {"waiting", "resumed", "yielded"} \cup Settled
                           /\ \A e \in Calls \ {d} : pc'[e] = pc[e]
                           /\ UNCHANGED callId
      BY <1>2, <1>t, CallStepFrame
  <2> QED  BY <2>1 DEF Settled
<1>3. CASE \/ \E p \in Pings : Ping(p)
           \/ \E d \in Calls : NativeCreateCall(d)
           \/ Shutdown \/ TakePong \/ TakeSent \/ Executor \/ Network \/ UNCHANGED vars
  <2>1. UNCHANGED <<pc, callId>>
      BY <1>3 DEF Ping, NativeCreateCall, Shutdown, TakePong, TakeSent, Take, Executor,
                  RunCreateCall, RunPing, RunEmit, RunTask, Network, OnNext, OnCompleted,
                  OnError, Submit, vars, jsVars
  <2> QED  BY <2>1
<1>4. CASE TakeCreated \/ TakeRejected
  <2> DEFINE d == Head(toJs).call
  <2>1. /\ toJs # << >> /\ IsAnswer(Head(toJs))
        /\ pc' = [pc EXCEPT ![d] = "created"] \/ pc' = [pc EXCEPT ![d] = "threw"]
        /\ callId' = [callId EXCEPT ![d] = Head(toJs).id] \/ callId' = callId
      BY <1>4 DEF TakeCreated, TakeRejected, Take, IsAnswer
  <2>2. d \in Calls
    <3>1. Head(toJs) = toJs[1] /\ 1 \in 1 .. Len(toJs)
        BY <1>t, <2>1, TailAt
    <3> QED  BY <1>t, <2>1, <3>1, TokenCalls
  <2> HIDE DEF d
  <2>3. c # d
      BY <1>t, <2>1, <2>2
  <2> QED  BY <1>t, <2>1, <2>2, <2>3
<1>5. CASE TakeEvent
  <2>1. /\ UNCHANGED callId /\ Head(toJs).event \in CallEvent
        /\ UNCHANGED pc \/ OnCallEvent(Head(toJs).event)
      BY <1>5, <1>t, HeadTypes DEF TakeEvent, Take
  <2>2. pc'[c] = pc[c] \/ pc'[c] = "resumed"
      BY <2>1, EventCases DEF Wakes, Queues
  <2> QED  BY <2>1, <2>2
<1> QED
    BY <1>1, <1>2, <1>3, <1>4, <1>5 DEF Next, Application, System, JsTask, CallStep

(* A stream is resumed with an event. *)
LEMMA StreamHanded ==
    ASSUME BridgeInv, PlaceInv, RefusedInv, [Next]_vars, NEW c \in StreamCalls,
           pc'[c] = "resumed"
    PROVE  handed'[c] # Null
<1>t. /\ TypeOK /\ TypeInv /\ TokenInv /\ toJs \in Seq(JsMessage)
      /\ pc \in [Calls -> {"idle", "yielded"} \cup InFlight \cup Settled]
      /\ c \in Calls /\ c \notin UnaryCalls
    BY CallsAssumption DEF BridgeInv, TypeInv, TypeOK, Calls
<1>n. Null \notin CallEvent
    BY DEF Null, CallEvent
<1>1. ASSUME pc[c] = "resumed", handed'[c] = handed[c]
      PROVE  handed'[c] # Null
    BY <1>1 DEF RefusedInv
<1>2. ASSUME NEW d \in Calls, CallStep(d)
      PROVE  handed'[c] # Null
  <2>1. CASE d # c
    <3>1. pc'[c] = pc[c] /\ handed'[c] = handed[c]
        BY <1>t, <1>2, <2>1, CallCases
    <3> QED  BY <1>1, <3>1
  <2>2. CASE d = c
    <3>1. Leaves(c) \/ Yields(c) \/ Awaits(c) \/ Registers(c)
        BY <1>2, <2>2, CallCases
    <3>2. Awaits(c)
        BY <3>1 DEF Leaves, Yields, Registers, Settled
    <3>3. CASE pc[c] = "yielded"
      <4>1. callId[c] \in DOMAIN callStates
          BY <1>t, <3>3 DEF PlaceInv, Holds
      <4>2. callStates[callId[c]].queue \in Seq(CallEvent)
          BY <1>t, <4>1, CallStateUpdates DEF TypeOK
      <4>3. /\ callStates[callId[c]].queue # << >>
            /\ handed'[c] = Head(callStates[callId[c]].queue)
          BY <3>2, <4>1 DEF Awaits, WaitOutcome
      <4>4. handed'[c] \in CallEvent
          BY <4>2, <4>3
      <4> QED  BY <1>n, <4>4
    <3>4. CASE pc[c] = "resumed"
      <4>1. ResumeStream(c)
          BY <1>2, <1>t, <2>2, <3>4 DEF CallStep, Pull, Return, Microtask, Register, ResumeUnary
      <4>2. pc'[c] # "resumed"
          BY <1>t, <4>1 DEF ResumeStream, Settle
      <4> QED  BY <4>2
    <3> QED  BY <3>2, <3>3, <3>4 DEF Awaits
  <2> QED  BY <2>1, <2>2
<1>3. CASE TakeEvent
  <2>1. PICK e \in CallEvent : UNCHANGED <<pc, handed>> \/ OnCallEvent(e)
      BY <1>3, <1>t, HeadTypes DEF TakeEvent, Take
  <2>2. \/ pc'[c] = pc[c] /\ handed'[c] = handed[c]
        \/ handed'[c] = e
      BY <2>1, <1>t, EventCases DEF Wakes, Queues
  <2> QED  BY <1>1, <1>n, <2>2
<1>4. CASE QuietStep \/ Network
  <2>1. UNCHANGED handed
      BY <1>4 DEF QuietStep, StartCall, Ping, NativeCreateCall, TakeCreated, TakeRejected,
           TakePong, TakeSent, Take, Executor, RunCreateCall, RunPing, RunEmit, RunTask, Network,
           OnNext, OnCompleted, OnError, Submit, vars, jsVars
  <2>2. pc[c] = "resumed"
    <3>1. CASE pc[c] = "idle"
      <4>1. pc'[c] \in {"idle", "creating", "created", "threw"}
        <5>1. CASE \E d \in Calls : StartCall(d)
          <6>1. PICK d \in Calls : pc' = [pc EXCEPT ![d] = "creating"]
              BY <5>1 DEF StartCall
          <6> QED  BY <1>t, <3>1, <6>1
        <5>2. CASE TakeCreated \/ TakeRejected
          <6>1. \/ pc' = [pc EXCEPT ![Head(toJs).call] = "created"]
                \/ pc' = [pc EXCEPT ![Head(toJs).call] = "threw"]
              BY <5>2 DEF TakeCreated, TakeRejected
          <6> QED  BY <1>t, <3>1, <6>1
        <5>3. CASE \/ \E d \in Calls : NativeCreateCall(d)
                   \/ \E p \in Pings : Ping(p)
                   \/ TakePong \/ TakeSent \/ Executor \/ Network \/ UNCHANGED vars
          <6>1. UNCHANGED pc
              BY <5>3 DEF Ping, NativeCreateCall, TakePong, TakeSent, Take, Executor,
                          RunCreateCall, RunPing, RunEmit, RunTask, Network, OnNext,
                          OnCompleted, OnError, Submit, vars, jsVars
          <6> QED  BY <3>1, <6>1
        <5> QED  BY <1>4, <5>1, <5>2, <5>3 DEF QuietStep
      <4> QED  BY <4>1
    <3>2. CASE pc[c] # "idle"
        BY <1>4, <1>t, <3>2, QuietPlace
    <3> QED  BY <3>1, <3>2
  <2> QED  BY <1>1, <2>1, <2>2
<1>5. CASE Shutdown
    BY <1>1, <1>5 DEF Shutdown
<1> QED
    BY <1>2, <1>3, <1>4, <1>5 DEF Next, Application, System, JsTask, CallStep, QuietStep

(* What a call that is made, or was only numbered, becomes. *)
LEMMA RpcMoves ==
    ASSUME TypeInv, IdInv, [Next]_vars, NEW id \in DOMAIN rpcs
    PROVE  /\ id \in DOMAIN rpcs' /\ rpcs'[id].call = rpcs[id].call
           /\ \/ rpcs'[id] = rpcs[id]
              \/ rpcs[id].status = "running" /\ rpcs'[id].status \in {"running", "ended", "failed"}
              \/ /\ rpcs[id].status = "aborted" /\ rpcs'[id].status = "failed"
                 /\ rpcs'[id].sent = rpcs[id].sent
<1>t. TypeOK /\ rpcs[id] \in RpcState
    BY DEF TypeInv, TypeOK
<1>1. CASE Network
  <2>1. PICK i \in DOMAIN rpcs : OnNext(i) \/ OnCompleted(i) \/ OnError(i)
      BY <1>1 DEF Network
  <2>2. CASE i # id
      BY <1>t, <2>1, <2>2, NetworkCases
  <2>3. CASE i = id
    <3>1. DOMAIN rpcs' = DOMAIN rpcs /\ rpcs'[id].call = rpcs[id].call
        BY <1>t, <2>1, <2>3, NetworkCases
    <3>2. CASE OnNext(id)
        BY <1>t, <3>1, <3>2 DEF OnNext, RpcState
    <3>3. CASE OnCompleted(id)
        BY <1>t, <3>1, <3>3 DEF OnCompleted, RpcState
    <3>4. CASE OnError(id)
        BY <1>t, <3>1, <3>4 DEF OnError, RpcState
    <3> QED  BY <2>1, <2>3, <3>2, <3>3, <3>4
  <2> QED  BY <2>2, <2>3
<1>2. CASE RunCreateCall
    BY <1>2, IdCreated
<1>3. CASE UNCHANGED rpcs
    BY <1>3
<1>4. CASE \/ \E c \in Calls : StartCall(c) \/ NativeCreateCall(c)
           \/ \E p \in Pings : Ping(p)
           \/ Shutdown \/ JsTask \/ RunPing \/ RunEmit \/ UNCHANGED vars
  <2>1. UNCHANGED rpcs
      BY <1>4 DEF StartCall, NativeCreateCall, Ping, Shutdown, JsTask, TakeCreated,
                  TakeRejected, TakeEvent, TakePong, TakeSent, Take, RunPing, RunEmit, vars
  <2> QED  BY <1>3, <2>1
<1>5. CASE \E c \in Calls : CallStep(c)
    BY <1>3, <1>5, CallStepFrame
<1> QED  BY <1>1, <1>2, <1>4, <1>5 DEF Next, Application, System, Executor, CallStep

(* The native side runs a createCall: the call gets a number of its own,   *)
(* and gRPC the call unless an exception turns it down.                    *)
LEMMA CreatedCases ==
    ASSUME BridgeInv, PlaceInv, RunCreateCall, NEW c \in Calls, c = Head(executor).call
    PROVE  /\ executor # << >> /\ IsCreateTask(Head(executor))
           /\ pc[c] = "creating" /\ UNCHANGED <<pc, callId, delivered, handed>>
           /\ NewId \notin DOMAIN rpcs /\ DOMAIN rpcs' = DOMAIN rpcs \cup {NewId}
           /\ \A id \in DOMAIN rpcs : rpcs[id].call # c /\ rpcs'[id] = rpcs[id]
           /\ rpcs'[NewId].call = c /\ rpcs'[NewId].sent = 0
           /\ \/ Launch(c) /\ rpcs'[NewId].status = "running"
              \/ LaunchNothing(c) /\ rpcs'[NewId].status = "none"
              \/ LaunchThrows(c) /\ rpcs'[NewId].status \in {"none", "aborted"}
           /\ Launch(c) \/ LaunchNothing(c) => ~LaunchThrows(c)
           /\ \A d : TurnsDown(d) <=> d = c /\ LaunchThrows(c)
<1>t. /\ TypeOK /\ IdInv /\ TokenInv /\ OneCall
      /\ executor \in Seq(Task) /\ toJs \in Seq(JsMessage) /\ nextId \in CallIds
    BY DEF BridgeInv, TypeInv, TypeOK, PlaceInv
<1>1. /\ executor # << >> /\ IsCreateTask(Head(executor)) /\ nextId' = nextId + 1
      /\ Launch(c) \/ LaunchNothing(c) \/ LaunchThrows(c)
      /\ UNCHANGED <<pc, callId, delivered, handed>>
    BY DEF RunCreateCall, RunTask, jsVars, IsCreateTask
<1>2. NewId \in CallIds /\ NewId \notin DOMAIN rpcs
  <2>1. \A i \in DOMAIN rpcs : i \in Nat /\ i < NewId
      BY <1>t DEF IdInv, TypeOK, CallIds
  <2> QED  BY <1>t, <2>1, NewIdFresh DEF CallIds
<1>3. pc[c] = "creating" /\ \A id \in DOMAIN rpcs : rpcs[id].call # c
  <2>1. Head(executor) = executor[1] /\ 1 \in 1 .. Len(executor)
      BY <1>t, <1>1, TailAt
  <2> QED  BY <1>t, <1>1, <2>1 DEF TokenInv, OneCall
<1>4. \A s : rpcs' = Put(rpcs, NewId, Rpc(c, s)) =>
          /\ DOMAIN rpcs' = DOMAIN rpcs \cup {NewId} /\ rpcs'[NewId].call = c
          /\ rpcs'[NewId].sent = 0 /\ rpcs'[NewId].status = s
          /\ \A i \in DOMAIN rpcs : rpcs'[i] = rpcs[i]
    BY <1>2 DEF Put, Rpc
<1>5. Launch(c) => rpcs' = Put(rpcs, NewId, Rpc(c, "running"))
    BY DEF Launch
<1>6. LaunchNothing(c) => rpcs' = Put(rpcs, NewId, Rpc(c, "none"))
    BY DEF LaunchNothing
<1>7. LaunchThrows(c) => \/ rpcs' = Put(rpcs, NewId, Rpc(c, "none"))
                         \/ rpcs' = Put(rpcs, NewId, Rpc(c, "aborted"))
    BY DEF LaunchThrows
<1>8. Launch(c) \/ LaunchNothing(c) => ~LaunchThrows(c)
  <2> SUFFICES ASSUME Launch(c) \/ LaunchNothing(c), LaunchThrows(c) PROVE FALSE
      OBVIOUS
  <2> DEFINE made == CreatedMessage(c, NewId)
             refused == RejectedMessage(c)
  <2>1. toJs' = Append(toJs, made) /\ toJs' = Append(toJs, refused)
      BY DEF Launch, LaunchNothing, LaunchThrows
  <2>2. made \in JsMessage /\ refused \in JsMessage
      BY <1>2, MessageTypes
  <2>3. made # refused
      BY DEF CreatedMessage, RejectedMessage
  <2> HIDE DEF made, refused
  <2>4. /\ Append(toJs, made)[Len(toJs) + 1] = made
        /\ Append(toJs, refused)[Len(toJs) + 1] = refused
      BY <1>t, <2>2, AppendAt
  <2> QED  BY <2>1, <2>3, <2>4
<1>9. \A d : TurnsDown(d) <=> d = c /\ LaunchThrows(c)
  <2>1. \A d : ~NativeCreateCall(d)
    <3>1. nextId' # nextId
        BY <1>t, <1>1 DEF CallIds
    <3> QED  BY <3>1 DEF NativeCreateCall
  <2> QED  BY <1>1, <2>1 DEF TurnsDown
<1> QED  BY <1>1, <1>2, <1>3, <1>4, <1>5, <1>6, <1>7, <1>8, <1>9

LEMMA RefusedStep == DeliveryInv /\ RefusedInv /\ [Next]_vars => RefusedInv'
<1> SUFFICES ASSUME DeliveryInv, RefusedInv, [Next]_vars PROVE RefusedInv'
    OBVIOUS
<1>t. BridgeInv /\ PlaceInv /\ TypeInv /\ IdInv /\ TypeOK /\ executor \in Seq(Task)
    BY DEF DeliveryInv, BridgeInv, TypeInv, TypeOK
<1>1. ASSUME NEW c \in Calls, pc'[c] \in {"idle", "creating"}
      PROVE  callId'[c] = 0
    BY <1>1, <1>t, PlaceBack DEF RefusedInv
<1>2. ASSUME NEW c \in StreamCalls, pc'[c] = "resumed"
      PROVE  handed'[c] # Null
    BY <1>2, <1>t, StreamHanded
<1>3. ASSUME NEW id \in DOMAIN rpcs, NEW c \in Calls, c = rpcs[id].call
      PROVE  /\ rpcs'[id].status = "none" => rpcs'[id].sent = 0
             /\ rpcs'[id].status = "aborted" => Refused(c)'
             /\ Refused(c)' =>
                   rpcs'[id].status \in {"none", "aborted", "failed"} /\ rpcs'[id].sent = 0
  <2>1. /\ pc[c] # "idle" /\ c \notin toNative
        /\ \A i \in 1 .. Len(executor) : IsCreateTask(executor[i]) => executor[i].call # c
      BY <1>3, <1>t, OwnId DEF PlaceInv, OneCall
  <2>2. ~TurnsDown(c)
    <3>1. executor # << >> => Head(executor) = executor[1] /\ 1 \in 1 .. Len(executor)
        BY <1>t, TailAt
    <3> QED  BY <2>1, <3>1 DEF TurnsDown
  <2>3. Refused(c)' <=> Refused(c)
      BY <1>t, <2>2, RefusedCases
  <2>4. /\ rpcs[id].status = "none" => rpcs[id].sent = 0
        /\ rpcs[id].status = "aborted" => Refused(c)
        /\ Refused(c) => rpcs[id].status \in {"none", "aborted", "failed"} /\ rpcs[id].sent = 0
      BY <1>3 DEF RefusedInv
  <2>5. \/ rpcs'[id] = rpcs[id]
        \/ rpcs[id].status = "running" /\ rpcs'[id].status \in {"running", "ended", "failed"}
        \/ /\ rpcs[id].status = "aborted" /\ rpcs'[id].status = "failed"
           /\ rpcs'[id].sent = rpcs[id].sent
      BY <1>t, RpcMoves
  <2> QED  BY <2>3, <2>4, <2>5
<1>4. ASSUME NEW id \in DOMAIN rpcs', id \notin DOMAIN rpcs, NEW c \in Calls, c = rpcs'[id].call
      PROVE  /\ rpcs'[id].sent = 0
             /\ rpcs'[id].status = "aborted" => Refused(c)'
             /\ Refused(c)' => rpcs'[id].status \in {"none", "aborted", "failed"}
  <2>1. RunCreateCall
    <3>1. DOMAIN rpcs' # DOMAIN rpcs
        BY <1>4
    <3>2. ~(\E d \in Calls : CallStep(d))
        BY <1>t, <3>1, CallStepFrame
    <3>3. ~Network
        BY <1>t, <3>1, NetworkEvent
    <3> QED  BY <3>1, <3>2, <3>3
             DEF Next, Application, System, JsTask, Executor, CallStep, StartCall, Ping, Shutdown,
                 NativeCreateCall, TakeCreated, TakeRejected, TakeEvent, TakePong, TakeSent, Take,
                 RunPing, RunEmit, vars
  <2>2. executor # << >> /\ Head(executor) \in Task /\ Head(executor).call \in Calls
      BY <1>t, <2>1, HeadTypes DEF RunCreateCall, RunTask
  <2>3. c = Head(executor).call
      BY <1>t, <1>4, <2>1, <2>2, CreatedCases
  <2>4. /\ id = NewId /\ rpcs'[id].call = c /\ rpcs'[id].sent = 0
        /\ IsCreateTask(Head(executor))
        /\ \/ ~LaunchThrows(c) /\ rpcs'[id].status \in {"running", "none"}
           \/ LaunchThrows(c) /\ rpcs'[id].status \in {"none", "aborted"}
        /\ TurnsDown(c) <=> LaunchThrows(c)
        /\ toJs' = Append(toJs, RejectedMessage(c)) \/ ~LaunchThrows(c)
      BY <1>t, <1>4, <2>1, <2>3, CreatedCases DEF LaunchThrows
  <2>5. ~Refused(c) /\ (Refused(c)' => TurnsDown(c))
      BY <1>t, <2>2, <2>3, <2>4, NotRefused, RefusedCases
  <2>6. LaunchThrows(c) => Refused(c)'
    <3>1. ASSUME LaunchThrows(c) PROVE Rejects(toJs', c)
      <4>1. toJs' = Append(toJs, RejectedMessage(c)) /\ RejectedMessage(c) \in JsMessage
          BY <2>4, <3>1, MessageTypes
      <4>2. toJs \in Seq(JsMessage)
          BY <1>t DEF TypeOK
      <4> QED  BY <4>1, <4>2, RejectsMove
    <3>2. TypeOK'
        BY <1>t, TypeStep DEF TypeInv
    <3> QED  BY <3>1, <3>2, RefusedNext
  <2> QED  BY <2>4, <2>5, <2>6
<1>5. \A id \in DOMAIN rpcs : id \in DOMAIN rpcs' /\ rpcs'[id].call = rpcs[id].call
    BY <1>t, RpcMoves
<1>6. \A id \in DOMAIN rpcs', c \in Calls : c = rpcs'[id].call =>
          /\ rpcs'[id].status = "none" => rpcs'[id].sent = 0
          /\ rpcs'[id].status = "aborted" => Refused(c)'
          /\ Refused(c)' =>
                rpcs'[id].status \in {"none", "aborted", "failed"} /\ rpcs'[id].sent = 0
    BY <1>3, <1>4, <1>5
<1>7. \A id \in DOMAIN rpcs' : rpcs'[id].call \in Calls
    BY <1>t, TypeStep DEF TypeInv, TypeOK, RpcState
<1> QED  BY <1>1, <1>2, <1>6, <1>7 DEF RefusedInv, Refused

-----------------------------------------------------------------------------
(* What the service shows of one call                                      *)

Shows(status) ==
    CASE status = "running" -> "open"
      [] status = "ended"   -> "ok"
      [] status = "failed"  -> "error"

Ids(calls, c) == {id \in DOMAIN calls : calls[id].call = c}

ServerAt(calls, refused, c) ==
    IF refused THEN "refused"
    ELSE IF \A id \in Ids(calls, c) : calls[id].status = "none" THEN "unlaunched"
    ELSE Shows(calls[CHOOSE id \in Ids(calls, c) : TRUE].status)

SentAt(calls, c) ==
    IF Ids(calls, c) = {} THEN 0 ELSE calls[CHOOSE id \in Ids(calls, c) : TRUE].sent

LEMMA ServerOne ==
    ASSUME NEW calls, NEW c, NEW id \in DOMAIN calls, calls[id].call = c,
           \A other \in DOMAIN calls : calls[other].call = c => other = id
    PROVE  /\ SentAt(calls, c) = calls[id].sent
           /\ ServerAt(calls, FALSE, c) =
                 IF calls[id].status = "none" THEN "unlaunched" ELSE Shows(calls[id].status)
<1>1. Ids(calls, c) = {id} /\ (CHOOSE i \in {id} : TRUE) = id
    BY DEF Ids
<1>2. SentAt(calls, c) = calls[id].sent
    BY <1>1 DEF SentAt
<1>3. CASE calls[id].status = "none"
    BY <1>1, <1>2, <1>3 DEF ServerAt
<1>4. CASE calls[id].status # "none"
    BY <1>1, <1>2, <1>4 DEF ServerAt
<1> QED  BY <1>3, <1>4

LEMMA ServerNone ==
    ASSUME NEW calls, NEW c, \A id \in DOMAIN calls : calls[id].call # c
    PROVE  SentAt(calls, c) = 0 /\ ServerAt(calls, FALSE, c) = "unlaunched"
    BY DEF SentAt, ServerAt, Ids

(* The calls of gRPC that belong to c, with all gRPC knows of them. *)
LEMMA ServerKept ==
    ASSUME NEW calls, NEW next, NEW c, Ids(next, c) = Ids(calls, c),
           \A id \in Ids(calls, c) : next[id] = calls[id]
    PROVE  /\ SentAt(next, c) = SentAt(calls, c)
           /\ ServerAt(next, FALSE, c) = ServerAt(calls, FALSE, c)
<1> DEFINE ids == Ids(calls, c)
           id == CHOOSE i \in ids : TRUE
<1>1. ids # {} => id \in ids
    OBVIOUS
<1>2. ids # {} => next[id] = calls[id]
    BY <1>1
<1>3. ids = {} => \A i \in ids : next[i].status = "none"
    OBVIOUS
<1>4. (\A i \in ids : next[i].status = "none") <=> (\A i \in ids : calls[i].status = "none")
    OBVIOUS
<1>5. SentAt(next, c) = IF ids = {} THEN 0 ELSE next[id].sent
    BY DEF SentAt
<1>6. SentAt(calls, c) = IF ids = {} THEN 0 ELSE calls[id].sent
    BY DEF SentAt
<1>7. ServerAt(next, FALSE, c) = ServerAt(calls, FALSE, c)
  <2>1. ServerAt(next, FALSE, c) =
            IF \A i \in ids : next[i].status = "none" THEN "unlaunched"
            ELSE Shows(next[id].status)
      BY DEF ServerAt
  <2>2. ServerAt(calls, FALSE, c) =
            IF \A i \in ids : calls[i].status = "none" THEN "unlaunched"
            ELSE Shows(calls[id].status)
      BY DEF ServerAt
  <2> QED  BY <1>2, <1>3, <1>4, <2>1, <2>2
<1>8. SentAt(next, c) = SentAt(calls, c)
    BY <1>2, <1>5, <1>6
<1> QED  BY <1>7, <1>8

(* The refinement mapping, one call at a time. *)
PhaseAt(place) == IF place \in InFlight THEN "pending" ELSE place

LEMMA View ==
    ASSUME NEW c \in Calls
    PROVE  /\ phaseOf[c] = PhaseAt(pc[c]) /\ phaseOf'[c] = PhaseAt(pc'[c])
           /\ sentOf[c] = SentAt(rpcs, c) /\ sentOf'[c] = SentAt(rpcs', c)
           /\ Refused(c) => serverOf[c] = "refused"
           /\ Refused(c)' => serverOf'[c] = "refused"
           /\ ~Refused(c) => serverOf[c] = ServerAt(rpcs, FALSE, c)
           /\ ~Refused(c)' => serverOf'[c] = ServerAt(rpcs', FALSE, c)
<1>1. /\ phaseOf[c] = PhaseAt(pc[c]) /\ phaseOf'[c] = PhaseAt(pc'[c])
      /\ sentOf[c] = SentAt(rpcs, c) /\ sentOf'[c] = SentAt(rpcs', c)
    BY DEF phaseOf, PhaseAt, sentOf, SentAt, Ids, RpcIds
<1>2. serverOf[c] = ServerAt(rpcs, Refused(c), c)
    BY Zenon DEF serverOf, ServerAt, Shows, Ids, RpcIds
<1>3. serverOf'[c] = ServerAt(rpcs', Refused(c)', c)
    BY Zenon DEF serverOf, ServerAt, Shows, Ids, RpcIds, Refused
<1>4. /\ Refused(c) => serverOf[c] = "refused"
      /\ Refused(c)' => serverOf'[c] = "refused"
    BY <1>2, <1>3 DEF ServerAt
<1>5. /\ ~Refused(c) => serverOf[c] = ServerAt(rpcs, FALSE, c)
      /\ ~Refused(c)' => serverOf'[c] = ServerAt(rpcs', FALSE, c)
    BY <1>2, <1>3 DEF ServerAt
<1> QED  BY <1>1, <1>4, <1>5

(* The steps of CallService, seen from the one call that takes them. *)
CallStays(c) ==
    /\ phaseOf'[c] = phaseOf[c] /\ serverOf'[c] = serverOf[c]
    /\ sentOf'[c] = sentOf[c] /\ delivered'[c] = delivered[c]
CallStarts(c) ==
    /\ phaseOf[c] = "idle" /\ phaseOf'[c] = "pending"
    /\ serverOf'[c] = serverOf[c] /\ sentOf'[c] = sentOf[c] /\ delivered'[c] = delivered[c]
CallLaunches(c) ==
    /\ phaseOf[c] = "pending" /\ serverOf[c] = "unlaunched"
    /\ serverOf'[c] \in {"open", "refused"}
    /\ phaseOf'[c] = phaseOf[c] /\ sentOf'[c] = sentOf[c] /\ delivered'[c] = delivered[c]
CallProduces(c) ==
    /\ serverOf[c] = "open" /\ sentOf[c] < (IF c \in UnaryCalls THEN 1 ELSE MaxMessages)
    /\ sentOf'[c] = sentOf[c] + 1
    /\ phaseOf'[c] = phaseOf[c] /\ serverOf'[c] = serverOf[c] /\ delivered'[c] = delivered[c]
CallCloses(c) ==
    /\ serverOf[c] = "open" /\ serverOf'[c] \in {"ok", "error"}
    /\ phaseOf'[c] = phaseOf[c] /\ sentOf'[c] = sentOf[c] /\ delivered'[c] = delivered[c]
CallTakes(c) ==
    /\ phaseOf[c] = "pending" /\ Len(delivered[c]) < sentOf[c]
    /\ delivered'[c] = Append(delivered[c], Len(delivered[c]) + 1)
    /\ phaseOf'[c] = (IF c \in UnaryCalls THEN "returned" ELSE "yielded")
    /\ serverOf'[c] = serverOf[c] /\ sentOf'[c] = sentOf[c]
CallFinishes(c) ==
    /\ phaseOf[c] = "pending" /\ Len(delivered[c]) = sentOf[c]
    /\ serverOf[c] \in {"ok", "error", "refused"}
    /\ phaseOf'[c] = (IF serverOf[c] = "ok" /\ c \in StreamCalls THEN "returned" ELSE "threw")
    /\ serverOf'[c] = serverOf[c] /\ sentOf'[c] = sentOf[c] /\ delivered'[c] = delivered[c]
CallPulls(c) ==
    /\ phaseOf[c] = "yielded" /\ phaseOf'[c] \in {"pending", "canceled"}
    /\ serverOf'[c] = serverOf[c] /\ sentOf'[c] = sentOf[c] /\ delivered'[c] = delivered[c]

CallMoves(c) ==
    \/ CallStays(c) \/ CallStarts(c) \/ CallLaunches(c) \/ CallProduces(c)
    \/ CallCloses(c) \/ CallTakes(c) \/ CallFinishes(c) \/ CallPulls(c)

(* Two functions that differ at one argument. *)
LEMMA OneDiffers ==
    ASSUME NEW S, NEW f, f = [x \in S |-> f[x]], NEW g, g = [x \in S |-> g[x]], NEW c \in S,
           \A d \in S \ {c} : g[d] = f[d]
    PROVE  \A v : g[c] = v => g = [f EXCEPT ![c] = v]
<1> SUFFICES ASSUME NEW v, g[c] = v PROVE g = [f EXCEPT ![c] = v]
    OBVIOUS
<1>1. DOMAIN f = S
    OBVIOUS
<1>2. [f EXCEPT ![c] = v] = [x \in S |-> IF x = c THEN v ELSE f[x]]
    BY <1>1
<1>3. \A x \in S : g[x] = IF x = c THEN v ELSE f[x]
    OBVIOUS
<1> QED  BY <1>2, <1>3

LEMMA OneMoves ==
    ASSUME delivered \in [Calls -> Seq(Nat)], delivered' \in [Calls -> Seq(Nat)],
           NEW c \in Calls, CallMoves(c), \A d \in Calls \ {c} : CallStays(d)
    PROVE  [Service!Next]_(Service!vars)
<1>p. phaseOf = [d \in Calls |-> phaseOf[d]] /\ phaseOf' = [d \in Calls |-> phaseOf'[d]]
    BY DEF phaseOf
<1>s. serverOf = [d \in Calls |-> serverOf[d]] /\ serverOf' = [d \in Calls |-> serverOf'[d]]
  <2>1. serverOf = [d \in Calls |-> ServerAt(rpcs, Refused(d), d)]
      BY Zenon DEF serverOf, ServerAt, Shows, Ids, RpcIds
  <2>2. serverOf' = [d \in Calls |-> ServerAt(rpcs', Refused(d)', d)]
      BY Zenon DEF serverOf, ServerAt, Shows, Ids, RpcIds, Refused
  <2> QED  BY <2>1, <2>2
<1>n. sentOf = [d \in Calls |-> sentOf[d]] /\ sentOf' = [d \in Calls |-> sentOf'[d]]
    BY DEF sentOf
<1>g. delivered = [d \in Calls |-> delivered[d]] /\ delivered' = [d \in Calls |-> delivered'[d]]
    OBVIOUS
<1>1. /\ phaseOf' = [phaseOf EXCEPT ![c] = phaseOf'[c]]
      /\ serverOf' = [serverOf EXCEPT ![c] = serverOf'[c]]
      /\ sentOf' = [sentOf EXCEPT ![c] = sentOf'[c]]
      /\ delivered' = [delivered EXCEPT ![c] = delivered'[c]]
  <2>1. \A d \in Calls \ {c} : /\ phaseOf'[d] = phaseOf[d] /\ serverOf'[d] = serverOf[d]
                               /\ sentOf'[d] = sentOf[d] /\ delivered'[d] = delivered[d]
      BY DEF CallStays
  <2>2. phaseOf' = [phaseOf EXCEPT ![c] = phaseOf'[c]]
      BY <1>p, <2>1, OneDiffers
  <2>3. serverOf' = [serverOf EXCEPT ![c] = serverOf'[c]]
      BY <1>s, <2>1, OneDiffers
  <2>4. sentOf' = [sentOf EXCEPT ![c] = sentOf'[c]]
      BY <1>n, <2>1, OneDiffers
  <2>5. delivered' = [delivered EXCEPT ![c] = delivered'[c]]
      BY <1>g, <2>1, OneDiffers
  <2> QED  BY <2>2, <2>3, <2>4, <2>5
<1>2. /\ phaseOf'[c] = phaseOf[c] => phaseOf' = phaseOf
      /\ serverOf'[c] = serverOf[c] => serverOf' = serverOf
      /\ sentOf'[c] = sentOf[c] => sentOf' = sentOf
      /\ delivered'[c] = delivered[c] => delivered' = delivered
  <2>1. /\ [phaseOf EXCEPT ![c] = phaseOf[c]] = phaseOf
        /\ [serverOf EXCEPT ![c] = serverOf[c]] = serverOf
        /\ [sentOf EXCEPT ![c] = sentOf[c]] = sentOf
        /\ [delivered EXCEPT ![c] = delivered[c]] = delivered
      BY <1>p, <1>s, <1>n, <1>g
  <2> QED  BY <1>1, <2>1
<1>3. CASE CallStays(c)
    BY <1>2, <1>3 DEF CallStays, Service!vars
<1>4. CASE CallStarts(c)
  <2>1. Service!Start(c)
      BY <1>1, <1>2, <1>4 DEF CallStarts, Service!Start
  <2> QED  BY <2>1 DEF Service!Next, Service!Calls, Calls
<1>5. CASE CallLaunches(c)
  <2>1. Service!Launch(c)
      BY <1>1, <1>2, <1>5 DEF CallLaunches, Service!Launch
  <2> QED  BY <2>1 DEF Service!Next, Service!Calls, Calls
<1>6. CASE CallProduces(c)
  <2>1. [sentOf EXCEPT ![c] = @ + 1] = [sentOf EXCEPT ![c] = sentOf[c] + 1]
      OBVIOUS
  <2>2. Service!Produce(c)
      BY <1>1, <1>2, <1>6, <2>1 DEF CallProduces, Service!Produce
  <2> QED  BY <2>2 DEF Service!Next, Service!Calls, Calls
<1>7. CASE CallCloses(c)
  <2>1. Service!Close(c)
      BY <1>1, <1>2, <1>7 DEF CallCloses, Service!Close
  <2> QED  BY <2>1 DEF Service!Next, Service!Calls, Calls
<1>8. CASE CallTakes(c)
  <2>1. Service!Take(c)
      BY <1>1, <1>2, <1>8 DEF CallTakes, Service!Take
  <2> QED  BY <2>1 DEF Service!Next, Service!Calls, Calls
<1>9. CASE CallFinishes(c)
  <2>1. Service!Finish(c)
      BY <1>1, <1>2, <1>9 DEF CallFinishes, Service!Finish
  <2> QED  BY <2>1 DEF Service!Next, Service!Calls, Calls
<1>10. CASE CallPulls(c)
  <2>1. Service!Pull(c)
      BY <1>1, <1>2, <1>10 DEF CallPulls, Service!Pull
  <2> QED  BY <2>1 DEF Service!Next, Service!Calls, Calls
<1> QED
    BY <1>3, <1>4, <1>5, <1>6, <1>7, <1>8, <1>9, <1>10 DEF CallMoves

-----------------------------------------------------------------------------
(* The steps of the bridge                                                 *)

RefinementInv == DeliveryInv /\ RefusedInv

LEMMA ServerSame ==
    ASSUME NEW c \in Calls, Refused(c)' <=> Refused(c), Ids(rpcs', c) = Ids(rpcs, c),
           \A id \in Ids(rpcs, c) : rpcs'[id] = rpcs[id]
    PROVE  serverOf'[c] = serverOf[c] /\ sentOf'[c] = sentOf[c]
<1>1. /\ SentAt(rpcs', c) = SentAt(rpcs, c)
      /\ ServerAt(rpcs', FALSE, c) = ServerAt(rpcs, FALSE, c)
    BY ServerKept
<1> QED  BY <1>1, View

(* No step but these two kinds turns a call down. *)
LEMMA RefusedStays ==
    ASSUME BridgeInv, RefusedInv, [Next]_vars, NEW c \in Calls,
           UNCHANGED nextId, c \in toNative => c \in toNative'
    PROVE  Refused(c)' <=> Refused(c)
<1>1. nextId \in Nat
    BY DEF BridgeInv, TypeInv, TypeOK, CallIds
<1>2. ~RunCreateCall
    BY <1>1 DEF RunCreateCall
<1>3. ~(c \in toNative /\ NativeCreateCall(c))
    BY DEF NativeCreateCall
<1> QED  BY <1>2, <1>3, RefusedCases DEF TurnsDown

LEMMA StillServed ==
    ASSUME BridgeInv, RefusedInv, [Next]_vars, NEW c \in Calls,
           UNCHANGED <<nextId, rpcs>>, c \in toNative => c \in toNative'
    PROVE  serverOf'[c] = serverOf[c] /\ sentOf'[c] = sentOf[c]
<1>1. Ids(rpcs', c) = Ids(rpcs, c) /\ \A id \in Ids(rpcs, c) : rpcs'[id] = rpcs[id]
    OBVIOUS
<1> QED  BY <1>1, RefusedStays, ServerSame

(* gRPC holds at most one call of each. *)
LEMMA ServerOf ==
    ASSUME RefinementInv, NEW c \in Calls
    PROVE  /\ (\A id \in DOMAIN rpcs : rpcs[id].call # c) =>
                 sentOf[c] = 0 /\ (~Refused(c) => serverOf[c] = "unlaunched")
           /\ \A id \in DOMAIN rpcs : rpcs[id].call = c =>
                 /\ \A other \in DOMAIN rpcs : rpcs[other].call = c => other = id
                 /\ sentOf[c] = rpcs[id].sent
                 /\ ~Refused(c) =>
                       serverOf[c] = IF rpcs[id].status = "none" THEN "unlaunched"
                                     ELSE Shows(rpcs[id].status)
           /\ Refused(c) => sentOf[c] = 0 /\ serverOf[c] = "refused"
<1>1. ASSUME \A id \in DOMAIN rpcs : rpcs[id].call # c
      PROVE  sentOf[c] = 0 /\ (~Refused(c) => serverOf[c] = "unlaunched")
    BY <1>1, ServerNone, View
<1>2. ASSUME NEW id \in DOMAIN rpcs, rpcs[id].call = c
      PROVE  /\ \A other \in DOMAIN rpcs : rpcs[other].call = c => other = id
             /\ sentOf[c] = rpcs[id].sent
             /\ ~Refused(c) => serverOf[c] = IF rpcs[id].status = "none" THEN "unlaunched"
                                             ELSE Shows(rpcs[id].status)
  <2>1. \A other \in DOMAIN rpcs : rpcs[other].call = c => other = id
      BY <1>2 DEF RefinementInv, DeliveryInv, PlaceInv, OneCall
  <2>2. /\ SentAt(rpcs, c) = rpcs[id].sent
        /\ ServerAt(rpcs, FALSE, c) =
              IF rpcs[id].status = "none" THEN "unlaunched" ELSE Shows(rpcs[id].status)
      BY <1>2, <2>1, ServerOne
  <2> QED  BY <2>1, <2>2, View
<1>3. ASSUME Refused(c) PROVE sentOf[c] = 0
  <2>1. CASE \A id \in DOMAIN rpcs : rpcs[id].call # c
      BY <1>1, <2>1
  <2>2. CASE \E id \in DOMAIN rpcs : rpcs[id].call = c
    <3>1. PICK id \in DOMAIN rpcs : rpcs[id].call = c
        BY <2>2
    <3>2. rpcs[id].sent = 0
        BY <1>3, <3>1 DEF RefinementInv, RefusedInv
    <3> QED  BY <1>2, <3>1, <3>2
  <2> QED  BY <2>1, <2>2
<1> QED  BY <1>1, <1>2, <1>3, View

(* A continuation that runs has an event of its own call, or finds that    *)
(* the call ended.                                                         *)
LEMMA ResumedHands ==
    ASSUME RefinementInv, NEW c \in Calls, pc[c] = "resumed"
    PROVE  /\ Len(delivered[c]) \in Nat /\ phaseOf[c] = "pending"
           /\ handed[c].type = "receive" =>
                 handed[c].message = Len(delivered[c]) + 1 /\ Len(delivered[c]) < sentOf[c]
           /\ handed[c].type # "receive" =>
                 Len(delivered[c]) = sentOf[c] /\ serverOf[c] \in {"ok", "error"}
           /\ handed[c].type = "end" => serverOf[c] = "ok"
           /\ handed[c].type = "fail" => serverOf[c] = "error"
<1> DEFINE id == callId[c]
<1>t. BridgeInv /\ PlaceInv /\ SoundInv /\ TypeOK
    BY DEF RefinementInv, DeliveryInv, BridgeInv, TypeInv
<1>1. id \in DOMAIN rpcs /\ rpcs[id].call = c /\ rpcs[id] \in RpcState /\ ~Refused(c)
  <2>1. id \in DOMAIN rpcs /\ rpcs[id].call = c
      BY <1>t DEF BridgeInv, IdInv, Registered
  <2>2. ~Refused(c)
      BY <1>t, NotRefused DEF Registered
  <2> QED  BY <1>t, <2>1, <2>2 DEF TypeOK
<1>2. /\ sentOf[c] = rpcs[id].sent
      /\ serverOf[c] = IF rpcs[id].status = "none" THEN "unlaunched" ELSE Shows(rpcs[id].status)
    BY <1>1, ServerOf
<1>3. phaseOf[c] = "pending"
    BY View DEF PhaseAt, InFlight
<1>4. Flows(id)
    BY <1>1 DEF RefinementInv, DeliveryInv, FlowInv, Settled
<1>5. PICK r \in Nat : Given(delivered[c], handed[c], "resumed", id, rpcs[id], r)
    BY <1>1, <1>4 DEF Flows, Arrived
<1>6. delivered[c] \in Seq(Nat) /\ Len(delivered[c]) \in Nat /\ handed[c] \in CallEvent \cup {Null}
    BY <1>t DEF TypeOK
<1> HIDE DEF id
<1>7. CASE handed[c] = Null
  <2>1. Len(delivered[c]) = rpcs[id].sent /\ rpcs[id].status \in {"ended", "failed"}
      BY <1>5, <1>7 DEF Given, Closed
  <2>2. handed[c].type = "null"
      BY <1>7 DEF Null
  <2> QED  BY <1>2, <1>3, <1>6, <2>1, <2>2 DEF Shows
<1>8. CASE handed[c] # Null
  <2>1. PICK e \in CallEvent : e = handed[c]
      BY <1>6, <1>8
  <2>2. Sound(e, rpcs)
      BY <1>t, <1>8, <2>1 DEF SoundInv
  <2>3. r = Len(delivered[c]) + 1 /\ EventNumber(id, rpcs[id])[e] = r
      BY <1>5, <1>8, <2>1 DEF Given
  <2>4. /\ e.callId = id /\ rpcs[id].sent \in Nat
        /\ ~Completes(e) => e.message = r /\ r <= rpcs[id].sent
        /\ Completes(e) => r = rpcs[id].sent + 1
      BY <1>1, <1>6, <2>2, <2>3, NumberOf DEF RpcState
  <2>5. /\ e.type \in {"receive", "end", "fail"} /\ (Completes(e) <=> e.type # "receive")
        /\ e.type = "end" => rpcs[id].status = "ended"
        /\ e.type = "fail" => rpcs[id].status = "failed"
      BY <2>2, <2>4, CompletesOr DEF CallEvent, Sound
  <2>6. CASE e.type = "receive"
      BY <1>2, <1>3, <1>6, <2>1, <2>3, <2>4, <2>5, <2>6
  <2>7. CASE e.type = "end"
      BY <1>2, <1>3, <1>6, <2>1, <2>3, <2>4, <2>5, <2>7 DEF Shows
  <2>8. CASE e.type = "fail"
      BY <1>2, <1>3, <1>6, <2>1, <2>3, <2>4, <2>5, <2>8 DEF Shows
  <2> QED  BY <2>5, <2>6, <2>7, <2>8
<1> QED  BY <1>7, <1>8

(* A continuation and the two answers of a consumer: Take, Finish or Pull, *)
(* or the caller goes on waiting.                                          *)
LEMMA CallStepMoves ==
    ASSUME RefinementInv, [Next]_vars, NEW c \in Calls, CallStep(c)
    PROVE  CallMoves(c) /\ \A d \in Calls \ {c} : CallStays(d)
<1>t. /\ BridgeInv /\ TypeInv /\ PlaceInv /\ RefusedInv
      /\ pc \in [Calls -> {"idle", "yielded"} \cup InFlight \cup Settled]
      /\ delivered \in [Calls -> Seq(Nat)]
    BY DEF RefinementInv, DeliveryInv, BridgeInv, TypeInv, TypeOK
<1>1. /\ pc[c] \in {"yielded", "created", "resumed"} /\ UNCHANGED <<nextId, rpcs, toNative>>
      /\ \A d \in Calls \ {c} : pc'[d] = pc[d] /\ delivered'[d] = delivered[d]
    BY <1>t, CallStepFrame, CallCases DEF nativeVars
<1>2. \A d \in Calls : serverOf'[d] = serverOf[d] /\ sentOf'[d] = sentOf[d]
    BY <1>t, <1>1, StillServed
<1>3. \A d \in Calls \ {c} : CallStays(d)
    BY <1>1, <1>2, View DEF CallStays
<1>4. phaseOf[c] = PhaseAt(pc[c]) /\ phaseOf'[c] = PhaseAt(pc'[c])
    BY View
<1>p. ~(c \in UnaryCalls /\ c \in StreamCalls)
    BY CallsAssumption
<1>5. CASE pc'[c] \in {"waiting", "resumed"}
  <2>1. Awaits(c) \/ Registers(c)
      BY <1>t, <1>5, CallCases DEF Leaves, Yields, Settled
  <2>2. delivered'[c] = delivered[c] /\ pc[c] \in {"created", "resumed", "yielded"}
      BY <2>1 DEF Awaits, Registers
  <2>3. CASE pc[c] = "yielded"
      BY <1>2, <1>3, <1>4, <1>5, <2>2, <2>3 DEF CallMoves, CallPulls, PhaseAt, InFlight
  <2>4. CASE pc[c] # "yielded"
      BY <1>2, <1>3, <1>4, <1>5, <2>2, <2>4 DEF CallMoves, CallStays, PhaseAt, InFlight
  <2> QED  BY <2>3, <2>4
<1>6. CASE pc[c] = "yielded" /\ pc'[c] \notin {"waiting", "resumed"}
  <2>1. Return(c)
    <3>1. ~Microtask(c)
        BY <1>6 DEF Microtask, Register, ResumeUnary, ResumeStream
    <3>2. Pull(c) => pc'[c] \in {"waiting", "resumed"}
        BY <1>t DEF Pull, WaitForCallEvent, Resolve
    <3> QED  BY <1>6, <3>1, <3>2 DEF CallStep
  <2>2. pc'[c] = "canceled" /\ delivered' = delivered
      BY <1>t, <2>1 DEF Return
  <2> QED  BY <1>2, <1>3, <1>4, <1>6, <2>2 DEF CallMoves, CallPulls, PhaseAt, InFlight
<1>7. CASE pc[c] = "resumed" /\ pc'[c] \notin {"waiting", "resumed"}
  <2>1. ResumeUnary(c) \/ ResumeStream(c)
      BY <1>7 DEF CallStep, Pull, Return, Microtask, Register
  <2>2. /\ Len(delivered[c]) \in Nat /\ phaseOf[c] = "pending"
        /\ handed[c].type = "receive" =>
              handed[c].message = Len(delivered[c]) + 1 /\ Len(delivered[c]) < sentOf[c]
        /\ handed[c].type # "receive" =>
              Len(delivered[c]) = sentOf[c] /\ serverOf[c] \in {"ok", "error"}
        /\ handed[c].type = "end" => serverOf[c] = "ok"
        /\ handed[c].type = "fail" => serverOf[c] = "error"
      BY <1>7, ResumedHands
  <2>3. CASE handed[c].type = "receive"
    <3>1. /\ delivered'[c] = Append(delivered[c], handed[c].message)
          /\ pc'[c] = IF c \in UnaryCalls THEN "returned" ELSE "yielded"
        BY <1>t, <1>p, <2>1, <2>3 DEF ResumeUnary, ResumeStream, Settle
    <3> QED  BY <1>2, <1>3, <1>4, <2>2, <2>3, <3>1 DEF CallMoves, CallTakes, PhaseAt, InFlight
  <2>4. CASE handed[c].type # "receive" /\ c \in UnaryCalls
    <3>1. ResumeUnary(c) /\ c \notin StreamCalls
        BY <1>p, <2>1, <2>4 DEF ResumeStream
    <3>2. handed[c].type # "end"
      <4>1. handed[c].type = "end" => pc'[c] \in {"waiting", "resumed"}
          BY <1>t, <3>1 DEF ResumeUnary, WaitForCallEvent, Resolve
      <4> QED  BY <1>7, <4>1
    <3>3. pc'[c] = "threw" /\ delivered' = delivered
        BY <1>t, <2>4, <3>1, <3>2 DEF ResumeUnary, Settle
    <3> QED  BY <1>2, <1>3, <1>4, <2>2, <2>4, <3>1, <3>3
             DEF CallMoves, CallFinishes, PhaseAt, InFlight
  <2>5. CASE handed[c].type # "receive" /\ c \in StreamCalls
    <3>1. ResumeStream(c) /\ c \notin UnaryCalls
        BY <1>p, <2>1, <2>5 DEF ResumeUnary
    <3>2. handed[c].type # "null"
      <4>1. handed[c] # Null /\ handed[c] \in CallEvent \cup {Null}
          BY <1>t, <1>7, <2>5 DEF RefusedInv, TypeInv, TypeOK
      <4> QED  BY <4>1 DEF CallEvent
    <3>3. delivered' = delivered /\ pc'[c] = IF handed[c].type = "fail" THEN "threw" ELSE "returned"
        BY <1>t, <2>5, <3>1 DEF ResumeStream, Settle
    <3>4. handed[c].type \in {"end", "fail"}
        BY <2>5, <3>1, <3>2 DEF ResumeStream
    <3>5. CASE handed[c].type = "end"
        BY <1>2, <1>3, <1>4, <2>2, <2>5, <3>3, <3>5 DEF CallMoves, CallFinishes, PhaseAt, InFlight
    <3>6. CASE handed[c].type = "fail"
        BY <1>2, <1>3, <1>4, <2>2, <2>5, <3>3, <3>6 DEF CallMoves, CallFinishes, PhaseAt, InFlight
    <3> QED  BY <3>4, <3>5, <3>6
  <2> QED  BY <2>1, <2>3, <2>4, <2>5 DEF ResumeUnary, ResumeStream
<1>8. pc[c] # "created" \/ pc'[c] = "waiting"
    BY <1>t, CallCases DEF Leaves, Yields, Awaits, Registers
<1> QED  BY <1>1, <1>3, <1>5, <1>6, <1>7, <1>8

(* The native side runs a createCall: Launch, or no step when it makes no  *)
(* call (iOS, a stream).                                                   *)
LEMMA CreateMoves ==
    ASSUME RefinementInv, [Next]_vars, NEW c \in Calls, RunCreateCall, c = Head(executor).call
    PROVE  CallMoves(c) /\ \A d \in Calls \ {c} : CallStays(d)
<1>t. BridgeInv /\ TypeInv /\ PlaceInv /\ RefusedInv /\ IdInv
    BY DEF RefinementInv, DeliveryInv, BridgeInv
<1>1. /\ executor # << >> /\ IsCreateTask(Head(executor))
      /\ pc[c] = "creating" /\ UNCHANGED <<pc, callId, delivered, handed>>
      /\ NewId \notin DOMAIN rpcs /\ DOMAIN rpcs' = DOMAIN rpcs \cup {NewId}
      /\ \A id \in DOMAIN rpcs : rpcs[id].call # c /\ rpcs'[id] = rpcs[id]
      /\ rpcs'[NewId].call = c /\ rpcs'[NewId].sent = 0
      /\ \/ ~LaunchThrows(c) /\ rpcs'[NewId].status \in {"running", "none"}
         \/ LaunchThrows(c) /\ rpcs'[NewId].status \in {"none", "aborted"}
      /\ \A d : TurnsDown(d) <=> d = c /\ LaunchThrows(c)
    BY <1>t, CreatedCases
<1>2. \A d \in Calls : /\ Refused(d) => Refused(d)'
                       /\ Refused(d)' /\ ~Refused(d) => TurnsDown(d)
    BY <1>t, RefusedCases
<1>3. ASSUME NEW d \in Calls \ {c} PROVE CallStays(d)
  <2>1. Ids(rpcs', d) = Ids(rpcs, d) /\ \A id \in Ids(rpcs, d) : rpcs'[id] = rpcs[id]
      BY <1>1, <1>3 DEF Ids
  <2>2. Refused(d)' <=> Refused(d)
      BY <1>1, <1>2
  <2>3. serverOf'[d] = serverOf[d] /\ sentOf'[d] = sentOf[d]
      BY <2>1, <2>2, ServerSame
  <2> QED  BY <1>1, <2>3, View DEF CallStays
<1>4. ~Refused(c) /\ sentOf[c] = 0 /\ serverOf[c] = "unlaunched"
  <2>1. ~Refused(c)
      BY <1>t, <1>1, NotRefused
  <2> QED  BY <1>1, <2>1, ServerOf
<1>5. /\ SentAt(rpcs', c) = 0
      /\ ServerAt(rpcs', FALSE, c) =
            IF rpcs'[NewId].status = "none" THEN "unlaunched" ELSE Shows(rpcs'[NewId].status)
  <2>1. \A other \in DOMAIN rpcs' : rpcs'[other].call = c => other = NewId
      BY <1>1
  <2>2. PICK id \in DOMAIN rpcs' : id = NewId
      BY <1>1
  <2>3. rpcs'[id].call = c /\ \A other \in DOMAIN rpcs' : rpcs'[other].call = c => other = id
      BY <1>1, <2>1, <2>2
  <2>4. /\ SentAt(rpcs', c) = rpcs'[id].sent
        /\ ServerAt(rpcs', FALSE, c) =
              IF rpcs'[id].status = "none" THEN "unlaunched" ELSE Shows(rpcs'[id].status)
      BY <2>3, ServerOne
  <2> QED  BY <1>1, <2>2, <2>4
<1>6. phaseOf[c] = "pending" /\ phaseOf'[c] = "pending" /\ sentOf'[c] = 0
    BY <1>1, <1>5, View DEF PhaseAt, InFlight
<1>7. CASE LaunchThrows(c)
  <2>1. Refused(c)'
    <3>1. RefusedInv'
        BY RefusedStep DEF RefinementInv
    <3>2. Rejects(toJs', c)
      <4>1. toJs' = Append(toJs, RejectedMessage(c)) /\ RejectedMessage(c) \in JsMessage
          BY <1>7, MessageTypes DEF LaunchThrows
      <4>2. toJs \in Seq(JsMessage)
          BY <1>t DEF TypeInv, TypeOK
      <4> QED  BY <4>1, <4>2, RejectsMove
    <3>3. TypeOK'
        BY <1>t, TypeStep DEF TypeInv
    <3> QED  BY <3>2, <3>3, RefusedNext
  <2>2. serverOf'[c] = "refused"
      BY <2>1, View
  <2> QED  BY <1>1, <1>3, <1>4, <1>6, <2>2 DEF CallMoves, CallLaunches
<1>8. CASE ~LaunchThrows(c)
  <2>1. ~Refused(c)'
      BY <1>1, <1>2, <1>4, <1>8
  <2>2. serverOf'[c] = IF rpcs'[NewId].status = "none" THEN "unlaunched" ELSE "open"
      BY <1>1, <1>5, <1>8, <2>1, View DEF Shows
  <2>3. serverOf'[c] \in {"unlaunched", "open"}
      BY <2>2
  <2> QED  BY <1>1, <1>3, <1>4, <1>6, <2>3 DEF CallMoves, CallLaunches, CallStays
<1> QED  BY <1>7, <1>8

(* createCall arrives at the native module: on Android it may be turned    *)
(* down there, which launches nothing.                                     *)
LEMMA NativeMoves ==
    ASSUME RefinementInv, [Next]_vars, NEW c \in Calls, NativeCreateCall(c)
    PROVE  CallMoves(c) /\ \A d \in Calls \ {c} : CallStays(d)
<1>t. BridgeInv /\ TypeInv /\ PlaceInv /\ RefusedInv /\ TokenInv
    BY DEF RefinementInv, DeliveryInv, BridgeInv
<1>1. /\ c \in toNative /\ toNative' = toNative \ {c}
      /\ UNCHANGED <<pc, delivered, nextId, rpcs>>
    BY DEF NativeCreateCall, jsVars
<1>2. ASSUME NEW d \in Calls \ {c} PROVE CallStays(d)
  <2>1. serverOf'[d] = serverOf[d] /\ sentOf'[d] = sentOf[d]
      BY <1>t, <1>1, <1>2, StillServed
  <2> QED  BY <1>1, <2>1, View DEF CallStays
<1>3. phaseOf[c] = "pending" /\ phaseOf'[c] = phaseOf[c] /\ delivered'[c] = delivered[c]
  <2>1. pc[c] = "creating"
      BY <1>t, <1>1 DEF TokenInv
  <2> QED  BY <1>1, <2>1, View DEF PhaseAt, InFlight
<1>4. ~Refused(c)
    BY <1>t, <1>1, NotRefused
<1>5. sentOf'[c] = sentOf[c]
    BY <1>1, View
<1>6. CASE Refused(c)'
  <2>1. serverOf'[c] = "refused"
      BY <1>6, View
  <2>2. \A id \in DOMAIN rpcs : rpcs[id].call # c
      BY <1>t, <1>1 DEF PlaceInv, OneCall
  <2>3. serverOf[c] = "unlaunched"
      BY <1>4, <2>2, ServerOf
  <2> QED  BY <1>2, <1>3, <1>5, <2>1, <2>3 DEF CallMoves, CallLaunches
<1>7. CASE ~Refused(c)'
  <2>1. Ids(rpcs', c) = Ids(rpcs, c) /\ \A id \in Ids(rpcs, c) : rpcs'[id] = rpcs[id]
      BY <1>1
  <2>2. serverOf'[c] = serverOf[c]
      BY <1>4, <1>7, <2>1, ServerSame
  <2> QED  BY <1>2, <1>3, <1>5, <2>2 DEF CallMoves, CallStays
<1> QED  BY <1>6, <1>7

(* gRPC reports on the call id: Produce or Close, or the failure of a call *)
(* that createCall turned down.                                            *)
LEMMA NetworkMoves ==
    ASSUME RefinementInv, [Next]_vars, NEW id \in DOMAIN rpcs,
           OnNext(id) \/ OnCompleted(id) \/ OnError(id), NEW c \in Calls, c = rpcs[id].call
    PROVE  CallMoves(c) /\ \A d \in Calls \ {c} : CallStays(d)
<1>t. BridgeInv /\ TypeInv /\ TypeOK /\ PlaceInv /\ RefusedInv /\ rpcs[id] \in RpcState
    BY DEF RefinementInv, DeliveryInv, BridgeInv, TypeInv, TypeOK
<1>1. /\ UNCHANGED <<jsVars, toNative, nextId>> /\ DOMAIN rpcs' = DOMAIN rpcs
      /\ \A i \in DOMAIN rpcs \ {id} : rpcs'[i] = rpcs[i]
      /\ rpcs'[id].call = c
    BY <1>t, NetworkCases
<1>2. \A d \in Calls : Refused(d)' <=> Refused(d)
    BY <1>t, <1>1, RefusedStays
<1>3. UNCHANGED <<pc, delivered>>
    BY <1>1 DEF jsVars
<1>4. ASSUME NEW d \in Calls \ {c} PROVE CallStays(d)
  <2>1. Ids(rpcs', d) = Ids(rpcs, d) /\ \A i \in Ids(rpcs, d) : rpcs'[i] = rpcs[i]
      BY <1>1, <1>4 DEF Ids
  <2>2. serverOf'[d] = serverOf[d] /\ sentOf'[d] = sentOf[d]
      BY <1>2, <2>1, ServerSame
  <2> QED  BY <1>3, <2>2, View DEF CallStays
<1>5. /\ \A other \in DOMAIN rpcs : rpcs[other].call = c => other = id
      /\ sentOf[c] = rpcs[id].sent
      /\ ~Refused(c) => serverOf[c] = IF rpcs[id].status = "none" THEN "unlaunched"
                                      ELSE Shows(rpcs[id].status)
      /\ Refused(c) => sentOf[c] = 0 /\ serverOf[c] = "refused"
    BY ServerOf
<1>6. /\ sentOf'[c] = rpcs'[id].sent
      /\ ~Refused(c) => serverOf'[c] = IF rpcs'[id].status = "none" THEN "unlaunched"
                                       ELSE Shows(rpcs'[id].status)
      /\ Refused(c) => serverOf'[c] = "refused"
  <2>1. id \in DOMAIN rpcs' /\ \A other \in DOMAIN rpcs' : rpcs'[other].call = c => other = id
      BY <1>1, <1>5
  <2>2. /\ SentAt(rpcs', c) = rpcs'[id].sent
        /\ ServerAt(rpcs', FALSE, c) =
              IF rpcs'[id].status = "none" THEN "unlaunched" ELSE Shows(rpcs'[id].status)
      BY <1>1, <2>1, ServerOne
  <2> QED  BY <1>2, <2>2, View
<1>7. phaseOf'[c] = phaseOf[c] /\ delivered'[c] = delivered[c]
    BY <1>3, View
<1>8. Refused(c) => rpcs[id].status \in {"none", "aborted", "failed"}
    BY DEF RefinementInv, RefusedInv
<1>9. rpcs[id].status = "aborted" => Refused(c)
    BY DEF RefinementInv, RefusedInv
<1>10. CASE OnNext(id)
  <2>1. /\ rpcs[id].status = "running" /\ rpcs'[id].status = "running"
        /\ rpcs[id].sent < (IF c \in UnaryCalls THEN 1 ELSE MaxMessages)
        /\ rpcs'[id].sent = rpcs[id].sent + 1
      BY <1>10, <1>t DEF OnNext, RpcState
  <2>2. ~Refused(c)
      BY <1>8, <2>1
  <2> QED  BY <1>4, <1>5, <1>6, <1>7, <2>1, <2>2 DEF CallMoves, CallProduces, Shows
<1>11. CASE OnCompleted(id)
  <2>1. /\ rpcs[id].status = "running" /\ rpcs'[id].status = "ended"
        /\ rpcs'[id].sent = rpcs[id].sent
      BY <1>11, <1>t DEF OnCompleted, RpcState
  <2>2. ~Refused(c)
      BY <1>8, <2>1
  <2> QED  BY <1>4, <1>5, <1>6, <1>7, <2>1, <2>2 DEF CallMoves, CallCloses, Shows
<1>12. CASE OnError(id)
  <2>1. /\ rpcs[id].status \in {"running", "aborted"} /\ rpcs'[id].status = "failed"
        /\ rpcs'[id].sent = rpcs[id].sent
      BY <1>12, <1>t DEF OnError, RpcState
  <2>2. CASE rpcs[id].status = "aborted"
      BY <1>4, <1>5, <1>6, <1>7, <1>9, <2>1, <2>2 DEF CallMoves, CallStays
  <2>3. CASE rpcs[id].status = "running"
    <3>1. ~Refused(c)
        BY <1>8, <2>3
    <3> QED  BY <1>4, <1>5, <1>6, <1>7, <2>1, <2>3, <3>1 DEF CallMoves, CallCloses, Shows
  <2> QED  BY <2>1, <2>2, <2>3
<1> QED  BY <1>10, <1>11, <1>12

(* JavaScript takes the answer to a createCall. *)
LEMMA AnswerMoves ==
    ASSUME RefinementInv, [Next]_vars, TakeCreated \/ TakeRejected,
           NEW c \in Calls, c = Head(toJs).call
    PROVE  CallMoves(c) /\ \A d \in Calls \ {c} : CallStays(d)
<1>t. /\ BridgeInv /\ TypeInv /\ PlaceInv /\ RefusedInv /\ TokenInv /\ TypeOK
      /\ toJs \in Seq(JsMessage)
      /\ pc \in [Calls -> {"idle", "yielded"} \cup InFlight \cup Settled]
    BY DEF RefinementInv, DeliveryInv, BridgeInv, TypeInv, TypeOK
<1>1. /\ toJs # << >> /\ IsAnswer(Head(toJs)) /\ UNCHANGED <<delivered, nextId, rpcs, toNative>>
      /\ \/ TakeCreated /\ pc' = [pc EXCEPT ![c] = "created"]
         \/ /\ TakeRejected /\ pc' = [pc EXCEPT ![c] = "threw"]
            /\ Head(toJs).kind = "rejected"
    BY DEF TakeCreated, TakeRejected, Take, IsAnswer, nativeVars
<1>2. \A d \in Calls : serverOf'[d] = serverOf[d] /\ sentOf'[d] = sentOf[d]
    BY <1>t, <1>1, StillServed
<1>3. ASSUME NEW d \in Calls \ {c} PROVE CallStays(d)
  <2>1. pc'[d] = pc[d] /\ delivered'[d] = delivered[d]
      BY <1>t, <1>1
  <2>2. phaseOf'[d] = phaseOf[d]
      BY <2>1, View
  <2> QED  BY <1>2, <2>1, <2>2 DEF CallStays
<1>4. Head(toJs) = toJs[1] /\ 1 \in 1 .. Len(toJs) /\ Head(toJs) \in JsMessage
    BY <1>t, <1>1, TailAt
<1>5. pc[c] = "creating" /\ phaseOf[c] = "pending" /\ delivered[c] = << >>
  <2>1. pc[c] = "creating"
      BY <1>t, <1>1, <1>4 DEF TokenInv
  <2> QED  BY <1>t, <2>1, View DEF PlaceInv, Holds, PhaseAt, InFlight
<1>6. CASE pc' = [pc EXCEPT ![c] = "created"]
  <2>1. phaseOf'[c] = "pending"
      BY <1>t, <1>6, View DEF PhaseAt, InFlight
  <2> QED  BY <1>1, <1>2, <1>3, <1>5, <2>1 DEF CallMoves, CallStays
<1>7. CASE pc' = [pc EXCEPT ![c] = "threw"] /\ Head(toJs).kind = "rejected"
  <2>1. Head(toJs) = RejectedMessage(c)
      BY <1>4, <1>7 DEF RejectedMessage, JsMessage
  <2>2. Rejects(toJs, c)
      BY <1>4, <2>1 DEF Rejects
  <2>3. Refused(c)
      BY <1>t, <2>2, RefusedIs
  <2>4. sentOf[c] = 0 /\ serverOf[c] = "refused"
      BY <2>3, ServerOf
  <2>5. phaseOf'[c] = "threw"
      BY <1>t, <1>7, View DEF PhaseAt, InFlight
  <2>6. Len(delivered[c]) = 0
      BY <1>5
  <2> QED  BY <1>1, <1>2, <1>3, <1>5, <2>4, <2>5, <2>6 DEF CallMoves, CallFinishes
<1> QED  BY <1>1, <1>6, <1>7

LEMMA StepMoves ==
    ASSUME RefinementInv, [Next]_vars
    PROVE  [Service!Next]_(Service!vars)
<1>t. /\ BridgeInv /\ TypeInv /\ PlaceInv /\ RefusedInv /\ TokenInv /\ TypeOK
      /\ toJs \in Seq(JsMessage)
      /\ pc \in [Calls -> {"idle", "yielded"} \cup InFlight \cup Settled]
    BY DEF RefinementInv, DeliveryInv, BridgeInv, TypeInv, TypeOK
<1>d. delivered \in [Calls -> Seq(Nat)] /\ delivered' \in [Calls -> Seq(Nat)]
    BY <1>t, TypeStep DEF TypeInv, TypeOK
<1>1. ASSUME NEW c \in Calls, CallMoves(c), \A d \in Calls \ {c} : CallStays(d)
      PROVE  [Service!Next]_(Service!vars)
    BY <1>1, <1>d, OneMoves
<1>2. ASSUME \A d \in Calls : CallStays(d)
      PROVE  [Service!Next]_(Service!vars)
  <2>1. CASE Calls = {}
    <3>1. phaseOf' = phaseOf
        BY <2>1 DEF phaseOf
    <3>2. serverOf' = serverOf
        BY <2>1 DEF serverOf
    <3>3. sentOf' = sentOf
        BY <2>1 DEF sentOf
    <3>4. delivered' = delivered
        BY <1>d, <2>1
    <3> QED  BY <3>1, <3>2, <3>3, <3>4 DEF Service!vars
  <2>2. CASE Calls # {}
    <3>1. PICK c \in Calls : TRUE
        BY <2>2
    <3>2. CallMoves(c)
        BY <1>2 DEF CallMoves
    <3> QED  BY <1>1, <1>2, <3>2
  <2> QED  BY <2>1, <2>2
<1>3. ASSUME NEW c \in Calls, StartCall(c)
      PROVE  [Service!Next]_(Service!vars)
  <2>1. /\ pc[c] = "idle" /\ pc' = [pc EXCEPT ![c] = "creating"] /\ toNative \subseteq toNative'
        /\ UNCHANGED <<delivered, nextId, rpcs>>
      BY <1>3 DEF StartCall, nativeVars
  <2>2. \A d \in Calls : serverOf'[d] = serverOf[d] /\ sentOf'[d] = sentOf[d]
      BY <1>t, <2>1, StillServed
  <2>3. \A d \in Calls \ {c} : CallStays(d)
      BY <1>t, <2>1, <2>2, View DEF CallStays
  <2>4. phaseOf[c] = "idle" /\ phaseOf'[c] = "pending"
      BY <1>t, <2>1, View DEF PhaseAt, InFlight
  <2> QED  BY <1>1, <2>1, <2>2, <2>3, <2>4 DEF CallMoves, CallStarts
<1>4. ASSUME NEW c \in Calls, CallStep(c)
      PROVE  [Service!Next]_(Service!vars)
    BY <1>1, <1>4, CallStepMoves
<1>5. ASSUME NEW c \in Calls, NativeCreateCall(c)
      PROVE  [Service!Next]_(Service!vars)
    BY <1>1, <1>5, NativeMoves
<1>6. CASE RunCreateCall
  <2>1. executor # << >> /\ Head(executor).call \in Calls
      BY <1>t, <1>6, HeadTypes DEF RunCreateCall, RunTask
  <2>2. PICK c \in Calls : c = Head(executor).call
      BY <2>1
  <2> QED  BY <1>1, <1>6, <2>2, CreateMoves
<1>7. CASE Network
  <2>1. PICK id \in DOMAIN rpcs : OnNext(id) \/ OnCompleted(id) \/ OnError(id)
      BY <1>7 DEF Network
  <2>2. PICK c \in Calls : c = rpcs[id].call
      BY <1>t, OwnId
  <2> QED  BY <1>1, <2>1, <2>2, NetworkMoves
<1>8. CASE TakeCreated \/ TakeRejected
  <2>1. toJs # << >> /\ Head(toJs).call \in Calls
      BY <1>t, <1>8, HeadTypes DEF TakeCreated, TakeRejected, Take
  <2>2. PICK c \in Calls : c = Head(toJs).call
      BY <2>1
  <2> QED  BY <1>1, <1>8, <2>2, AnswerMoves
<1>9. CASE \/ \E p \in Pings : Ping(p)
           \/ Shutdown \/ TakeEvent \/ TakePong \/ TakeSent \/ RunPing \/ RunEmit
           \/ UNCHANGED vars
  <2>1. UNCHANGED <<delivered, nextId, rpcs, toNative>>
      BY <1>9 DEF Ping, Shutdown, TakeEvent, TakePong, TakeSent, Take, RunPing, RunEmit, RunTask,
                  vars, jsVars, nativeVars
  <2>2. ASSUME NEW d \in Calls
        PROVE  pc'[d] = pc[d] \/ (pc[d] = "waiting" /\ pc'[d] = "resumed")
    <3>1. CASE TakeEvent
      <4>1. PICK e \in CallEvent : UNCHANGED pc \/ OnCallEvent(e)
          BY <1>t, <3>1, HeadTypes DEF TakeEvent, Take
      <4> QED  BY <1>t, <4>1, EventCases DEF Wakes, Queues
    <3>2. CASE ~TakeEvent
        BY <1>9, <3>2 DEF Ping, Shutdown, TakePong, TakeSent, Take, RunPing, RunEmit, RunTask,
                          vars, jsVars
    <3> QED  BY <3>1, <3>2
  <2>3. \A d \in Calls : serverOf'[d] = serverOf[d] /\ sentOf'[d] = sentOf[d]
      BY <1>t, <2>1, StillServed
  <2>4. \A d \in Calls : phaseOf'[d] = phaseOf[d]
      BY <2>2, View DEF PhaseAt, InFlight
  <2> QED  BY <1>2, <2>1, <2>3, <2>4 DEF CallStays
<1> QED
    BY <1>3, <1>4, <1>5, <1>6, <1>7, <1>8, <1>9
       DEF Next, Application, System, JsTask, Executor, CallStep

LEMMA InitMoves == Init => Service!Init
<1> SUFFICES ASSUME Init PROVE Service!Init
    OBVIOUS
<1>1. /\ pc = [c \in Calls |-> "idle"] /\ callId = [c \in Calls |-> 0]
      /\ delivered = [c \in Calls |-> << >>] /\ DOMAIN rpcs = {} /\ DOMAIN toJs = {}
    BY DEF Init
<1>2. phaseOf = [c \in Calls |-> "idle"]
    BY <1>1 DEF phaseOf, InFlight
<1>3. sentOf = [c \in Calls |-> 0]
    BY <1>1 DEF sentOf, RpcIds
<1>4. serverOf = [c \in Calls |-> "unlaunched"]
  <2>1. serverOf = [d \in Calls |-> ServerAt(rpcs, Refused(d), d)]
      BY Zenon DEF serverOf, ServerAt, Shows, Ids, RpcIds
  <2>2. ASSUME NEW d \in Calls PROVE serverOf[d] = "unlaunched"
    <3>1. ~Refused(d)
        BY <1>1 DEF Refused
    <3>2. ServerAt(rpcs, FALSE, d) = "unlaunched"
        BY <1>1, ServerNone
    <3> QED  BY <3>1, <3>2, View
  <2> QED  BY <2>1, <2>2
<1> QED  BY <1>1, <1>2, <1>3, <1>4 DEF Service!Init, Service!Calls, Calls

(* GrpcBridgeRefinement.tla, ImplementsCallService: whatever the platform, *)
(* the calls and the interleaving of JavaScript, the native executor and   *)
(* gRPC, each call started by index.tsx is a caller that takes the         *)
(* messages of one server in order, and learns how the call ended after    *)
(* the last of them.                                                       *)
THEOREM BridgeImplements == Spec => ImplementsCallService
<1>1. Init => RefinementInv
  <2> SUFFICES ASSUME Init PROVE RefusedInv
      BY DeliveryInit DEF RefinementInv
  <2> QED  BY DEF Init, RefusedInv, Calls
<1>2. RefinementInv /\ [Next]_vars => RefinementInv'
    BY DeliveryStep, RefusedStep DEF RefinementInv
<1>3. RefinementInv /\ [Next]_vars => [Service!Next]_(Service!vars)
    BY StepMoves
<1> QED  BY <1>1, <1>2, <1>3, InitMoves, PTL DEF Spec, ImplementsCallService, Service!Spec
=============================================================================
