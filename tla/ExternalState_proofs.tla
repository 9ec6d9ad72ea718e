------------------------ MODULE ExternalState_proofs ------------------------
(***************************************************************************)
(* Proofs about ExternalState, for any requests, generations and           *)
(* responses, and either reducer.                                          *)
(***************************************************************************)
EXTENDS ExternalState, TLAPS

Shown == [status : {"pending", "current", "finished", "stale", "failed"},
          request : Requests, items : Seq(Nat), from : Requests]

(* Where a generation of a streaming request may be: a stream that was     *)
(* left is closed, and one that was canceled is not open, unless it is     *)
(* about to register its cancel.                                           *)
StreamInStep(generation) ==
    generation.request \in StreamRequests =>
        /\ generation.pc # "awaiting"
        /\ generation.pc \in {"delaying", "ended"} => generation.call # "open"
        /\ RegisterRunsLate /\ generation.canceled /\ generation.pc # "sending" =>
              generation.call # "open"

AllInStep == \A g \in Started : StreamInStep(generations[g])

(* What is shown is always the last generation's: it alone can dispatch,   *)
(* and it did so when it started.                                          *)
ShownIsOfLast ==
    /\ shownBy = Len(generations)
    /\ generations # << >> => shown.request = generations[Len(generations)].request
    /\ mounted /\ ~pending =>
          /\ generations # << >>
          /\ generations[Len(generations)].request = rendered

HookInv == TypeOK /\ AllInStep /\ OneLiveGeneration /\ ShownIsOfLast /\ ShownIsOfRequest

-----------------------------------------------------------------------------
(* The reducer of the hook                                                 *)

ItemsOwn(state) == state.items # NoItems => state.from = state.request

(* Each event keeps a state of its type, and items that are the request's. *)
LEMMA ReducerTypes ==
    ASSUME NEW state \in Shown, ItemsOwn(state), NEW request \in Requests
    PROVE  /\ DidSend(state, request) \in Shown
           /\ DidSend(state, request).request = request
           /\ ItemsOwn(DidSend(state, request))
           /\ \A reason \in {"ended", "threw"} :
                 /\ DidEnd(state, reason) \in Shown
                 /\ DidEnd(state, reason).request = state.request
                 /\ ItemsOwn(DidEnd(state, reason))
           /\ \A items \in Seq(Nat) :
                 /\ DidReceive(state, items, request) \in Shown
                 /\ DidReceive(state, items, request).request = state.request
                 /\ request = state.request => ItemsOwn(DidReceive(state, items, request))
<1>1. << >> \in Seq(Nat)
    OBVIOUS
<1>2. /\ DidSend(state, request) \in Shown
      /\ DidSend(state, request).request = request
      /\ ItemsOwn(DidSend(state, request))
    BY <1>1 DEF Shown, DidSend, ItemsOwn, NoItems
<1>3. ASSUME NEW reason \in {"ended", "threw"}
      PROVE  /\ DidEnd(state, reason) \in Shown
             /\ DidEnd(state, reason).request = state.request
             /\ ItemsOwn(DidEnd(state, reason))
    BY DEF Shown, DidEnd, ItemsOwn
<1>4. ASSUME NEW items \in Seq(Nat)
      PROVE  /\ DidReceive(state, items, request) \in Shown
             /\ DidReceive(state, items, request).request = state.request
             /\ request = state.request => ItemsOwn(DidReceive(state, items, request))
    BY DEF Shown, DidReceive, ItemsOwn
<1> QED  BY <1>2, <1>3, <1>4

-----------------------------------------------------------------------------
LEMMA InitHook == Init => HookInv
<1> SUFFICES ASSUME Init PROVE HookInv
    OBVIOUS
<1>1. shown \in Shown
    BY ReducerTypes DEF Init, Shown, NoItems
<1>2. generations = << >> /\ shownBy = 0 /\ Started = {}
    BY DEF Init, Started
<1>3. TypeOK
    BY <1>1, <1>2 DEF Init, TypeOK, Shown
<1>4. AllInStep /\ OneLiveGeneration /\ ShownIsOfLast /\ ShownIsOfRequest
    BY <1>2 DEF Init, AllInStep, OneLiveGeneration, ShownIsOfLast, ShownIsOfRequest
<1> QED  BY <1>3, <1>4 DEF HookInv

(* The generations once the last one is canceled. *)
LEMMA CancelTypes ==
    ASSUME HookInv
    PROVE  /\ CancelLast \in Seq(Generation) /\ Len(CancelLast) = Len(generations)
           /\ \A g \in 1 .. Len(CancelLast) :
                 /\ CancelLast[g].canceled
                 /\ CancelLast[g].request = generations[g].request
                 /\ StreamInStep(CancelLast[g])
<1>1. generations \in Seq(Generation) /\ Started = 1 .. Len(generations)
    BY DEF HookInv, TypeOK, Started
<1>2. CASE generations = << >>
    BY <1>1, <1>2 DEF CancelLast
<1>3. CASE generations # << >>
  <2> DEFINE last == Len(generations)
  <2>1. last \in 1 .. Len(generations) /\ generations[last] \in Generation
      BY <1>1, <1>3
  <2>2. /\ Canceled(generations[last]) \in Generation
        /\ Canceled(generations[last]).canceled
        /\ Canceled(generations[last]).request = generations[last].request
      BY <2>1 DEF Canceled, Generation
  <2>3. StreamInStep(Canceled(generations[last]))
      BY <1>1, <2>1 DEF HookInv, AllInStep, StreamInStep, Canceled, Generation
  <2>4. CancelLast = [generations EXCEPT ![last] = Canceled(generations[last])]
      BY <1>3 DEF CancelLast
  <2>5. \A g \in 1 .. Len(generations) \ {last} :
            generations[g].canceled /\ StreamInStep(generations[g])
      BY <1>1, <2>1 DEF HookInv, TypeOK, OneLiveGeneration, AllInStep, Generation
  <2> QED  BY <1>1, <2>1, <2>2, <2>3, <2>4, <2>5
<1> QED  BY <1>2, <1>3

LEMMA RenderStep ==
    ASSUME HookInv, NEW request \in Requests, Render(request)
    PROVE  HookInv'
    BY DEF HookInv, TypeOK, AllInStep, OneLiveGeneration, ShownIsOfLast, ShownIsOfRequest,
           Render, Started

LEMMA EffectStep ==
    ASSUME HookInv, Effect
    PROVE  HookInv'
<1> DEFINE new == [request |-> rendered, canceled |-> FALSE, call |-> "open",
                   pc |-> IF rendered \in StreamRequests THEN "streaming" ELSE "awaiting",
                   received |-> 0]
           last == Len(generations) + 1
<1>1. rendered \in Requests /\ shown \in Shown /\ ItemsOwn(shown)
    BY DEF HookInv, TypeOK, Shown, ShownIsOfRequest, ItemsOwn
<1>2. new \in Generation /\ StreamInStep(new)
    BY <1>1 DEF Generation, StreamInStep
<1>3. /\ generations' = Append(CancelLast, new)
      /\ shown' = DidSend(shown, rendered) /\ shownBy' = last
      /\ pending' = FALSE /\ mounted /\ UNCHANGED <<mounted, rendered>>
    BY DEF Effect
<1> HIDE DEF new
<1>4. /\ generations' \in Seq(Generation) /\ Len(generations') = last
      /\ generations'[last] = new /\ last \in Nat \ {0}
      /\ \A g \in 1 .. last - 1 : generations'[g] = CancelLast[g]
    BY <1>2, <1>3, CancelTypes DEF HookInv, TypeOK
<1>5. Started' = 1 .. last
    BY <1>4 DEF Started
<1>6. TypeOK'
  <2>1. shown' \in Shown
      BY <1>1, <1>3, ReducerTypes
  <2>2. shownBy' \in 0 .. Len(generations')
      BY <1>3, <1>4
  <2> QED  BY <1>1, <1>3, <1>4, <2>1, <2>2 DEF TypeOK, Shown, HookInv
<1>7. AllInStep' /\ OneLiveGeneration'
  <2>1. \A g \in 1 .. last - 1 : generations'[g].canceled /\ StreamInStep(generations'[g])
      BY <1>4, CancelTypes DEF HookInv, TypeOK
  <2> QED  BY <1>2, <1>3, <1>4, <1>5, <2>1 DEF AllInStep, OneLiveGeneration, StreamInStep
<1>8. new.request = rendered
    BY DEF new
<1>9. ShownIsOfLast' /\ ShownIsOfRequest'
  <2>1. shown'.request = rendered /\ ItemsOwn(shown')
      BY <1>1, <1>3, ReducerTypes
  <2>2. generations' # << >> /\ generations'[Len(generations')].request = rendered
      BY <1>4, <1>8
  <2>3. shownBy' = Len(generations') /\ rendered' = rendered
      BY <1>3, <1>4
  <2> QED  BY <2>1, <2>2, <2>3 DEF ShownIsOfLast, ShownIsOfRequest, ItemsOwn
<1> QED  BY <1>6, <1>7, <1>9 DEF HookInv

LEMMA UnmountStep ==
    ASSUME HookInv, Unmount
    PROVE  HookInv'
<1>1. /\ generations' = CancelLast /\ mounted' = FALSE
      /\ UNCHANGED <<rendered, pending, shown, shownBy>>
    BY DEF Unmount
<1>2. /\ generations' \in Seq(Generation) /\ Len(generations') = Len(generations)
      /\ \A g \in 1 .. Len(generations') :
            /\ generations'[g].canceled /\ StreamInStep(generations'[g])
            /\ generations'[g].request = generations[g].request
    BY <1>1, CancelTypes
<1>3. Started' = 1 .. Len(generations') /\ generations \in Seq(Generation)
    BY <1>2 DEF Started, HookInv, TypeOK
<1>4. TypeOK' /\ ShownIsOfRequest'
    BY <1>1, <1>2 DEF HookInv, TypeOK, ShownIsOfRequest
<1>5. AllInStep' /\ OneLiveGeneration'
    BY <1>2, <1>3 DEF AllInStep, OneLiveGeneration, StreamInStep
<1>6. ShownIsOfLast'
    BY <1>1, <1>2, <1>3 DEF HookInv, ShownIsOfLast
<1> QED  BY <1>4, <1>5, <1>6 DEF HookInv

-----------------------------------------------------------------------------
(* A step of a generation changes that generation alone, and what is shown *)
(* only if it is the last, in a way that keeps the request shown.          *)
Moves(g, new) ==
    /\ generations' = [generations EXCEPT ![g] = new]
    /\ new \in Generation /\ StreamInStep(new)
    /\ new.request = generations[g].request
    /\ new.canceled = generations[g].canceled
    /\ UNCHANGED <<mounted, rendered, pending>>

Shows(g, next) ==
    /\ next \in Shown /\ ItemsOwn(next)
    /\ next.request = generations[g].request
    /\ Show(g, next)

LEMMA MoveStep ==
    ASSUME HookInv, NEW g \in Started, NEW new, Moves(g, new),
           UNCHANGED <<shown, shownBy>> \/ \E next : Shows(g, next)
    PROVE  HookInv'
<1>1. generations \in Seq(Generation) /\ Started = 1 .. Len(generations)
    BY DEF HookInv, TypeOK, Started
<1>2. /\ generations' \in Seq(Generation) /\ Len(generations') = Len(generations)
      /\ Started' = Started /\ generations'[g] = new
      /\ \A h \in Started \ {g} : generations'[h] = generations[h]
    BY <1>1 DEF Moves, Started
<1>3. UNCHANGED <<shown, shownBy>> \/
         /\ ~generations[g].canceled /\ shownBy' = g
         /\ shown' \in Shown /\ ItemsOwn(shown') /\ shown'.request = generations[g].request
    BY DEF Shows, Show
<1>4. ~generations[g].canceled => g = Len(generations)
    BY DEF HookInv, OneLiveGeneration
<1>5. TypeOK'
    BY <1>1, <1>2, <1>3 DEF HookInv, TypeOK, Shown, Moves
<1>6. AllInStep'
    BY <1>2 DEF HookInv, AllInStep, StreamInStep, Moves
<1>7. OneLiveGeneration'
    BY <1>2 DEF HookInv, OneLiveGeneration, Moves
<1>8. ShownIsOfLast' /\ ShownIsOfRequest'
  <2>1. \A h \in Started : generations'[h].request = generations[h].request
      BY <1>2 DEF Moves
  <2> QED  BY <1>1, <1>2, <1>3, <1>4, <2>1
              DEF HookInv, ShownIsOfLast, ShownIsOfRequest, ItemsOwn, Moves
<1> QED  BY <1>5, <1>6, <1>7, <1>8 DEF HookInv

(* What a generation that is not canceled may put on screen. *)
LEMMA ShowTypes ==
    ASSUME HookInv, NEW g \in Started, NEW next,
           generations[g].canceled \/
              (next \in Shown /\ ItemsOwn(next) /\ next.request = generations[g].request),
           Show(g, next)
    PROVE  UNCHANGED <<shown, shownBy>> \/ \E state : Shows(g, state)
    BY DEF Shows, Show

(* The generation of a step, and what it may show. *)
LEMMA Reduced ==
    ASSUME HookInv, NEW g \in Started
    PROVE  LET request == generations[g].request
           IN  /\ generations[g] \in Generation /\ StreamInStep(generations[g])
               /\ generations[g].canceled \/
                  /\ DidSend(shown, request) \in Shown /\ ItemsOwn(DidSend(shown, request))
                  /\ DidSend(shown, request).request = request
                  /\ DidEnd(shown, "threw") \in Shown /\ ItemsOwn(DidEnd(shown, "threw"))
                  /\ DidEnd(shown, "threw").request = request
                  /\ \A items \in Seq(Nat) :
                        LET received == DidReceive(shown, items, request)
                        IN  /\ received \in Shown /\ ItemsOwn(received)
                            /\ received.request = request
                            /\ DidEnd(received, "ended") \in Shown
                            /\ ItemsOwn(DidEnd(received, "ended"))
                            /\ DidEnd(received, "ended").request = request
<1> DEFINE request == generations[g].request
<1>1. generations[g] \in Generation /\ StreamInStep(generations[g])
    BY DEF HookInv, TypeOK, Started, AllInStep
<1>2. shown \in Shown /\ ItemsOwn(shown) /\ request \in Requests
    BY <1>1 DEF HookInv, TypeOK, Shown, ShownIsOfRequest, ItemsOwn, Generation
<1>3. generations[g].canceled \/ shown.request = request
    BY DEF HookInv, OneLiveGeneration, ShownIsOfLast, Started
<1> HIDE DEF request
<1>4. SUFFICES ASSUME ~generations[g].canceled
               PROVE  /\ DidSend(shown, request) \in Shown /\ ItemsOwn(DidSend(shown, request))
                      /\ DidSend(shown, request).request = request
                      /\ DidEnd(shown, "threw") \in Shown /\ ItemsOwn(DidEnd(shown, "threw"))
                      /\ DidEnd(shown, "threw").request = request
                      /\ \A items \in Seq(Nat) :
                            LET received == DidReceive(shown, items, request)
                            IN  /\ received \in Shown /\ ItemsOwn(received)
                                /\ received.request = request
                                /\ DidEnd(received, "ended") \in Shown
                                /\ ItemsOwn(DidEnd(received, "ended"))
                                /\ DidEnd(received, "ended").request = request
    BY <1>1 DEF request
<1>5. shown.request = request
    BY <1>3, <1>4
<1>6. ASSUME NEW items \in Seq(Nat)
      PROVE  LET received == DidReceive(shown, items, request)
             IN  /\ received \in Shown /\ ItemsOwn(received)
                 /\ received.request = request
                 /\ DidEnd(received, "ended") \in Shown
                 /\ ItemsOwn(DidEnd(received, "ended"))
                 /\ DidEnd(received, "ended").request = request
  <2> DEFINE received == DidReceive(shown, items, request)
  <2>1. received \in Shown /\ ItemsOwn(received) /\ received.request = request
      BY <1>2, <1>5, ReducerTypes
  <2> HIDE DEF received
  <2>2. /\ DidEnd(received, "ended") \in Shown /\ ItemsOwn(DidEnd(received, "ended"))
        /\ DidEnd(received, "ended").request = request
      BY <1>2, <2>1, ReducerTypes
  <2> QED  BY <2>1, <2>2 DEF received
<1> QED  BY <1>2, <1>5, <1>6, ReducerTypes

LEMMA StreamStep ==
    ASSUME HookInv, NEW g \in Started,
           Response(g) \/ StreamEnds(g) \/ StreamThrows(g)
    PROVE  HookInv'
<1> DEFINE was == generations[g]
<1>1. was \in Generation /\ StreamInStep(was) /\ was.pc = "streaming"
    BY Reduced DEF Response, StreamEnds, StreamThrows
<1>2. CASE Response(g)
  <2> DEFINE items == Reduce(NoItems, was.received + 1)
             new == [was EXCEPT !.received = @ + 1]
  <2>1. items \in Seq(Nat)
      BY <1>1 DEF Reduce, NoItems, Generation
  <2>2. Moves(g, new)
      BY <1>1, <1>2 DEF Moves, Response, Generation, StreamInStep
  <2> HIDE DEF items
  <2>3. Show(g, DidReceive(shown, items, was.request))
      BY <1>2 DEF Response, items
  <2>4. UNCHANGED <<shown, shownBy>> \/ \E state : Shows(g, state)
      BY <2>1, <2>3, Reduced, ShowTypes
  <2> QED  BY <2>2, <2>4, MoveStep
<1>3. CASE StreamEnds(g) \/ StreamThrows(g)
  <2> DEFINE new == [was EXCEPT !.pc = "delaying", !.call = "closed"]
  <2>1. Moves(g, new)
      BY <1>1, <1>3 DEF Moves, StreamEnds, StreamThrows, Generation, StreamInStep
  <2>2. UNCHANGED <<shown, shownBy>> \/ Show(g, DidEnd(shown, "threw"))
      BY <1>3 DEF StreamEnds, StreamThrows
  <2>3. UNCHANGED <<shown, shownBy>> \/ \E state : Shows(g, state)
      BY <2>2, Reduced, ShowTypes
  <2> QED  BY <2>1, <2>3, MoveStep
<1> QED  BY <1>2, <1>3

LEMMA UnaryStep ==
    ASSUME HookInv, NEW g \in Started, UnaryAnswers(g) \/ UnaryFails(g)
    PROVE  HookInv'
<1> DEFINE was == generations[g]
           new == [was EXCEPT !.pc = "ended", !.call = "closed"]
<1>1. was \in Generation /\ StreamInStep(was) /\ was.pc = "awaiting"
    BY Reduced DEF UnaryAnswers, UnaryFails
<1>2. Moves(g, new)
    BY <1>1 DEF Moves, UnaryAnswers, UnaryFails, Generation, StreamInStep
<1>3. <<1>> \in Seq(Nat)
    OBVIOUS
<1>4. \/ Show(g, DidEnd(DidReceive(shown, <<1>>, was.request), "ended"))
      \/ Show(g, DidEnd(shown, "threw"))
    BY DEF UnaryAnswers, UnaryFails
<1>5. UNCHANGED <<shown, shownBy>> \/ \E state : Shows(g, state)
    BY <1>3, <1>4, Reduced, ShowTypes
<1> QED  BY <1>2, <1>5, MoveStep

LEMMA LoopStep ==
    ASSUME HookInv, NEW g \in Started, Loop(g)
    PROVE  HookInv'
<1> DEFINE was == generations[g]
<1>1. was \in Generation /\ StreamInStep(was)
    BY Reduced
<1>2. CASE Retry(g) /\ was.canceled
  <2>1. Moves(g, [was EXCEPT !.pc = "ended"])
      BY <1>1, <1>2 DEF Moves, Retry, Generation, StreamInStep
  <2>2. UNCHANGED <<shown, shownBy>>
      BY <1>2 DEF Retry
  <2> QED  BY <2>1, <2>2, MoveStep
<1>3. CASE Retry(g) /\ ~was.canceled
  <2>1. Moves(g, [was EXCEPT !.pc = "sending", !.call = "open", !.received = 0])
      BY <1>1, <1>3 DEF Moves, Retry, Generation, StreamInStep
  <2>2. Show(g, DidSend(shown, was.request))
      BY <1>3 DEF Retry
  <2>3. UNCHANGED <<shown, shownBy>> \/ \E state : Shows(g, state)
      BY <2>2, Reduced, ShowTypes
  <2> QED  BY <2>1, <2>3, MoveStep
<1>4. CASE RegisterCancel(g)
  <2>1. Moves(g, [was EXCEPT !.pc = "streaming",
                             !.call = IF was.canceled /\ RegisterRunsLate THEN "canceled" ELSE @])
      BY <1>1, <1>4 DEF Moves, RegisterCancel, Generation, StreamInStep
  <2>2. UNCHANGED <<shown, shownBy>>
      BY <1>4 DEF RegisterCancel
  <2> QED  BY <2>1, <2>2, MoveStep
<1> QED  BY <1>2, <1>3, <1>4 DEF Loop

LEMMA NextHook == HookInv /\ [Next]_vars => HookInv'
<1> SUFFICES ASSUME HookInv, [Next]_vars PROVE HookInv'
    OBVIOUS
<1>1. CASE UNCHANGED vars
    BY <1>1 DEF vars, HookInv, TypeOK, AllInStep, OneLiveGeneration, ShownIsOfLast,
                ShownIsOfRequest, Started
<1> QED  BY <1>1, RenderStep, EffectStep, UnmountStep, StreamStep, UnaryStep, LoopStep
            DEF Next, Network

(* In a reachable state the last generation alone is live, and what is     *)
(* shown is its; the properties of the hook follow.                        *)
THEOREM HookInvariant == Spec => []HookInv
    BY InitHook, NextHook, PTL DEF Spec

(* Every variable of the hook keeps to its type. *)
THEOREM HookTypes == Spec => []TypeOK
<1>1. HookInv => TypeOK
    BY DEF HookInv
<1> QED  BY <1>1, HookInvariant, PTL

(* A late answer of an earlier request is never shown as another's. *)
THEOREM HookShowsRequest == Spec => []ShownIsOfRequest
<1>1. HookInv => ShownIsOfRequest
    BY DEF HookInv
<1> QED  BY <1>1, HookInvariant, PTL

(* Once the effect of a render has run, the screen is its generation's. *)
THEOREM HookFollowsRender == Spec => []ShownFollowsRender
<1>1. HookInv => ShownFollowsRender
    BY DEF HookInv, ShownIsOfLast, ShownFollowsRender
<1> QED  BY <1>1, HookInvariant, PTL

(* Two generations of a component are never live together. *)
THEOREM HookOneLive == Spec => []OneLiveGeneration
<1>1. HookInv => OneLiveGeneration
    BY DEF HookInv
<1> QED  BY <1>1, HookInvariant, PTL

(* No stream of a canceled generation stays open, provided that a callback *)
(* registered after the cancel is called at once.                          *)
THEOREM HookNoOrphan ==
    ASSUME RegisterRunsLate
    PROVE  Spec => []NoOrphanStream
<1>1. HookInv => NoOrphanStream
    BY DEF HookInv, AllInStep, StreamInStep, NoOrphanStream, IsStream
<1> QED  BY <1>1, HookInvariant, PTL
=============================================================================
