--------------------------- MODULE ExternalState ----------------------------
(***************************************************************************)
(* useExternalState of tsgrpc-react.ts: a React hook that keeps one call   *)
(* running for the method and arguments it was last rendered with and      *)
(* shows the state that call's events were reduced to.                     *)
(*                                                                         *)
(* A request is a method with arguments: the dependencies of the effect.   *)
(* Every run of the effect is a generation; changing the request cancels   *)
(* the generation before and starts a new one.  A streaming generation     *)
(* loops: call, read until the stream ends or throws, wait a second, call  *)
(* again.  React may run a pending effect inside a dispatch, which puts a  *)
(* cancel between two statements of a running loop (pc "sending").         *)
(*                                                                         *)
(* External: React's scheduling, the driver's calls and @dmgtech/cancelable*)
(* are modelled from how this file uses them.  A canceled stream may still *)
(* deliver what it had, end, throw or stay silent.                         *)
(***************************************************************************)
EXTENDS Naturals, Sequences

CONSTANTS
    UnaryRequests,    \* requests whose method has no reducer
    StreamRequests,   \* requests whose method has one
    KeepAll,          \* TRUE: that reducer is keepAll, FALSE: keepLast
    RegisterRunsLate, \* cancelable: register after cancel runs the callback
    MaxGenerations,   \* bound: runs of the effect
    MaxResponses      \* bound: responses on one stream

ASSUME FlagsAssumption == KeepAll \in BOOLEAN /\ RegisterRunsLate \in BOOLEAN
ASSUME RequestsAssumption == UnaryRequests \cap StreamRequests = {}
ASSUME BoundsAssumption == MaxGenerations \in Nat \ {0} /\ MaxResponses \in Nat

Requests == UnaryRequests \cup StreamRequests

VARIABLES
    mounted,     \* the component is on screen
    rendered,    \* the request of the last render
    pending,     \* that render's effect has not run yet
    generations, \* one record per run of the effect
    shown,       \* extState, with the request its items came from
    shownBy      \* the generation whose dispatch changed it last

vars == <<mounted, rendered, pending, generations, shown, shownBy>>

Started == DOMAIN generations
IsStream(g) == generations[g].request \in StreamRequests

NoItems == << >>

Init ==
    /\ mounted = TRUE
    /\ rendered \in Requests
    /\ pending = TRUE
    /\ generations = << >>
    /\ shown = [status |-> "pending", request |-> rendered,
                items |-> NoItems, from |-> rendered]
    /\ shownBy = 0

-----------------------------------------------------------------------------
(* externalStateCallReducer *)

(* Mutant: the request of the state before is kept. *)
MutSendKeepsRequest(state, request) ==
    [state EXCEPT !.status = "pending", !.items = NoItems, !.from = state.request]

DidSend(state, request) ==
    [status |-> "pending", request |-> request, items |-> NoItems, from |-> request]

DidReceive(state, items, request) ==
    IF state.status \in {"stale", "pending", "current"}
    THEN [state EXCEPT !.status = "current", !.items = items, !.from = request]
    ELSE state

(* Mutant: the reason of the end becomes the status. *)
MutEndStatusIsReason(state, reason) ==
    IF state.status = "failed" THEN state ELSE [state EXCEPT !.status = reason]

DidEnd(state, reason) ==
    CASE state.status = "failed" -> state
      [] state.status = "pending" -> [state EXCEPT !.status = "failed"]
      [] OTHER -> [state EXCEPT !.status =
                      IF reason = "ended" THEN "finished" ELSE "stale"]

(* Mutant: a generation goes on dispatching after it was canceled. *)
MutShowAlways(g, next) == shown' = next /\ shownBy' = g

(* dispatch: does nothing once the generation is canceled. *)
Show(g, next) ==
    IF generations[g].canceled
    THEN UNCHANGED <<shown, shownBy>>
    ELSE shown' = next /\ shownBy' = g

-----------------------------------------------------------------------------
(* The component *)

(* JavaScript runs to completion: while a loop is between its dispatch and *)
(* the statement after it, only an effect flushed by that dispatch runs.   *)
Quiet == \A g \in Started : generations[g].pc # "sending"

(* A render with another request; React runs the effect of the render      *)
(* before it first.                                                        *)
Render(request) ==
    /\ Quiet /\ mounted /\ ~pending
    /\ request # rendered
    /\ Len(generations) < MaxGenerations
    /\ rendered' = request
    /\ pending' = TRUE
    /\ UNCHANGED <<mounted, generations, shown, shownBy>>

(* Mutant: cancel silences the generation and leaves its stream open. *)
MutSilence(generation) == [generation EXCEPT !.canceled = TRUE]

(* The cancel of a generation: its dispatch is silenced, then a stream     *)
(* whose cancel is registered is canceled.                                 *)
Canceled(generation) ==
    [generation EXCEPT
        !.canceled = TRUE,
        !.call = IF generation.pc = "streaming" /\ @ = "open"
                 THEN "canceled" ELSE @]

(* Mutant: the effect has no cleanup. *)
MutNoCleanup == generations

CancelLast ==
    IF generations = << >> THEN << >>
    ELSE [generations EXCEPT ![Len(generations)] = Canceled(@)]

(* The effect: clean up after the last generation and start a new one. *)
Effect ==
    /\ pending /\ mounted
    /\ pending' = FALSE
    /\ generations' = Append(CancelLast,
           [request |-> rendered, canceled |-> FALSE, call |-> "open",
            pc |-> IF rendered \in StreamRequests THEN "streaming" ELSE "awaiting",
            received |-> 0])
    /\ shown' = DidSend(shown, rendered)
    /\ shownBy' = Len(generations) + 1
    /\ UNCHANGED <<mounted, rendered>>

Unmount ==
    /\ Quiet /\ mounted /\ ~pending
    /\ mounted' = FALSE
    /\ generations' = CancelLast
    /\ UNCHANGED <<rendered, pending, shown, shownBy>>

-----------------------------------------------------------------------------
(* runServerStreamingCall *)

(* Mutant: no call is made again. *)
MutRetryNever(g) ==
    /\ Quiet /\ generations[g].pc = "delaying" /\ generations[g].canceled
    /\ generations' = [generations EXCEPT ![g].pc = "ended"]
    /\ UNCHANGED <<mounted, rendered, pending, shown, shownBy>>

(* Mutant: the loop does not test for the cancel. *)
MutRetryAlways(g) ==
    /\ Quiet /\ generations[g].pc = "delaying"
    /\ generations' = [generations EXCEPT ![g].pc = "sending",
                          ![g].call = "open", ![g].received = 0]
    /\ Show(g, DidSend(shown, generations[g].request))
    /\ UNCHANGED <<mounted, rendered, pending>>

(* After the delay: the loop's test, then the next call. *)
Retry(g) ==
    /\ Quiet /\ generations[g].pc = "delaying"
    /\ \/ /\ generations[g].canceled
          /\ generations' = [generations EXCEPT ![g].pc = "ended"]
          /\ UNCHANGED <<shown, shownBy>>
       \/ /\ ~generations[g].canceled
          /\ generations' = [generations EXCEPT ![g].pc = "sending",
                                ![g].call = "open", ![g].received = 0]
          /\ Show(g, DidSend(shown, generations[g].request))
    /\ UNCHANGED <<mounted, rendered, pending>>

(* After the dispatch: the call's cancel is registered. *)
RegisterCancel(g) ==
    /\ generations[g].pc = "sending"
    /\ generations' = [generations EXCEPT
           ![g].pc = "streaming",
           ![g].call = IF generations[g].canceled /\ RegisterRunsLate
                       THEN "canceled" ELSE @]
    /\ UNCHANGED <<mounted, rendered, pending, shown, shownBy>>

(* The method's reducer: keepLast or keepAll. *)
Reduce(state, response) ==
    IF KeepAll THEN Append(state, response) ELSE <<response>>

(* A response: the loop reduces it into its state variable's value, which  *)
(* it never assigns.                                                       *)
Response(g) ==
    /\ Quiet /\ generations[g].pc = "streaming"
    /\ generations[g].received < MaxResponses
    /\ generations' = [generations EXCEPT ![g].received = @ + 1]
    /\ Show(g, DidReceive(shown, Reduce(NoItems, generations[g].received + 1),
                          generations[g].request))
    /\ UNCHANGED <<mounted, rendered, pending>>

(* The stream ends: every error is retryable, the lack of one included. *)
StreamEnds(g) ==
    /\ Quiet /\ generations[g].pc = "streaming"
    /\ generations' = [generations EXCEPT ![g].pc = "delaying", ![g].call = "closed"]
    /\ UNCHANGED <<mounted, rendered, pending, shown, shownBy>>

(* The stream or the decoding of a response throws. *)
StreamThrows(g) ==
    /\ Quiet /\ generations[g].pc = "streaming"
    /\ generations' = [generations EXCEPT ![g].pc = "delaying", ![g].call = "closed"]
    /\ Show(g, DidEnd(shown, "threw"))
    /\ UNCHANGED <<mounted, rendered, pending>>

-----------------------------------------------------------------------------
(* runUnaryCall *)

UnaryAnswers(g) ==
    /\ Quiet /\ generations[g].pc = "awaiting"
    /\ generations' = [generations EXCEPT ![g].pc = "ended", ![g].call = "closed"]
    /\ Show(g, DidEnd(DidReceive(shown, <<1>>, generations[g].request), "ended"))
    /\ UNCHANGED <<mounted, rendered, pending>>

UnaryFails(g) ==
    /\ Quiet /\ generations[g].pc = "awaiting"
    /\ generations' = [generations EXCEPT ![g].pc = "ended", ![g].call = "closed"]
    /\ Show(g, DidEnd(shown, "threw"))
    /\ UNCHANGED <<mounted, rendered, pending>>

-----------------------------------------------------------------------------
Network(g) ==
    Response(g) \/ StreamEnds(g) \/ StreamThrows(g) \/ UnaryAnswers(g) \/ UnaryFails(g)

Loop(g) == Retry(g) \/ RegisterCancel(g)

Next ==
    \/ \E request \in Requests : Render(request)
    \/ Effect
    \/ Unmount
    \/ \E g \in Started : Network(g) \/ Loop(g)

Spec == Init /\ [][Next]_vars

(* React runs pending effects and timers fire; the network owes nothing.   *)
(* A timer is strongly fair: another loop's turn, during which it cannot   *)
(* fire (Quiet), may come again and again but does not starve it.          *)
Fairness ==
    /\ WF_vars(Effect)
    /\ \A g \in 1 .. MaxGenerations :
          /\ SF_vars(g \in Started /\ Retry(g))
          /\ WF_vars(g \in Started /\ RegisterCancel(g))

FairSpec == Spec /\ Fairness

-----------------------------------------------------------------------------
(* Properties *)

Generation == [request : Requests, canceled : BOOLEAN,
               call : {"open", "canceled", "closed"},
               pc : {"awaiting", "sending", "streaming", "delaying", "ended"},
               received : Nat]

(* Every variable holds values of its type. *)
TypeOK ==
    /\ mounted \in BOOLEAN
    /\ rendered \in Requests
    /\ pending \in BOOLEAN
    /\ generations \in Seq(Generation)
    /\ shown \in [status : {"pending", "current", "finished", "stale", "failed"},
                  request : Requests, items : Seq(Nat), from : Requests]
    /\ shownBy \in 0 .. Len(generations)

(* What is shown as the result of a request came from a call for that      *)
(* request, never from an earlier one whose answer was late.               *)
ShownIsOfRequest ==
    shown.items # NoItems => shown.from = shown.request

(* Once a render's effect has run, what is shown is the state of that      *)
(* render's request, put there by its own generation: an older loop that   *)
(* wakes from its delay or its stream does not take the screen back.       *)
ShownFollowsRender ==
    mounted /\ ~pending =>
        shown.request = rendered /\ shownBy = Len(generations)

(* A canceled generation leaves no stream open, also when the cancel comes *)
(* from inside the dispatch that precedes the registration of its cancel.  *)
NoOrphanStream ==
    \A g \in Started :
        IsStream(g) /\ generations[g].canceled /\ generations[g].pc # "sending" =>
            generations[g].call # "open"

(* Only the generation of the last effect may have a stream open: two      *)
(* subscriptions for one component never run side by side.                 *)
OneLiveGeneration ==
    \A g \in Started : ~generations[g].canceled => mounted /\ g = Len(generations)

Delaying(g, canceled) ==
    /\ g \in Started
    /\ generations[g].pc = "delaying" /\ generations[g].canceled = canceled

(* A live subscription whose stream ended or threw is called again, unless *)
(* it is canceled meanwhile.                                               *)
StreamRetried ==
    \A g \in 1 .. MaxGenerations :
        Delaying(g, FALSE) ~> (g \in Started /\ (\/ generations[g].pc = "streaming"
                                                  \/ generations[g].canceled))

(* A canceled loop stops after its delay: it does not retry for ever. *)
CanceledLoopStops ==
    \A g \in 1 .. MaxGenerations :
        Delaying(g, TRUE) ~> (g \in Started /\ generations[g].pc = "ended")

(* reducers.test.ts: keepAll "keeps all items".  With it, what is shown is *)
(* every response of the running call.                                     *)
KeepAllKeepsAll ==
    mounted /\ ~pending /\ shown.status = "current" =>
        Len(shown.items) = generations[shownBy].received
=============================================================================
