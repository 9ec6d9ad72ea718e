------------------------ MODULE GrpcBridgeRefinement ------------------------
(***************************************************************************)
(* The bridge implements CallService: with its threads, queues and id map  *)
(* hidden, each call is a caller that takes a server's messages in order.  *)
(***************************************************************************)
EXTENDS GrpcBridge

RpcIds(c) == {id \in DOMAIN rpcs : rpcs[id].call = c}

(* createCall turned c down: the rejection is under way or has arrived. *)
Refused(c) ==
    \/ \E i \in DOMAIN toJs : toJs[i] = RejectedMessage(c)
    \/ pc[c] = "threw" /\ callId[c] = 0

phaseOf == [c \in Calls |-> IF pc[c] \in InFlight THEN "pending" ELSE pc[c]]

serverOf ==
    [c \in Calls |->
        IF Refused(c) THEN "refused"
        ELSE IF \A id \in RpcIds(c) : rpcs[id].status = "none" THEN "unlaunched"
        ELSE LET status == rpcs[CHOOSE id \in RpcIds(c) : TRUE].status IN
             CASE status = "running" -> "open"
               [] status = "ended"   -> "ok"
               [] status = "failed"  -> "error"]

sentOf == [c \in Calls |->
              IF RpcIds(c) = {} THEN 0 ELSE rpcs[CHOOSE id \in RpcIds(c) : TRUE].sent]

Service == INSTANCE CallService WITH
    phase <- phaseOf, server <- serverOf, sent <- sentOf, got <- delivered

(* Every behaviour of the bridge, on either platform and whatever the      *)
(* interleaving, is one of the abstract call service.                      *)
ImplementsCallService == Service!Spec
=============================================================================
