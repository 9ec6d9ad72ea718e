---------------------------- MODULE CallService ----------------------------
(***************************************************************************)
(* What react-native-grpc promises to an application, with no bridge, no   *)
(* executor and no event queues: a call is started, the server either      *)
(* refuses it or produces messages 1, 2, ... and closes it, and the caller *)
(* takes those messages one at a time, in order, and learns how the call   *)
(* ended only after it took every one of them.  A unary caller takes the   *)
(* first message only.                                                     *)
(***************************************************************************)
EXTENDS Naturals, Sequences

CONSTANTS
    UnaryCalls,   \* invocations of unaryCall
    StreamCalls,  \* invocations of serverStreamingCall
    MaxMessages   \* bound: messages the server of one stream produces

Calls == UnaryCalls \cup StreamCalls

VARIABLES
    phase,   \* the caller: idle, pending, yielded, canceled, returned, threw
    server,  \* the server: unlaunched, open, refused, ok, error
    sent,    \* messages the server produced
    got      \* the messages the caller took, in the order it took them

vars == <<phase, server, sent, got>>

Init ==
    /\ phase = [c \in Calls |-> "idle"]
    /\ server = [c \in Calls |-> "unlaunched"]
    /\ sent = [c \in Calls |-> 0]
    /\ got = [c \in Calls |-> << >>]

Start(c) ==
    /\ phase[c] = "idle"
    /\ phase' = [phase EXCEPT ![c] = "pending"]
    /\ UNCHANGED <<server, sent, got>>

(* The call is handed to the network, or turned down before it gets there. *)
Launch(c) ==
    /\ phase[c] = "pending" /\ server[c] = "unlaunched"
    /\ \E s \in {"open", "refused"} : server' = [server EXCEPT ![c] = s]
    /\ UNCHANGED <<phase, sent, got>>

Produce(c) ==
    /\ server[c] = "open" /\ sent[c] < (IF c \in UnaryCalls THEN 1 ELSE MaxMessages)
    /\ sent' = [sent EXCEPT ![c] = @ + 1]
    /\ UNCHANGED <<phase, server, got>>

Close(c) ==
    /\ server[c] = "open"
    /\ \E s \in {"ok", "error"} : server' = [server EXCEPT ![c] = s]
    /\ UNCHANGED <<phase, sent, got>>

(* The caller takes the next message: the result of a unary call, a yield  *)
(* of a streaming one.                                                     *)
Take(c) ==
    /\ phase[c] = "pending" /\ Len(got[c]) < sent[c]
    /\ got' = [got EXCEPT ![c] = Append(@, Len(@) + 1)]
    /\ phase' = [phase EXCEPT ![c] =
                    IF c \in UnaryCalls THEN "returned" ELSE "yielded"]
    /\ UNCHANGED <<server, sent>>

(* The caller learns the end of the call: never before the last message.   *)
(* A unary call that ends without a message is an error.                   *)
Finish(c) ==
    /\ phase[c] = "pending" /\ Len(got[c]) = sent[c]
    /\ server[c] \in {"ok", "error", "refused"}
    /\ phase' = [phase EXCEPT ![c] =
                    IF server[c] = "ok" /\ c \in StreamCalls THEN "returned"
                                                             ELSE "threw"]
    /\ UNCHANGED <<server, sent, got>>

(* The consumer of a stream asks for the next message, or gives up. *)
Pull(c) ==
    /\ phase[c] = "yielded"
    /\ \E p \in {"pending", "canceled"} : phase' = [phase EXCEPT ![c] = p]
    /\ UNCHANGED <<server, sent, got>>

Next == \E c \in Calls :
    Start(c) \/ Launch(c) \/ Produce(c) \/ Close(c) \/ Take(c) \/ Finish(c) \/ Pull(c)

Spec == Init /\ [][Next]_vars
============================================================================
