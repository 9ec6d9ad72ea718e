--------------------------- MODULE NestedBuffers ----------------------------
(***************************************************************************)
(* What a nesting writer promises: a stack of byte sequences.  begin opens *)
(* one, end closes it and appends it, preceded by its length, to the one   *)
(* below; finish gives the bytes of a fully closed stack and starts over.  *)
(* begin, end and the writes are those of the reference writer of the      *)
(* codec's tests (test/mock.ts), which has no finish and no clear: these   *)
(* are what the writer of writer.ts promises.                              *)
(***************************************************************************)
EXTENDS Naturals, Sequences

CONSTANTS
    VarintBase,   \* payload values of one varint byte: 128 in the code
    Blocks        \* byte sequences a caller may write in one piece

VARIABLES
    buffers,   \* the open levels, innermost first
    output     \* what the last operation returned: only finish returns bytes

vars == <<buffers, output>>

(* int32 of write-value.ts, for the lengths it is given here: low-order    *)
(* digits first, all but the last with the more-to-come bit.               *)
VarintOf[n \in Nat] ==
    IF n >= VarintBase
    THEN <<VarintBase + (n % VarintBase)>> \o VarintOf[n \div VarintBase]
    ELSE <<n>>

Init ==
    /\ buffers = << << >> >>
    /\ output = << >>

Write(block) ==
    /\ buffers' = [buffers EXCEPT ![1] = @ \o block]
    /\ output' = << >>

Begin ==
    /\ buffers' = << << >> >> \o buffers
    /\ output' = << >>

End ==
    /\ Len(buffers) > 1
    /\ buffers' = [Tail(buffers) EXCEPT ![1] =
                      @ \o VarintOf[Len(Head(buffers))] \o Head(buffers)]
    /\ output' = << >>

Finish ==
    /\ Len(buffers) = 1
    /\ output' = Head(buffers)
    /\ buffers' = << << >> >>

Clear ==
    /\ buffers' = << << >> >>
    /\ output' = << >>

(* end without begin, finish without end *)
Throw ==
    /\ output' = << >>
    /\ UNCHANGED buffers

Next ==
    \/ \E block \in Blocks : Write(block)
    \/ Begin
    \/ End
    \/ Finish
    \/ Clear
    \/ Throw

Spec == Init /\ [][Next]_vars
=============================================================================
