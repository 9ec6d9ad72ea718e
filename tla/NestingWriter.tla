--------------------------- MODULE NestingWriter ----------------------------
(***************************************************************************)
(* allocateNestingWriter of writer.ts.  All bytes go to one buffer in the  *)
(* order they are produced, a level's length after its content; index      *)
(* records where the pieces of the message are and in which order finish   *)
(* dumps them.  begin leaves a hole in index for the length that end will  *)
(* know; levelStack remembers the hole and the bytes counted so far.       *)
(*                                                                         *)
(* Positions count from 0 as in the code; index and levelStack hold pairs. *)
(* A 0 in the buffer stands for a byte nothing was written to since the    *)
(* last reset (Blocks hold positive bytes).                                *)
(***************************************************************************)
EXTENDS Integers, Sequences

CONSTANTS
    Capacity,     \* size of the permanent buffer
    VarintBase,   \* payload values of one varint byte: 128 in the code
    Blocks,       \* byte sequences a caller may write in one piece
    Bytes,        \* bytes a caller may write on their own
    MaxCursor,    \* bound: bytes in the buffer before the last operation
    MaxDepth      \* bound: open levels

ASSUME CapacityAssumption == Capacity \in Nat
ASSUME VarintBaseAssumption == VarintBase \in Nat \ {0, 1}
ASSUME BytesAssumption == Bytes \subseteq Nat \ {0} /\ Blocks \subseteq Seq(Nat \ {0})

VARIABLES
    buffer,       \* the working buffer
    cursor,       \* where the next byte goes
    index,        \* pairs <<start, length>> in message order
    levelStack,   \* pairs <<stashed bytes, hole>>, outermost first
    written,      \* committed bytes of the innermost level
    uncommitted,  \* bytes at the end of buffer not yet in index
    output        \* what the last operation returned: only finish returns bytes

vars == <<buffer, cursor, index, levelStack, written, uncommitted, output>>

MaxOf(a, b) == IF a > b THEN a ELSE b

(* The bytes int32 writes for a length, see write-value.ts. *)
VarintOf[n \in Nat] ==
    IF n >= VarintBase
    THEN <<VarintBase + (n % VarintBase)>> \o VarintOf[n \div VarintBase]
    ELSE <<n>>

EmptyBuffer == [i \in 1 .. Capacity |-> 0]

Init ==
    /\ buffer = EmptyBuffer
    /\ cursor = 0
    /\ index = << >>
    /\ levelStack = << >>
    /\ written = 0
    /\ uncommitted = 0
    /\ output = << >>

(* Mutant: the count of uncommitted bytes survives a reset. *)
MutResetKeepsCount ==
    /\ buffer' = EmptyBuffer
    /\ cursor' = 0
    /\ index' = << >>
    /\ levelStack' = << >>
    /\ written' = 0
    /\ UNCHANGED uncommitted

Reset ==
    /\ buffer' = EmptyBuffer
    /\ cursor' = 0
    /\ index' = << >>
    /\ levelStack' = << >>
    /\ written' = 0
    /\ uncommitted' = 0

(* Mutant: the new buffer starts empty. *)
MutGrowEmpty(buf, used, size) == [i \in 1 .. size |-> 0]

(* growTo: a larger buffer with what was written so far. *)
GrowTo(buf, used, size) ==
    [i \in 1 .. size |-> IF i <= used /\ i <= Len(buf) THEN buf[i] ELSE 0]

(* A store outside a Uint8Array does nothing. *)
Store(buf, at, byte) ==
    IF at < Len(buf) THEN [buf EXCEPT ![at + 1] = byte] ELSE buf

WriteByteTo(w, byte) ==
    LET room == IF w.cursor = Len(w.buffer)
                THEN GrowTo(w.buffer, w.cursor, 2 * Len(w.buffer))
                ELSE w.buffer
    IN  [buffer |-> Store(room, w.cursor, byte),
         cursor |-> w.cursor + 1, count |-> w.count + 1]

(* A run of single bytes: what int32 does with the writer it is given. *)
WriteBytesTo(w, bytes) ==
    LET after[n \in 0 .. Len(bytes)] ==
            IF n = 0 THEN w ELSE WriteByteTo(after[n - 1], bytes[n])
    IN  after[Len(bytes)]

(* Mutant: the buffer is doubled even when the block needs more. *)
MutDoubleOnly(size, old) == 2 * old

(* How far writeBlock grows a buffer that is too small. *)
BlockRoom(size, old) == MaxOf(size, 2 * old)

WriteBlockTo(w, block) ==
    LET size == w.cursor + Len(block)
        room == IF size > Len(w.buffer)
                THEN GrowTo(w.buffer, w.cursor, BlockRoom(size, Len(w.buffer)))
                ELSE w.buffer
    IN  [buffer |-> [i \in 1 .. Len(room) |->
                        IF i > w.cursor /\ i <= size THEN block[i - w.cursor]
                                                     ELSE room[i]],
         cursor |-> size, count |-> w.count + Len(block)]

Returns(bytes) == output' = bytes

Here == [buffer |-> buffer, cursor |-> cursor, count |-> uncommitted]

InBounds == cursor < MaxCursor

WriteByte(byte) ==
    /\ InBounds
    /\ LET w == WriteByteTo(Here, byte) IN
       /\ buffer' = w.buffer
       /\ cursor' = w.cursor
       /\ uncommitted' = w.count
    /\ Returns(<< >>)
    /\ UNCHANGED <<index, levelStack, written>>

WriteBlock(block) ==
    /\ InBounds
    /\ LET w == WriteBlockTo(Here, block) IN
       /\ buffer' = w.buffer
       /\ cursor' = w.cursor
       /\ uncommitted' = w.count
    /\ Returns(<< >>)
    /\ UNCHANGED <<index, levelStack, written>>

(* Mutant: the piece is recorded from the cursor on. *)
MutCommitAtCursor ==
    IF uncommitted > 0 THEN Append(index, <<cursor, uncommitted>>) ELSE index

(* commit: the uncommitted bytes become a piece of the message. *)
Committed ==
    IF uncommitted > 0 THEN Append(index, <<cursor - uncommitted, uncommitted>>)
                       ELSE index

Hole == <<-1, -1>>

(* Mutant: the hole is numbered before the pending bytes are committed. *)
MutHoleBeforeCommit == Len(index) + 1

(* The position in index of the hole that begin leaves. *)
NextHole == Len(Committed) + 1

Begin ==
    /\ Len(levelStack) < MaxDepth
    /\ levelStack' = Append(levelStack, <<written + uncommitted, NextHole>>)
    /\ index' = Append(Committed, Hole)
    /\ written' = 0
    /\ uncommitted' = 0
    /\ Returns(<< >>)
    /\ UNCHANGED <<buffer, cursor>>

(* Mutant: the enclosing level does not count the length prefix. *)
MutForgetWidth(stashed, width, length) == stashed + length

(* What a level counts once an inner one is closed. *)
OuterWritten(stashed, width, length) == stashed + width + length

(* end: the length is written after the content and fills the hole. *)
End ==
    /\ InBounds
    /\ levelStack # << >>
    /\ LET top == levelStack[Len(levelStack)]
           length == written + uncommitted
           w == WriteBytesTo([Here EXCEPT !.count = 0], VarintOf[length])
       IN
       /\ index' = [Committed EXCEPT ![top[2]] = <<cursor, w.count>>]
       /\ written' = OuterWritten(top[1], w.count, length)
       /\ buffer' = w.buffer
       /\ cursor' = w.cursor
    /\ levelStack' = SubSeq(levelStack, 1, Len(levelStack) - 1)
    /\ uncommitted' = 0
    /\ Returns(<< >>)

(* end without begin commits before it throws. *)
EndThrows ==
    /\ levelStack = << >>
    /\ index' = Committed
    /\ written' = written + uncommitted
    /\ uncommitted' = 0
    /\ Returns(<< >>)
    /\ UNCHANGED <<buffer, cursor, levelStack>>

(* The bytes of a piece, as subarray cuts them. *)
Piece(p) == SubSeq(buffer, p[1] + 1, IF p[1] + p[2] < Len(buffer) THEN p[1] + p[2]
                                                                ELSE Len(buffer))

(* The pieces numbered from..to of a list, one after the other. *)
Pieces(list, from, to) ==
    LET upTo[i \in from - 1 .. to] ==
            IF i < from THEN << >> ELSE upTo[i - 1] \o Piece(list[i])
    IN  IF to < from THEN << >> ELSE upTo[to]

(* finish with arrayCollector: an array of the announced size, zero where  *)
(* the dump stops short of it.                                             *)
Collect(size, bytes) ==
    [i \in 1 .. size |-> IF i <= Len(bytes) THEN bytes[i] ELSE 0]

Finish ==
    /\ levelStack = << >>
    /\ Returns(Collect(written + uncommitted, Pieces(Committed, 1, Len(Committed))))
    /\ Reset

(* finish with an open level throws and changes nothing. *)
FinishThrows ==
    /\ levelStack # << >>
    /\ Returns(<< >>)
    /\ UNCHANGED <<buffer, cursor, index, levelStack, written, uncommitted>>

Clear == Reset /\ Returns(<< >>)

Next ==
    \/ \E byte \in Bytes : WriteByte(byte)
    \/ \E block \in Blocks : WriteBlock(block)
    \/ Begin
    \/ End
    \/ EndThrows
    \/ Finish
    \/ FinishThrows
    \/ Clear

Spec == Init /\ [][Next]_vars

IsEmpty == cursor = 0 /\ levelStack = << >>

-----------------------------------------------------------------------------
(* Properties *)

Pair == [1 .. 2 -> Int]

(* Every variable holds values of its type. *)
TypeOK ==
    /\ buffer \in Seq(Nat)
    /\ cursor \in Nat
    /\ index \in Seq(Pair)
    /\ levelStack \in Seq(Pair)
    /\ written \in Nat
    /\ uncommitted \in 0 .. cursor
    /\ output \in Seq(Nat)

Depth == Len(levelStack)

(* Pieces of the open level k: those between its hole and the next one. *)
FirstPiece(k) == IF k = 0 THEN 1 ELSE levelStack[k][2] + 1
LastPiece(k) == IF k = Depth THEN Len(index) ELSE levelStack[k + 1][2] - 1

LevelBytes(k) ==
    Pieces(index, FirstPiece(k), LastPiece(k))
    \o (IF k = Depth THEN Piece(<<cursor - uncommitted, uncommitted>>) ELSE << >>)

(* The stack of buffers the writer stands for, innermost first. *)
Levels == [k \in 1 .. Depth + 1 |-> LevelBytes(Depth + 1 - k)]

(* The bytes counted for a level, which become a length prefix, are the    *)
(* bytes its pieces hold: for the innermost level in written, for the      *)
(* others in the stash that end adds back.                                 *)
CountsAgree ==
    /\ Len(LevelBytes(Depth)) = written + uncommitted
    /\ \A k \in 1 .. Depth : Len(LevelBytes(k - 1)) = levelStack[k][1]

(* The pieces in index and the uncommitted bytes tile the buffer: every    *)
(* byte up to cursor is in exactly one of them, so none is dumped twice    *)
(* and none is left out.                                                   *)
PiecesTile ==
    \A at \in 0 .. cursor - uncommitted - 1 :
        \E i \in 1 .. Len(index) :
            /\ index[i][1] <= at /\ at < index[i][1] + index[i][2]
            /\ \A j \in 1 .. Len(index) \ {i} :
                  at < index[j][1] \/ index[j][1] + index[j][2] <= at

(* The holes of index are exactly the lengths of the open levels. *)
HolesAreOpen ==
    /\ \A i \in 1 .. Len(index) :
          index[i] = Hole <=> \E k \in 1 .. Depth : levelStack[k][2] = i
    /\ \A k \in 2 .. Depth : levelStack[k - 1][2] < levelStack[k][2]

(* writer.ts promises to "create new buffers if necessary if the need      *)
(* arises to write larger messages": what was written is in the buffer.    *)
BufferHoldsMessage == cursor <= Len(buffer)

(* The writer implements the stack of buffers. *)
Reference == INSTANCE NestedBuffers WITH buffers <- Levels,
                Blocks <- Blocks \cup {<<b>> : b \in Bytes}
ImplementsNestedBuffers == Reference!Spec
=============================================================================
