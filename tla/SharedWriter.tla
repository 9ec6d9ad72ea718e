---------------------------- MODULE SharedWriter ----------------------------
(***************************************************************************)
(* useSharedWriter and allocateSharedWriter of writer.ts: one writer lent  *)
(* to a callback at a time.  Everything is synchronous, so what can        *)
(* interleave is what a callback does: write, open and close levels, call  *)
(* useSharedWriter again (and catch its error or not), replace the shared  *)
(* writer, throw.                                                          *)
(*                                                                         *)
(* A writer is what NestedBuffers says it is; here its content is the      *)
(* sequence of the users that wrote it and the number of open levels.      *)
(***************************************************************************)
EXTENDS Naturals, Sequences

CONSTANTS
    Users,        \* invocations of useSharedWriter
    MaxWriters,   \* bound: calls of allocateSharedWriter, lazy one included
    MaxContent,   \* bound: bytes one callback writes
    MaxDepth      \* bound: levels one callback opens

ASSUME BoundsAssumption == MaxWriters \in Nat /\ MaxContent \in Nat /\ MaxDepth \in Nat

VARIABLES
    allocated,        \* number of writers made so far
    protoWriter,      \* the shared writer, 0 when undefined
    sharedWriterInUse,
    content,          \* writer -> users of the bytes in it
    open,             \* writer -> open levels
    frames,           \* active useSharedWriter calls, innermost last
    outcome,          \* each user: "idle", "running", "returned", "threw"
    result,           \* each user: the bytes it was returned
    wrote             \* each user: the bytes it wrote

vars == <<allocated, protoWriter, sharedWriterInUse, content, open, frames,
          outcome, result, wrote>>

Writers == 1 .. MaxWriters

Init ==
    /\ allocated = 0
    /\ protoWriter = 0
    /\ sharedWriterInUse = FALSE
    /\ content = [w \in Writers |-> << >>]
    /\ open = [w \in Writers |-> 0]
    /\ frames = << >>
    /\ outcome = [u \in Users |-> "idle"]
    /\ result = [u \in Users |-> << >>]
    /\ wrote = [u \in Users |-> << >>]

Top == frames[Len(frames)]

IsEmpty(w) == content[w] = << >> /\ open[w] = 0

(* Mutant: the levels left open survive. *)
MutClearContent(w) ==
    /\ content' = [content EXCEPT ![w] = << >>]
    /\ UNCHANGED open

Clear(w) ==
    /\ content' = [content EXCEPT ![w] = << >>]
    /\ open' = [open EXCEPT ![w] = 0]

(* allocateSharedWriter, by whoever runs: the application or a callback. *)
Allocate ==
    /\ allocated < MaxWriters
    /\ allocated' = allocated + 1
    /\ protoWriter' = allocated + 1
    /\ UNCHANGED <<sharedWriterInUse, content, open, frames, outcome, result, wrote>>

(* Mutant: a new shared writer is named before it is counted. *)
MutLendUncounted ==
    /\ UNCHANGED allocated
    /\ protoWriter' = IF protoWriter # 0 THEN protoWriter ELSE allocated + 1

(* The writer a call uses, allocated on the first one. *)
Lend ==
    IF protoWriter # 0
    THEN UNCHANGED <<allocated, protoWriter>>
    ELSE allocated < MaxWriters /\ allocated' = allocated + 1
                                /\ protoWriter' = allocated + 1

(* Mutant: the writer is lent whoever has it. *)
MutNeverTaken == FALSE

(* The test at the head of useSharedWriter; a writer just made is empty. *)
Taken == sharedWriterInUse \/ (protoWriter # 0 /\ ~IsEmpty(protoWriter))

Use(u) ==
    /\ outcome[u] = "idle" /\ ~Taken
    /\ Lend
    /\ sharedWriterInUse' = TRUE
    /\ frames' = Append(frames, [user |-> u, writer |-> protoWriter'])
    /\ outcome' = [outcome EXCEPT ![u] = "running"]
    /\ UNCHANGED <<content, open, result, wrote>>

(* useSharedWriter throws before its try: nothing is cleared. *)
UseThrows(u) ==
    /\ outcome[u] = "idle" /\ Taken
    /\ Lend
    /\ outcome' = [outcome EXCEPT ![u] = "threw"]
    /\ UNCHANGED <<sharedWriterInUse, content, open, frames, result, wrote>>

(* What the innermost callback does with the writer it was lent. *)
Write ==
    /\ frames # << >>
    /\ Len(wrote[Top.user]) < MaxContent
    /\ content' = [content EXCEPT ![Top.writer] = Append(@, Top.user)]
    /\ wrote' = [wrote EXCEPT ![Top.user] = Append(@, Top.user)]
    /\ UNCHANGED <<allocated, protoWriter, sharedWriterInUse, open, frames,
                   outcome, result>>

Begin ==
    /\ frames # << >> /\ open[Top.writer] < MaxDepth
    /\ open' = [open EXCEPT ![Top.writer] = @ + 1]
    /\ UNCHANGED <<allocated, protoWriter, sharedWriterInUse, content, frames,
                   outcome, result, wrote>>

End ==
    /\ frames # << >> /\ open[Top.writer] > 0
    /\ open' = [open EXCEPT ![Top.writer] = @ - 1]
    /\ UNCHANGED <<allocated, protoWriter, sharedWriterInUse, content, frames,
                   outcome, result, wrote>>

Leave(how) ==
    /\ frames' = SubSeq(frames, 1, Len(frames) - 1)
    /\ outcome' = [outcome EXCEPT ![Top.user] = how]
    /\ sharedWriterInUse' = FALSE
    /\ UNCHANGED <<allocated, protoWriter, wrote>>

(* The callback returns with every level closed: finish resets the writer. *)
Return ==
    /\ frames # << >> /\ open[Top.writer] = 0
    /\ result' = [result EXCEPT ![Top.user] = content[Top.writer]]
    /\ Clear(Top.writer)
    /\ Leave("returned")

(* The callback throws, or finish does for an open level: the catch clears.*)
Catch ==
    /\ frames # << >>
    /\ Clear(Top.writer)
    /\ UNCHANGED result
    /\ Leave("threw")

Next ==
    \/ Allocate
    \/ \E u \in Users : Use(u) \/ UseThrows(u)
    \/ Write \/ Begin \/ End
    \/ Return
    \/ Catch

Spec == Init /\ [][Next]_vars

-----------------------------------------------------------------------------
(* Properties *)

(* Every variable holds values of its type. *)
TypeOK ==
    /\ allocated \in 0 .. MaxWriters
    /\ protoWriter \in 0 .. allocated
    /\ sharedWriterInUse \in BOOLEAN
    /\ content \in [Writers -> Seq(Users)]
    /\ open \in [Writers -> Nat]
    /\ frames \in Seq([user : Users, writer : Writers])
    /\ outcome \in [Users -> {"idle", "running", "returned", "threw"}]
    /\ result \in [Users -> Seq(Users)]
    /\ wrote \in [Users -> Seq(Users)]

(* The flag is up exactly while a callback runs, however the last one      *)
(* ended, and between uses every writer is empty: no failure leaves the    *)
(* shared writer unusable.                                                 *)
AlwaysUsable ==
    /\ sharedWriterInUse <=> frames # << >>
    /\ frames = << >> => \A w \in Writers : IsEmpty(w)

(* A user is returned what it wrote and nothing of another, also when its  *)
(* callback called useSharedWriter itself or replaced the shared writer.   *)
ResultIsOwn ==
    \A u \in Users : outcome[u] = "returned" => result[u] = wrote[u]
=============================================================================
