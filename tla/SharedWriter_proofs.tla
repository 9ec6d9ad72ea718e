------------------------- MODULE SharedWriter_proofs -------------------------
(***************************************************************************)
(* Proofs about SharedWriter, for any number of users and writers, and any *)
(* amount of bytes and levels.                                             *)
(***************************************************************************)
EXTENDS SharedWriter, TLAPS

(* One callback at a time has a writer: a use inside a use is refused.     *)
OneUse ==
    /\ Len(frames) \in {0, 1}
    /\ sharedWriterInUse <=> frames # << >>

(* The writer that is lent holds what its user wrote, and every other one  *)
(* is empty, whether it is the shared one or was before.                   *)
LentIsOwn ==
    /\ frames # << >> =>
          /\ outcome[Top.user] = "running"
          /\ content[Top.writer] = wrote[Top.user]
    /\ \A w \in Writers : frames = << >> \/ w # Top.writer => IsEmpty(w)
    /\ \A u \in Users : outcome[u] = "idle" => wrote[u] = << >>

SharedInv == TypeOK /\ OneUse /\ LentIsOwn /\ ResultIsOwn

(* The frame of a use, while there is one. *)
LEMMA TheFrame ==
    ASSUME SharedInv, frames # << >>
    PROVE  /\ Len(frames) = 1 /\ Top = frames[1]
           /\ Top.user \in Users /\ Top.writer \in Writers
           /\ SubSeq(frames, 1, Len(frames) - 1) = << >>
<1>1. frames \in Seq([user : Users, writer : Writers]) /\ Len(frames) \in {0, 1}
    BY DEF SharedInv, TypeOK, OneUse
<1>2. Len(frames) = 1
    BY <1>1
<1>3. frames[1] \in [user : Users, writer : Writers]
  <2> DEFINE Frame == [user : Users, writer : Writers]
  <2>1. frames \in Seq(Frame) /\ 1 \in 1 .. Len(frames)
    BY <1>1, <1>2
  <2> HIDE DEF Frame
  <2>2. frames[1] \in Frame
    BY <2>1
  <2> QED  BY <2>2 DEF Frame
<1>4. Top = frames[1]
    BY <1>2 DEF Top
<1>5. SubSeq(frames, 1, Len(frames) - 1) = << >>
    BY <1>1, <1>2
<1> QED  BY <1>2, <1>3, <1>4, <1>5

LEMMA InitShared == Init => SharedInv
<1> SUFFICES ASSUME Init PROVE SharedInv
    OBVIOUS
<1>1. TypeOK
  <2>1. allocated \in 0 .. MaxWriters /\ protoWriter \in 0 .. allocated
    BY BoundsAssumption DEF Init
  <2>5. sharedWriterInUse \in BOOLEAN
    BY DEF Init
  <2>2. content \in [Writers -> Seq(Users)] /\ open \in [Writers -> Nat]
    BY DEF Init
  <2>3. frames \in Seq([user : Users, writer : Writers])
    BY DEF Init
  <2>4. /\ outcome \in [Users -> {"idle", "running", "returned", "threw"}]
        /\ result \in [Users -> Seq(Users)] /\ wrote \in [Users -> Seq(Users)]
    BY DEF Init
  <2> QED  BY <2>1, <2>2, <2>3, <2>4, <2>5 DEF TypeOK
<1>2. OneUse /\ LentIsOwn /\ ResultIsOwn
    BY DEF Init, OneUse, LentIsOwn, ResultIsOwn, IsEmpty
<1> QED  BY <1>1, <1>2 DEF SharedInv

(* Whoever asks for the shared writer while there is none makes one. *)
LEMMA LendTypes ==
    ASSUME SharedInv, Lend
    PROVE  /\ allocated' \in 0 .. MaxWriters
           /\ protoWriter' \in Writers /\ protoWriter' <= allocated'
<1>1. allocated \in 0 .. MaxWriters /\ protoWriter \in 0 .. allocated /\ MaxWriters \in Nat
    BY BoundsAssumption DEF SharedInv, TypeOK
<1>2. CASE protoWriter # 0
    BY <1>1, <1>2 DEF Lend, Writers
<1>3. CASE protoWriter = 0
    BY <1>1, <1>3 DEF Lend, Writers
<1> QED  BY <1>2, <1>3

LEMMA UseStep ==
    ASSUME SharedInv, NEW u \in Users, Use(u)
    PROVE  SharedInv'
<1>1. frames = << >>
    BY DEF SharedInv, OneUse, Use, Taken
<1>0. frames' = <<[user |-> u, writer |-> protoWriter']>>
    BY <1>1 DEF Use
<1>2. Len(frames') = 1 /\ Top' = [user |-> u, writer |-> protoWriter']
    BY <1>0 DEF Top
<1>3. allocated' \in 0 .. MaxWriters /\ protoWriter' \in Writers /\ protoWriter' <= allocated'
    BY LendTypes DEF Use
<1>4. TypeOK'
    BY <1>0, <1>3 DEF SharedInv, TypeOK, Use, Writers
<1>5. OneUse'
    BY <1>0, <1>2 DEF OneUse, Use
<1>6. LentIsOwn'
    BY <1>0, <1>1, <1>2, <1>3 DEF SharedInv, TypeOK, LentIsOwn, IsEmpty, Use
<1>7. ResultIsOwn'
    BY DEF SharedInv, TypeOK, ResultIsOwn, Use
<1> QED  BY <1>4, <1>5, <1>6, <1>7 DEF SharedInv

LEMMA UseThrowsStep ==
    ASSUME SharedInv, NEW u \in Users, UseThrows(u)
    PROVE  SharedInv'
<1>1. TypeOK'
    BY LendTypes DEF SharedInv, TypeOK, UseThrows, Writers
<1>2. Top' = Top
    BY DEF Top, UseThrows
<1>3. frames # << >> => Top.user \in Users /\ u # Top.user
    BY TheFrame DEF SharedInv, LentIsOwn, UseThrows
<1>4. OneUse' /\ ResultIsOwn'
    BY DEF SharedInv, TypeOK, OneUse, ResultIsOwn, UseThrows
<1>5. LentIsOwn'
    BY <1>2, <1>3 DEF SharedInv, TypeOK, LentIsOwn, IsEmpty, UseThrows
<1> QED  BY <1>1, <1>4, <1>5 DEF SharedInv

(* What the callback does to the writer that it was lent. *)
LEMMA CallbackStep ==
    ASSUME SharedInv, Write \/ Begin \/ End
    PROVE  SharedInv'
<1>1. frames # << >> /\ UNCHANGED <<allocated, protoWriter, sharedWriterInUse, frames, outcome, result>>
    BY DEF Write, Begin, End
<1>2. /\ Top.user \in Users /\ Top.writer \in Writers /\ Top' = Top
    BY <1>1, TheFrame DEF Top
<1>3. outcome[Top.user] = "running"
    BY <1>1 DEF SharedInv, LentIsOwn
<1>4. OneUse' /\ allocated' \in 0 .. MaxWriters /\ protoWriter' \in 0 .. allocated'
    BY <1>1 DEF SharedInv, OneUse, TypeOK
<1>5. CASE Write
  <2>1. /\ content' = [content EXCEPT ![Top.writer] = Append(@, Top.user)]
        /\ wrote' = [wrote EXCEPT ![Top.user] = Append(@, Top.user)]
        /\ open' = open
    BY <1>5 DEF Write
  <2>2. TypeOK'
    <3>1. Append(content[Top.writer], Top.user) \in Seq(Users)
          /\ Append(wrote[Top.user], Top.user) \in Seq(Users)
      BY <1>2 DEF SharedInv, TypeOK
    <3>2. content' \in [Writers -> Seq(Users)] /\ wrote' \in [Users -> Seq(Users)]
      BY <2>1, <3>1 DEF SharedInv, TypeOK
    <3> QED  BY <1>1, <2>1, <3>2 DEF SharedInv, TypeOK
  <2>3. LentIsOwn'
    BY <1>1, <1>2, <1>3, <2>1 DEF SharedInv, TypeOK, LentIsOwn, IsEmpty
  <2>4. ResultIsOwn'
    BY <1>1, <1>2, <1>3, <2>1 DEF SharedInv, TypeOK, ResultIsOwn
  <2> QED  BY <1>4, <2>2, <2>3, <2>4 DEF SharedInv
<1>6. CASE Begin \/ End
  <2> DEFINE now == open[Top.writer]
  <2>0. open \in [Writers -> Nat] /\ now \in Nat
    BY <1>2 DEF SharedInv, TypeOK
  <2>1. /\ UNCHANGED <<content, wrote>>
        /\ open' \in [Writers -> Nat]
        /\ \A w \in Writers \ {Top.writer} : open'[w] = open[w]
    <3>1. CASE Begin
      <4>1. now + 1 \in Nat
        BY <2>0
      <4> QED  BY <2>0, <3>1, <4>1 DEF Begin
    <3>2. CASE End
      <4>1. now - 1 \in Nat
        BY <2>0, <3>2 DEF End
      <4> QED  BY <2>0, <3>2, <4>1 DEF End
    <3> QED  BY <1>6, <3>1, <3>2
  <2>2. TypeOK'
    BY <1>1, <2>1 DEF SharedInv, TypeOK
  <2>3. LentIsOwn' /\ ResultIsOwn'
    BY <1>1, <1>2, <2>1 DEF SharedInv, TypeOK, LentIsOwn, IsEmpty, ResultIsOwn
  <2> QED  BY <1>4, <2>2, <2>3 DEF SharedInv
<1> QED  BY <1>5, <1>6

(* A use that is over, however it ended, leaves every writer empty. *)
LEMMA LeaveStep ==
    ASSUME SharedInv, Return \/ Catch
    PROVE  SharedInv'
<1>1. frames # << >> /\ Clear(Top.writer)
    BY DEF Return, Catch
<1>2. /\ Len(frames) = 1 /\ Top.user \in Users /\ Top.writer \in Writers
      /\ SubSeq(frames, 1, Len(frames) - 1) = << >>
    BY <1>1, TheFrame
<1>3. /\ frames' = << >> /\ sharedWriterInUse' = FALSE
      /\ UNCHANGED <<allocated, protoWriter, wrote>>
    BY <1>2 DEF Return, Catch, Leave
<1>4. \A w \in Writers : content'[w] = << >> /\ open'[w] = 0
    BY <1>1, <1>2 DEF SharedInv, TypeOK, LentIsOwn, IsEmpty, Clear
<1>5. content[Top.writer] = wrote[Top.user] /\ wrote \in [Users -> Seq(Users)]
    BY <1>1 DEF SharedInv, LentIsOwn, TypeOK
<1>6. TypeOK'
  <2>1. content' \in [Writers -> Seq(Users)] /\ open' \in [Writers -> Nat]
    BY <1>1, <1>2 DEF SharedInv, TypeOK, Clear
  <2>2. outcome' \in [Users -> {"idle", "running", "returned", "threw"}]
    BY <1>2 DEF SharedInv, TypeOK, Return, Catch, Leave
  <2>3. result' \in [Users -> Seq(Users)]
    BY <1>2 DEF SharedInv, TypeOK, Return, Catch
  <2>4. allocated \in 0 .. MaxWriters /\ protoWriter \in 0 .. allocated /\ wrote \in [Users -> Seq(Users)]
    BY DEF SharedInv, TypeOK
  <2>5. << >> \in Seq([user : Users, writer : Writers])
    OBVIOUS
  <2> QED  BY <1>3, <2>1, <2>2, <2>3, <2>4, <2>5 DEF TypeOK
<1>7. OneUse'
    BY <1>3 DEF OneUse
<1>8. LentIsOwn'
    BY <1>2, <1>3, <1>4 DEF SharedInv, TypeOK, LentIsOwn, IsEmpty, Return, Catch, Leave
<1>9. ResultIsOwn'
    BY <1>2, <1>3, <1>5 DEF SharedInv, TypeOK, ResultIsOwn, Return, Catch, Leave
<1> QED  BY <1>6, <1>7, <1>8, <1>9 DEF SharedInv

LEMMA AllocateStep ==
    ASSUME SharedInv, Allocate
    PROVE  SharedInv'
    BY BoundsAssumption
       DEF SharedInv, TypeOK, OneUse, LentIsOwn, ResultIsOwn, IsEmpty, Top, Allocate, Writers

LEMMA NextShared == SharedInv /\ [Next]_vars => SharedInv'
<1> SUFFICES ASSUME SharedInv, [Next]_vars PROVE SharedInv'
    OBVIOUS
<1>1. CASE UNCHANGED vars
    BY <1>1 DEF vars, SharedInv, TypeOK, OneUse, LentIsOwn, ResultIsOwn, IsEmpty, Top
<1> QED  BY <1>1, AllocateStep, UseStep, UseThrowsStep, CallbackStep, LeaveStep DEF Next

(* A reachable state has at most one use of the writer, whose bytes are in *)
(* it; the three properties follow.                                        *)
THEOREM SharedWriterInvariant == Spec => []SharedInv
    BY InitShared, NextShared, PTL DEF Spec

(* Every variable of the shared writer keeps to its type. *)
THEOREM SharedWriterTypes == Spec => []TypeOK
<1>1. SharedInv => TypeOK
    BY DEF SharedInv
<1> QED  BY <1>1, SharedWriterInvariant, PTL

(* However callbacks end, the shared writer is free and empty between uses.*)
THEOREM SharedWriterUsable == Spec => []AlwaysUsable
<1>1. SharedInv => AlwaysUsable
    BY DEF SharedInv, OneUse, LentIsOwn, AlwaysUsable
<1> QED  BY <1>1, SharedWriterInvariant, PTL

(* A user is returned the bytes it wrote and none of another's. *)
THEOREM SharedWriterResults == Spec => []ResultIsOwn
<1>1. SharedInv => ResultIsOwn
    BY DEF SharedInv
<1> QED  BY <1>1, SharedWriterInvariant, PTL
=============================================================================
