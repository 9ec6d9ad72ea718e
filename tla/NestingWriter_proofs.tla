------------------------ MODULE NestingWriter_proofs ------------------------
(***************************************************************************)
(* Proofs about the nesting writer, for every capacity, block, byte and    *)
(* base of a varint, and without bounds on messages or levels.             *)
(***************************************************************************)
EXTENDS NestingWriter, NaturalSets, TLAPS

-----------------------------------------------------------------------------
(* The bytes of a length                                                   *)

Digits(f, n) ==
    IF n >= VarintBase THEN <<VarintBase + (n % VarintBase)>> \o f[n \div VarintBase]
                       ELSE <<n>>
UpTo(f, n) == f = [k \in 0 .. n |-> Digits(f, k)]

LEMMA Shrinks ==
    ASSUME NEW n \in Nat, n >= VarintBase
    PROVE  n \div VarintBase \in 0 .. n - 1 /\ n % VarintBase \in Nat
<1>1. VarintBase \in Nat /\ VarintBase > 1
    BY VarintBaseAssumption
<1> QED  BY <1>1

(* Two initial parts of the function agree. *)
LEMMA UpToAgree ==
    ASSUME NEW n \in Nat, NEW m \in Nat, NEW f, UpTo(f, n), NEW g, UpTo(g, m),
           NEW k \in Nat, k <= n, k <= m
    PROVE  f[k] = g[k]
<1> DEFINE T == {i \in Nat : i <= n /\ i <= m /\ f[i] # g[i]}
<1> SUFFICES ASSUME T # {} PROVE FALSE
    OBVIOUS
<1>1. PICK i \in T : \A j \in T : i <= j
    BY Least, T \in SUBSET Nat
<1>2. f[i] = Digits(f, i) /\ g[i] = Digits(g, i)
  <2>1. i \in 0 .. n /\ i \in 0 .. m
      BY <1>1
  <2>2. f = [x \in 0 .. n |-> Digits(f, x)] /\ g = [x \in 0 .. m |-> Digits(g, x)]
      BY DEF UpTo
  <2> HIDE DEF T
  <2>3. f[i] = [x \in 0 .. n |-> Digits(f, x)][i]
      BY <2>2
  <2>4. g[i] = [x \in 0 .. m |-> Digits(g, x)][i]
      BY <2>2
  <2> QED  BY <2>1, <2>3, <2>4
<1>3. CASE i >= VarintBase
  <2>1. i \div VarintBase \in 0 .. i - 1
      BY <1>1, <1>3, Shrinks
  <2>2. i \div VarintBase \notin T /\ i \div VarintBase \in Nat
      BY <1>1, <2>1
  <2>3. f[i \div VarintBase] = g[i \div VarintBase]
      BY <1>1, <2>1, <2>2
  <2> QED  BY <1>1, <1>2, <2>3 DEF Digits
<1>4. CASE ~(i >= VarintBase)
    BY <1>1, <1>2, <1>4 DEF Digits
<1> QED  BY <1>3, <1>4

LEMMA UpToExists == \A n \in Nat : \E f : UpTo(f, n)
<1> DEFINE S == {n \in Nat : \E f : UpTo(f, n)}
<1>b. VarintBase \in Nat /\ VarintBase > 1
    BY VarintBaseAssumption
<1>1. 0 \in S
  <2> DEFINE f == [k \in 0 .. 0 |-> <<k>>]
  <2>1. \A k \in 0 .. 0 : Digits(f, k) = <<k>>
      BY <1>b DEF Digits
  <2>2. UpTo(f, 0)
      BY <2>1 DEF UpTo
  <2> QED  BY <2>2
<1>2. ASSUME NEW n \in S PROVE n + 1 \in S
  <2>1. PICK f : UpTo(f, n)
      OBVIOUS
  <2> DEFINE g == [k \in 0 .. n + 1 |-> IF k = n + 1 THEN Digits(f, k) ELSE f[k]]
  <2>2. ASSUME NEW k \in 0 .. n + 1 PROVE Digits(g, k) = Digits(f, k)
    <3>1. CASE k >= VarintBase
      <4>1. PICK d \in 0 .. n : d = k \div VarintBase
          BY <3>1, Shrinks
      <4>2. g[d] = f[d]
          BY <4>1
      <4> HIDE DEF g
      <4> QED  BY <3>1, <4>1, <4>2 DEF Digits
    <3>2. CASE ~(k >= VarintBase)
        BY <3>2 DEF Digits
    <3> QED  BY <3>1, <3>2
  <2>3. ASSUME NEW k \in 0 .. n PROVE f[k] = Digits(f, k)
      BY <2>1 DEF UpTo
  <2>4. \A k \in 0 .. n + 1 : g[k] = Digits(g, k)
      BY <2>2, <2>3
  <2>5. UpTo(g, n + 1)
      BY <2>4 DEF UpTo
  <2> QED  BY <2>5
<1> HIDE DEF S
<1>3. S = Nat
    BY <1>1, <1>2, Induction DEF S
<1> QED  BY <1>3 DEF S

LEMMA VarintEquation == VarintOf = [n \in Nat |-> Digits(VarintOf, n)]
<1> DEFINE part(n) == CHOOSE f : UpTo(f, n)
           whole == [n \in Nat |-> part(n)[n]]
<1>1. \A n \in Nat : UpTo(part(n), n)
    BY UpToExists
<1> HIDE DEF part
<1>2. ASSUME NEW n \in Nat PROVE whole[n] = Digits(whole, n)
  <2>1. part(n)[n] = Digits(part(n), n)
      BY <1>1 DEF UpTo
  <2>2. CASE n >= VarintBase
    <3>1. PICK d \in 0 .. n - 1 : d = n \div VarintBase
        BY <2>2, Shrinks
    <3>2. part(n)[d] = part(d)[d]
        BY <1>1, <3>1, UpToAgree
    <3> QED  BY <2>1, <3>1, <3>2 DEF Digits
  <2>3. CASE ~(n >= VarintBase)
      BY <2>1, <2>3 DEF Digits
  <2> QED  BY <2>2, <2>3
<1>3. whole = [n \in Nat |-> Digits(whole, n)]
    BY <1>2
<1>4. \E f : f = [n \in Nat |-> Digits(f, n)]
    BY <1>3
<1> QED  BY <1>4 DEF VarintOf, Digits

LEMMA VarintType == \A n \in Nat : VarintOf[n] \in Seq(Nat)
<1> DEFINE T == {n \in Nat : VarintOf[n] \notin Seq(Nat)}
<1> SUFFICES ASSUME T # {} PROVE FALSE
    OBVIOUS
<1>1. PICK n \in T : \A m \in T : n <= m
    BY Least, T \in SUBSET Nat
<1>2. VarintOf[n] = Digits(VarintOf, n)
    BY <1>1, VarintEquation
<1>3. CASE n >= VarintBase
  <2>1. PICK d \in 0 .. n - 1 : d = n \div VarintBase
      BY <1>1, <1>3, Shrinks
  <2>2. VarintOf[d] \in Seq(Nat)
      BY <1>1, <2>1
  <2>3. VarintBase + (n % VarintBase) \in Nat
      BY <1>1, <1>3, Shrinks, VarintBaseAssumption
  <2>4. Digits(VarintOf, n) = <<VarintBase + (n % VarintBase)>> \o VarintOf[d]
      BY <1>3, <2>1 DEF Digits
  <2>5. <<VarintBase + (n % VarintBase)>> \in Seq(Nat)
      BY <2>3
  <2>6. VarintOf[n] \in Seq(Nat)
      BY <1>2, <2>2, <2>4, <2>5
  <2> QED  BY <1>1, <2>6
<1>4. CASE ~(n >= VarintBase)
  <2>1. Digits(VarintOf, n) = <<n>> /\ n \in Nat
      BY <1>1, <1>4 DEF Digits
  <2>2. VarintOf[n] \in Seq(Nat)
      BY <1>2, <2>1
  <2> QED  BY <1>1, <2>2
<1> QED  BY <1>3, <1>4

-----------------------------------------------------------------------------
(* Writing to a buffer                                                     *)

Typed(w) ==
    /\ w.buffer \in Seq(Nat)
    /\ w.cursor \in Nat
    /\ w.count \in Nat

(* The buffer holds what was written, and doubling it makes room. *)
Ready(w) == w.cursor <= Len(w.buffer) /\ Len(w.buffer) > 0

Advances(w, next, n) ==
    /\ next.cursor = w.cursor + n
    /\ next.count = w.count + n

Wrote(w, next, bytes) ==
    /\ \A i \in 1 .. w.cursor : next.buffer[i] = w.buffer[i]
    /\ \A i \in 1 .. Len(bytes) : next.buffer[w.cursor + i] = bytes[i]

(* A function on 1 .. n is a sequence. *)
LEMMA Sequence ==
    ASSUME NEW n \in Nat, NEW S, NEW f \in [1 .. n -> S]
    PROVE  f \in Seq(S) /\ Len(f) = n /\ \A i \in 1 .. n : f[i] \in S
OBVIOUS

LEMMA GrowToIs ==
    ASSUME NEW buf \in Seq(Nat), NEW used \in Nat, NEW size \in Nat
    PROVE  /\ GrowTo(buf, used, size) \in Seq(Nat)
           /\ Len(GrowTo(buf, used, size)) = size
           /\ used <= Len(buf) /\ used <= size =>
                 \A i \in 1 .. used : GrowTo(buf, used, size)[i] = buf[i]
<1>1. GrowTo(buf, used, size) \in [1 .. size -> Nat]
    BY DEF GrowTo
<1>2. ASSUME used <= Len(buf), used <= size, NEW i \in 1 .. used
      PROVE  GrowTo(buf, used, size)[i] = buf[i]
    BY <1>2 DEF GrowTo
<1> HIDE DEF GrowTo
<1>3. GrowTo(buf, used, size) \in Seq(Nat) /\ Len(GrowTo(buf, used, size)) = size
    BY <1>1, Sequence
<1> QED  BY <1>2, <1>3

LEMMA StoreIs ==
    ASSUME NEW buf \in Seq(Nat), NEW at \in Nat, NEW byte \in Nat,
           NEW new, new = Store(buf, at, byte)
    PROVE  /\ new \in Seq(Nat)
           /\ Len(new) = Len(buf)
           /\ \A i \in 1 .. Len(buf) : i # at + 1 => new[i] = buf[i]
           /\ at < Len(buf) => new[at + 1] = byte
BY DEF Store

LEMMA WriteByteTypes ==
    ASSUME NEW w, Typed(w), NEW byte \in Nat, NEW next, next = WriteByteTo(w, byte)
    PROVE  Typed(next) /\ Advances(w, next, 1)
<1> DEFINE room == IF w.cursor = Len(w.buffer)
                   THEN GrowTo(w.buffer, w.cursor, 2 * Len(w.buffer))
                   ELSE w.buffer
<1>1. room \in Seq(Nat)
    BY GrowToIs, 2 * Len(w.buffer) \in Nat DEF Typed
<1>2. /\ next.buffer = Store(room, w.cursor, byte)
      /\ next.cursor = w.cursor + 1
      /\ next.count = w.count + 1
    BY DEF WriteByteTo
<1> HIDE DEF room
<1>3. next.buffer \in Seq(Nat)
    BY <1>1, <1>2, StoreIs DEF Typed
<1> QED  BY <1>2, <1>3 DEF Typed, Advances

LEMMA WriteByteStores ==
    ASSUME NEW w, Typed(w), Ready(w), NEW byte \in Nat,
           NEW next, next = WriteByteTo(w, byte)
    PROVE  Ready(next) /\ Wrote(w, next, <<byte>>)
<1> DEFINE room == IF w.cursor = Len(w.buffer)
                   THEN GrowTo(w.buffer, w.cursor, 2 * Len(w.buffer))
                   ELSE w.buffer
<1>1. /\ room \in Seq(Nat)
      /\ w.cursor < Len(room)
      /\ \A i \in 1 .. w.cursor : room[i] = w.buffer[i]
  <2>1. CASE w.cursor = Len(w.buffer)
    <3>1. PICK size \in Nat : size = 2 * Len(w.buffer)
        BY DEF Typed
    <3>2. room = GrowTo(w.buffer, w.cursor, size)
        BY <2>1, <3>1
    <3> HIDE DEF room
    <3>3. /\ w.buffer \in Seq(Nat) /\ w.cursor \in Nat
          /\ w.cursor <= Len(w.buffer) /\ w.cursor < size /\ w.cursor <= size
        BY <2>1, <3>1 DEF Typed, Ready
    <3>4. /\ room \in Seq(Nat) /\ Len(room) = size
          /\ \A i \in 1 .. w.cursor : room[i] = w.buffer[i]
        BY <3>2, <3>3, GrowToIs
    <3> QED  BY <3>1, <3>3, <3>4
  <2>2. CASE w.cursor # Len(w.buffer)
      BY <2>2 DEF Typed, Ready
  <2> QED  BY <2>1, <2>2
<1>2. next.buffer = Store(room, w.cursor, byte) /\ next.cursor = w.cursor + 1
    BY DEF WriteByteTo
<1> HIDE DEF room
<1>3. /\ Len(next.buffer) = Len(room)
      /\ \A i \in 1 .. Len(room) : i # w.cursor + 1 => next.buffer[i] = room[i]
      /\ next.buffer[w.cursor + 1] = byte
  <2>1. PICK at, new : at \in Nat /\ at = w.cursor /\ new = next.buffer
      BY DEF Typed
  <2>2. room \in Seq(Nat) /\ at < Len(room) /\ new = Store(room, at, byte)
      BY <1>1, <1>2, <2>1
  <2>3. /\ Len(new) = Len(room)
        /\ \A i \in 1 .. Len(room) : i # at + 1 => new[i] = room[i]
        /\ new[at + 1] = byte
    <3>1. at \in Nat /\ byte \in Nat /\ room \in Seq(Nat) /\ at < Len(room)
        BY <2>1, <2>2
    <3>2. new = Store(room, at, byte)
        BY <2>2
    <3>3. /\ Len(new) = Len(room)
          /\ \A i \in 1 .. Len(room) : i # at + 1 => new[i] = room[i]
          /\ at < Len(room) => new[at + 1] = byte
        BY ONLY <3>1, <3>2, StoreIs
    <3> QED  BY <3>1, <3>3
  <2> QED  BY <2>1, <2>3
<1>4. Ready(next)
    BY <1>1, <1>2, <1>3 DEF Ready, Typed
<1>5. ASSUME NEW i \in 1 .. w.cursor PROVE next.buffer[i] = w.buffer[i]
  <2>1. i \in 1 .. Len(room) /\ i # w.cursor + 1
      BY <1>1 DEF Typed
  <2> QED  BY <1>1, <1>3, <2>1
<1>6. \A i \in 1 .. Len(<<byte>>) : next.buffer[w.cursor + i] = <<byte>>[i]
    BY <1>3
<1> QED  BY <1>4, <1>5, <1>6 DEF Wrote

LEMMA WriteBlockTypes ==
    ASSUME NEW w, Typed(w), NEW block \in Seq(Nat), NEW next, next = WriteBlockTo(w, block)
    PROVE  Typed(next) /\ Advances(w, next, Len(block))
<1> DEFINE size == w.cursor + Len(block)
           room == IF size > Len(w.buffer)
                   THEN GrowTo(w.buffer, w.cursor, BlockRoom(size, Len(w.buffer)))
                   ELSE w.buffer
           value(i) == IF i > w.cursor /\ i <= size THEN block[i - w.cursor] ELSE room[i]
<1>1. BlockRoom(size, Len(w.buffer)) \in Nat
    BY DEF Typed, BlockRoom, MaxOf
<1>2. room \in Seq(Nat)
  <2>1. PICK large \in Nat : large = BlockRoom(size, Len(w.buffer))
      BY <1>1
  <2>2. room = IF size > Len(w.buffer) THEN GrowTo(w.buffer, w.cursor, large)
                                       ELSE w.buffer
      BY <2>1
  <2> HIDE DEF room
  <2> QED  BY <2>2, GrowToIs DEF Typed
<1>3. /\ next.buffer = [i \in 1 .. Len(room) |-> value(i)]
      /\ next.cursor = w.cursor + Len(block)
      /\ next.count = w.count + Len(block)
    BY DEF WriteBlockTo
<1>4. ASSUME NEW i \in 1 .. Len(room) PROVE value(i) \in Nat
  <2> HIDE DEF room
  <2>1. CASE i > w.cursor /\ i <= size
    <3>1. PICK j \in 1 .. Len(block) : j = i - w.cursor
      <4>1. w.cursor \in Nat /\ Len(block) \in Nat
          BY DEF Typed
      <4>2. i - w.cursor \in 1 .. Len(block)
          BY <2>1, <4>1
      <4> QED  BY <4>2
    <3>2. block[j] \in Nat
        OBVIOUS
    <3> QED  BY <2>1, <3>1, <3>2
  <2>2. CASE ~(i > w.cursor /\ i <= size)
    <3>1. room[i] \in Nat
        BY <1>2
    <3> QED  BY <2>2, <3>1
  <2> QED  BY <2>1, <2>2
<1>5. next.buffer \in [1 .. Len(room) -> Nat]
  <2> HIDE DEF room, value
  <2> QED  BY <1>3, <1>4
<1> HIDE DEF room, value
<1>6. next.buffer \in Seq(Nat)
    BY <1>2, <1>5, Sequence, Len(room) \in Nat
<1> QED  BY <1>3, <1>6 DEF Typed, Advances

LEMMA WriteBlockStores ==
    ASSUME NEW w, Typed(w), Ready(w), NEW block \in Seq(Nat),
           NEW next, next = WriteBlockTo(w, block)
    PROVE  Ready(next) /\ Wrote(w, next, block)
<1> DEFINE size == w.cursor + Len(block)
           room == IF size > Len(w.buffer)
                   THEN GrowTo(w.buffer, w.cursor, BlockRoom(size, Len(w.buffer)))
                   ELSE w.buffer
<1>1. BlockRoom(size, Len(w.buffer)) \in Nat /\ BlockRoom(size, Len(w.buffer)) >= size
    BY DEF Typed, BlockRoom, MaxOf
<1>2. /\ room \in Seq(Nat)
      /\ size <= Len(room) /\ Len(room) > 0
      /\ \A i \in 1 .. w.cursor : room[i] = w.buffer[i]
  <2>1. CASE size > Len(w.buffer)
    <3>1. PICK large \in Nat : large = BlockRoom(size, Len(w.buffer)) /\ large >= size
        BY <1>1
    <3>2. room = GrowTo(w.buffer, w.cursor, large)
        BY <2>1, <3>1
    <3> HIDE DEF room
    <3>3. /\ w.buffer \in Seq(Nat) /\ w.cursor \in Nat
          /\ w.cursor <= Len(w.buffer) /\ w.cursor <= large /\ large > 0
        BY <2>1, <3>1 DEF Typed, Ready
    <3>4. /\ room \in Seq(Nat) /\ Len(room) = large
          /\ \A i \in 1 .. w.cursor : room[i] = w.buffer[i]
        BY <3>2, <3>3, GrowToIs
    <3> QED  BY <3>1, <3>3, <3>4
  <2>2. CASE ~(size > Len(w.buffer))
      BY <2>2 DEF Typed, Ready
  <2> QED  BY <2>1, <2>2
<1>3. /\ next.buffer = [i \in 1 .. Len(room) |->
                           IF i > w.cursor /\ i <= size THEN block[i - w.cursor] ELSE room[i]]
      /\ next.cursor = size
    BY DEF WriteBlockTo
<1> HIDE DEF room
<1>4. Len(next.buffer) = Len(room)
    BY <1>2, <1>3
<1>5. Ready(next)
    BY <1>2, <1>3, <1>4 DEF Ready
<1>6. \A i \in 1 .. w.cursor : next.buffer[i] = w.buffer[i]
    BY <1>2, <1>3, SMTT(30) DEF Typed
<1>7. ASSUME NEW i \in 1 .. Len(block) PROVE next.buffer[w.cursor + i] = block[i]
  <2>1. /\ w.cursor + i \in 1 .. Len(room)
        /\ w.cursor + i > w.cursor /\ w.cursor + i <= size
    <3>1. w.cursor \in Nat /\ Len(block) \in Nat /\ Len(room) \in Nat
        BY <1>2 DEF Typed
    <3> QED  BY <1>2, <3>1, SMTT(30)
  <2>2. (w.cursor + i) - w.cursor = i
      BY DEF Typed
  <2> QED  BY <1>3, <2>1, <2>2
<1> QED  BY <1>5, <1>6, <1>7 DEF Wrote

(* The writer after each of the bytes of a run. *)
Run(f, w, bytes, n) ==
    f = [k \in 0 .. n |-> IF k = 0 THEN w ELSE WriteByteTo(f[k - 1], bytes[k])]

LEMMA RunExists ==
    ASSUME NEW w, NEW bytes
    PROVE  \A n \in Nat : \E f : Run(f, w, bytes, n)
<1> DEFINE S == {n \in Nat : \E f : Run(f, w, bytes, n)}
<1>1. 0 \in S
  <2> DEFINE f == [k \in 0 .. 0 |-> w]
  <2>1. Run(f, w, bytes, 0)
      BY DEF Run
  <2> QED  BY <2>1
<1>2. ASSUME NEW n \in S PROVE n + 1 \in S
  <2>1. PICK f : Run(f, w, bytes, n)
      OBVIOUS
  <2> DEFINE step(h, k) == IF k = 0 THEN w ELSE WriteByteTo(h[k - 1], bytes[k])
             g == [k \in 0 .. n + 1 |-> IF k = n + 1 THEN step(f, k) ELSE f[k]]
  <2>2. ASSUME NEW k \in 0 .. n + 1 PROVE step(g, k) = step(f, k)
    <3>1. CASE k = 0
        BY <3>1
    <3>2. CASE k # 0
      <4>1. k - 1 \in 0 .. n + 1 /\ k - 1 # n + 1
          BY <3>2
      <4>2. g[k - 1] = f[k - 1]
          BY <4>1
      <4> HIDE DEF g
      <4> QED  BY <3>2, <4>2
    <3> QED  BY <3>1, <3>2
  <2>3. ASSUME NEW k \in 0 .. n PROVE f[k] = step(f, k)
    <3>1. f = [i \in 0 .. n |-> step(f, i)]
        BY <2>1 DEF Run
    <3> HIDE DEF step
    <3>2. f[k] = [i \in 0 .. n |-> step(f, i)][k]
        BY <3>1
    <3> QED  BY <3>2
  <2> HIDE DEF step
  <2>4. \A k \in 0 .. n + 1 : g[k] = step(g, k)
      BY <2>2, <2>3
  <2>5. g = [k \in 0 .. n + 1 |-> step(g, k)]
      BY <2>4
  <2>6. Run(g, w, bytes, n + 1)
      BY <2>5 DEF Run, step
  <2> QED  BY <2>6
<1> HIDE DEF S
<1>3. S = Nat
    BY <1>1, <1>2, Induction DEF S
<1> QED  BY <1>3 DEF S

LEMMA WriteBytesIs ==
    ASSUME NEW w, NEW bytes \in Seq(Nat)
    PROVE  \E f : Run(f, w, bytes, Len(bytes)) /\ WriteBytesTo(w, bytes) = f[Len(bytes)]
<1>n. PICK n \in Nat : n = Len(bytes)
    OBVIOUS
<1>e. PICK f : Run(f, w, bytes, n)
    BY RunExists, Zenon
<1>1. \E h : h = [k \in 0 .. Len(bytes) |->
                     IF k = 0 THEN w ELSE WriteByteTo(h[k - 1], bytes[k])]
    BY <1>e, <1>n DEF Run
<1> QED  BY <1>1 DEF WriteBytesTo, Run

LEMMA RunStep ==
    ASSUME NEW w, NEW bytes, NEW n \in Nat, NEW f, Run(f, w, bytes, n)
    PROVE  f[0] = w /\ \A k \in 1 .. n : f[k] = WriteByteTo(f[k - 1], bytes[k])
<1> DEFINE step(k) == IF k = 0 THEN w ELSE WriteByteTo(f[k - 1], bytes[k])
<1>1. f = [k \in 0 .. n |-> step(k)]
    BY DEF Run
<1> HIDE DEF step
<1>2. ASSUME NEW k \in 0 .. n PROVE f[k] = step(k)
  <2>1. f[k] = [i \in 0 .. n |-> step(i)][k]
      BY <1>1
  <2> QED  BY <2>1
<1> QED  BY <1>2 DEF step

LEMMA WriteBytesTypes ==
    ASSUME NEW w, Typed(w), NEW bytes \in Seq(Nat), NEW next, next = WriteBytesTo(w, bytes)
    PROVE  Typed(next) /\ Advances(w, next, Len(bytes))
<1>n. PICK n \in Nat : n = Len(bytes)
    OBVIOUS
<1>1. PICK f : Run(f, w, bytes, n) /\ next = f[n]
    BY <1>n, WriteBytesIs
<1>2. f[0] = w /\ \A k \in 1 .. n : f[k] = WriteByteTo(f[k - 1], bytes[k])
  <2>1. Run(f, w, bytes, n)
      BY <1>1
  <2>2. ASSUME NEW k \in 1 .. n PROVE f[k] = WriteByteTo(f[k - 1], bytes[k])
      BY <2>1, RunStep
  <2>3. f[0] = w
      BY <2>1, RunStep
  <2> QED  BY <2>2, <2>3
<1> DEFINE S == {k \in Nat : k <= n => Typed(f[k]) /\ Advances(w, f[k], k)}
<1>3. 0 \in S
    BY <1>2 DEF Typed, Advances
<1>4. ASSUME NEW k \in S PROVE k + 1 \in S
  <2> SUFFICES ASSUME k + 1 <= n PROVE Typed(f[k + 1]) /\ Advances(w, f[k + 1], k + 1)
      OBVIOUS
  <2>1. Typed(f[k]) /\ Advances(w, f[k], k) /\ bytes[k + 1] \in Nat /\ k \in Nat
      BY <1>n
  <2>2. f[k + 1] = WriteByteTo(f[k], bytes[k + 1])
      BY <1>2, (k + 1) - 1 = k, k + 1 \in 1 .. n
  <2>3. Typed(f[k + 1]) /\ Advances(f[k], f[k + 1], 1)
      BY <2>1, <2>2, WriteByteTypes
  <2> DEFINE v == f[k]
             u == f[k + 1]
  <2> HIDE DEF S, v, u
  <2>4. Advances(w, v, k) /\ Advances(v, u, 1) /\ Typed(u)
      BY <2>1, <2>3 DEF v, u
  <2>5. w.cursor \in Nat /\ w.count \in Nat /\ k \in Nat
      BY <2>1 DEF Typed
  <2>6. Advances(w, u, k + 1)
      BY <2>4, <2>5 DEF Advances
  <2> QED  BY <2>4, <2>6 DEF u
<1> HIDE DEF S
<1>5. S = Nat
    BY <1>3, <1>4, Induction DEF S
<1>6. Typed(next) /\ Advances(w, next, n)
    BY <1>1, <1>5 DEF S
<1> QED  BY <1>n, <1>6

LEMMA WriteBytesStores ==
    ASSUME NEW w, Typed(w), Ready(w), NEW bytes \in Seq(Nat),
           NEW next, next = WriteBytesTo(w, bytes)
    PROVE  Ready(next) /\ Wrote(w, next, bytes)
<1>n. PICK n \in Nat : n = Len(bytes)
    OBVIOUS
<1> DEFINE Kept(v) == \A i \in 1 .. w.cursor : v.buffer[i] = w.buffer[i]
           Stored(v, k) == \A i \in 1 .. k : v.buffer[w.cursor + i] = bytes[i]
           Fine(v, k) == /\ Typed(v) /\ Ready(v) /\ v.cursor = w.cursor + k
                         /\ Kept(v) /\ Stored(v, k)
<1>1. PICK f : Run(f, w, bytes, n) /\ next = f[n]
    BY <1>n, WriteBytesIs
<1>2. f[0] = w /\ \A k \in 1 .. n : f[k] = WriteByteTo(f[k - 1], bytes[k])
  <2>1. Run(f, w, bytes, n)
      BY <1>1
  <2>2. ASSUME NEW k \in 1 .. n PROVE f[k] = WriteByteTo(f[k - 1], bytes[k])
      BY <2>1, RunStep
  <2>3. f[0] = w
      BY <2>1, RunStep
  <2> QED  BY <2>2, <2>3
<1> DEFINE S == {k \in Nat : k <= n => Fine(f[k], k)}
<1>3. 0 \in S
    BY <1>2 DEF Typed
<1>4. ASSUME NEW k \in S PROVE k + 1 \in S
  <2> SUFFICES ASSUME k + 1 <= n PROVE Fine(f[k + 1], k + 1)
      OBVIOUS
  <2>1. Fine(f[k], k) /\ bytes[k + 1] \in Nat /\ k \in Nat
      BY <1>n
  <2>2. f[k + 1] = WriteByteTo(f[k], bytes[k + 1])
      BY <1>2, (k + 1) - 1 = k, k + 1 \in 1 .. n
  <2> DEFINE v == f[k]
             u == f[k + 1]
  <2> HIDE DEF S, v, u
  <2>3. Typed(u) /\ Advances(v, u, 1) /\ Ready(u) /\ Wrote(v, u, <<bytes[k + 1]>>)
      BY <2>1, <2>2, WriteByteTypes, WriteByteStores DEF v, u
  <2>4. /\ \A i \in 1 .. v.cursor : u.buffer[i] = v.buffer[i]
        /\ u.buffer[v.cursor + 1] = bytes[k + 1]
        /\ u.cursor = v.cursor + 1
    <3>1. 1 \in 1 .. Len(<<bytes[k + 1]>>)
        OBVIOUS
    <3> QED  BY <2>3, <3>1 DEF Wrote, Advances
  <2>5. /\ v.cursor = w.cursor + k /\ Kept(v) /\ Stored(v, k)
        /\ w.cursor \in Nat /\ k \in Nat
      BY <2>1 DEF v, Typed, S
  <2>6. Kept(u)
      BY <2>4, <2>5
  <2>9. u.cursor = v.cursor + 1
      BY <2>4
  <2>10. v.cursor = w.cursor + k /\ w.cursor \in Nat /\ k \in Nat
    <3> HIDE DEF Kept, Stored
    <3> QED  BY <2>5
  <2>7. Stored(u, k + 1)
    <3> SUFFICES ASSUME NEW i \in 1 .. k + 1 PROVE u.buffer[w.cursor + i] = bytes[i]
        OBVIOUS
    <3>0. PICK at \in Nat : at = w.cursor + i
        BY <2>5
    <3>1. CASE i \in 1 .. k
      <4>1. v.buffer[at] = bytes[i]
          BY <2>5, <3>0, <3>1
      <4> HIDE DEF Kept, Stored
      <4>2. at \in 1 .. v.cursor
          BY <2>5, <3>0, <3>1
      <4>3. u.buffer[at] = v.buffer[at]
          BY <2>4, <4>2
      <4> QED  BY <3>0, <4>1, <4>3
    <3>2. CASE i = k + 1
      <4> HIDE DEF Kept, Stored
      <4>1. at = w.cursor + (k + 1)
          BY <3>0, <3>2
      <4>2. \A a, b, c, d : a \in Nat /\ b \in Nat /\ c = a + b /\ d = a + (b + 1)
                             => d = c + 1
          OBVIOUS
      <4>3. at = v.cursor + 1
          BY <2>10, <4>1, <4>2, SMTT(30)
      <4> QED  BY <2>4, <3>0, <3>2, <4>3
    <3>3. i \in 1 .. k \/ i = k + 1
      <4> HIDE DEF Kept, Stored
      <4>1. k \in Nat
          BY <2>5
      <4> QED  BY <4>1
    <3> HIDE DEF Kept, Stored
    <3> QED  BY <3>1, <3>2, <3>3
  <2> HIDE DEF Kept, Stored
  <2>8. u.cursor = w.cursor + (k + 1)
      BY <2>9, <2>10
  <2> QED  BY <2>3, <2>6, <2>7, <2>8 DEF u
<1> HIDE DEF S
<1>5. S = Nat
    BY <1>3, <1>4, Induction DEF S
<1>6. Fine(next, n)
    BY <1>1, <1>5 DEF S
<1> QED  BY <1>n, <1>6 DEF Wrote

-----------------------------------------------------------------------------
(* The bytes of a range of pieces                                          *)

Cut(buf, p) ==
    SubSeq(buf, p[1] + 1, IF p[1] + p[2] < Len(buf) THEN p[1] + p[2] ELSE Len(buf))

PiecesOf(buf, list, from, to) ==
    LET upTo[i \in from - 1 .. to] ==
            IF i < from THEN << >> ELSE upTo[i - 1] \o Cut(buf, list[i])
    IN  IF to < from THEN << >> ELSE upTo[to]

LEMMA PieceIs == \A p : Piece(p) = Cut(buffer, p)
BY DEF Piece, Cut

LEMMA PiecesIs ==
    \A list, from, to : Pieces(list, from, to) = PiecesOf(buffer, list, from, to)
BY DEF Pieces, PiecesOf, Piece, Cut

(* The pieces one after the other, as a function of their number. *)
Joins(f, buf, list, from, to) ==
    f = [i \in from - 1 .. to |->
            IF i < from THEN << >> ELSE f[i - 1] \o Cut(buf, list[i])]

Steps(f, buf, list, from, to) ==
    /\ from <= to + 1 => f[from - 1] = << >>
    /\ \A i \in from .. to : f[i] = f[i - 1] \o Cut(buf, list[i])

LEMMA JoinsStep ==
    ASSUME NEW buf, NEW list, NEW from \in Nat, from > 0, NEW to \in Nat,
           NEW f, Joins(f, buf, list, from, to)
    PROVE  Steps(f, buf, list, from, to)
<1> DEFINE step(i) == IF i < from THEN << >> ELSE f[i - 1] \o Cut(buf, list[i])
<1>1. f = [i \in from - 1 .. to |-> step(i)]
    BY DEF Joins
<1> HIDE DEF step
<1>2. ASSUME NEW i \in from - 1 .. to PROVE f[i] = step(i)
  <2>1. f[i] = [j \in from - 1 .. to |-> step(j)][i]
      BY <1>1
  <2> QED  BY <2>1
<1>3. from <= to + 1 => f[from - 1] = << >>
  <2> SUFFICES ASSUME from <= to + 1 PROVE f[from - 1] = << >>
      OBVIOUS
  <2>1. from - 1 \in from - 1 .. to /\ from - 1 < from
      OBVIOUS
  <2> QED  BY <1>2, <2>1 DEF step
<1>4. ASSUME NEW i \in from .. to PROVE f[i] = f[i - 1] \o Cut(buf, list[i])
  <2>1. i \in from - 1 .. to /\ ~(i < from)
      OBVIOUS
  <2> QED  BY <1>2, <2>1 DEF step
<1> QED  BY <1>3, <1>4 DEF Steps

LEMMA JoinsExists ==
    ASSUME NEW buf, NEW list, NEW from \in Nat, from > 0
    PROVE  \A to \in Nat : from <= to + 1 => \E f : Joins(f, buf, list, from, to)
<1> DEFINE Has(to) == \E f : Joins(f, buf, list, from, to)
           S == {to \in Nat : from <= to + 1 => Has(to)}
           First == [i \in from - 1 .. from - 1 |-> << >>]
<1>0. Has(from - 1)
  <2> DEFINE step(f, i) == IF i < from THEN << >> ELSE f[i - 1] \o Cut(buf, list[i])
             f0 == [i \in from - 1 .. from - 1 |-> << >>]
  <2>1. \A i \in from - 1 .. from - 1 : step(f0, i) = << >>
      OBVIOUS
  <2> HIDE DEF step
  <2>2. f0 = [i \in from - 1 .. from - 1 |-> step(f0, i)]
      BY <2>1
  <2>3. Joins(f0, buf, list, from, from - 1)
      BY <2>2 DEF Joins, step
  <2> QED  BY <2>3
<1>1. 0 \in S
  <2>1. from <= 0 + 1 => from - 1 = 0
      OBVIOUS
  <2> HIDE DEF Has
  <2> QED  BY <1>0, <2>1
<1>2. ASSUME NEW n \in S PROVE n + 1 \in S
  <2>1. n \in Nat
      OBVIOUS
  <2> SUFFICES ASSUME from <= (n + 1) + 1 PROVE Has(n + 1)
      BY <2>1
  <2>2. CASE from = (n + 1) + 1
    <3>1. from - 1 = n + 1
        BY <2>1, <2>2
    <3> HIDE DEF Has
    <3> QED  BY <1>0, <3>1
  <2>3. CASE from # (n + 1) + 1
    <3>1. from <= n + 1
        BY <2>1, <2>3
    <3>2. PICK f : Joins(f, buf, list, from, n)
        BY <3>1
    <3> DEFINE step(h, i) == IF i < from THEN << >> ELSE h[i - 1] \o Cut(buf, list[i])
               g == [i \in from - 1 .. n + 1 |-> IF i = n + 1 THEN step(f, i) ELSE f[i]]
    <3>3. ASSUME NEW i \in from - 1 .. n + 1 PROVE step(g, i) = step(f, i)
      <4>1. CASE i < from
          BY <4>1
      <4>2. CASE ~(i < from)
        <5>1. i - 1 \in from - 1 .. n + 1 /\ i - 1 # n + 1
            BY <2>1, <4>2
        <5>2. g[i - 1] = f[i - 1]
            BY <5>1
        <5> HIDE DEF g
        <5> QED  BY <4>2, <5>2
      <4> QED  BY <4>1, <4>2
    <3>4. ASSUME NEW i \in from - 1 .. n PROVE f[i] = step(f, i)
      <4>1. f = [j \in from - 1 .. n |-> step(f, j)]
          BY <3>2 DEF Joins
      <4> HIDE DEF step
      <4>2. f[i] = [j \in from - 1 .. n |-> step(f, j)][i]
          BY <4>1
      <4> QED  BY <4>2
    <3> HIDE DEF step
    <3>5. \A i \in from - 1 .. n + 1 : g[i] = step(g, i)
        BY <2>1, <3>3, <3>4
    <3>6. g = [i \in from - 1 .. n + 1 |-> step(g, i)]
        BY <3>5
    <3>7. Joins(g, buf, list, from, n + 1)
        BY <3>6 DEF Joins, step
    <3> QED  BY <3>7
  <2> QED  BY <2>2, <2>3
<1> HIDE DEF S
<1>3. S = Nat
    BY <1>1, <1>2, Induction DEF S
<1> QED  BY <1>3 DEF S

(* A shorter list of pieces is an initial part of a longer one. *)
LEMMA JoinsAgree ==
    ASSUME NEW buf, NEW list, NEW from \in Nat, from > 0, NEW n \in Nat, NEW m \in Nat,
           from <= n + 1, from <= m + 1,
           NEW f, Joins(f, buf, list, from, n), NEW g, Joins(g, buf, list, from, m),
           NEW k \in Nat, from <= k + 1, k <= n, k <= m
    PROVE  f[k] = g[k]
<1>s. Steps(f, buf, list, from, n) /\ Steps(g, buf, list, from, m)
    BY JoinsStep
<1>f. /\ f[from - 1] = << >>
      /\ \A i \in from .. n : f[i] = f[i - 1] \o Cut(buf, list[i])
    BY <1>s DEF Steps
<1>g. /\ g[from - 1] = << >>
      /\ \A i \in from .. m : g[i] = g[i - 1] \o Cut(buf, list[i])
    BY <1>s DEF Steps
<1> DEFINE S == {i \in Nat : from <= i + 1 /\ i <= n /\ i <= m => f[i] = g[i]}
<1>1. 0 \in S
  <2>1. from <= 0 + 1 => from - 1 = 0
      OBVIOUS
  <2> QED  BY <1>f, <1>g, <2>1
<1>2. ASSUME NEW i \in S PROVE i + 1 \in S
  <2> SUFFICES ASSUME from <= (i + 1) + 1, i + 1 <= n, i + 1 <= m
               PROVE  f[i + 1] = g[i + 1]
      OBVIOUS
  <2>1. CASE from = (i + 1) + 1
    <3>1. from - 1 = i + 1
        BY <2>1
    <3> QED  BY <1>f, <1>g, <3>1
  <2>2. CASE from # (i + 1) + 1
    <3>1. i + 1 \in from .. n /\ i + 1 \in from .. m /\ (i + 1) - 1 = i
        BY <2>2
    <3>2. f[i] = g[i]
        BY <2>2
    <3> HIDE DEF S
    <3> QED  BY <1>f, <1>g, <3>1, <3>2
  <2> QED  BY <2>1, <2>2
<1> HIDE DEF S
<1>3. S = Nat
    BY <1>1, <1>2, Induction DEF S
<1> QED  BY <1>3 DEF S

LEMMA PiecesOfIs ==
    ASSUME NEW buf, NEW list, NEW from \in Nat, from > 0, NEW to \in Nat, from <= to
    PROVE  \E f : Joins(f, buf, list, from, to) /\ PiecesOf(buf, list, from, to) = f[to]
<1>e. PICK f : Joins(f, buf, list, from, to)
    BY JoinsExists, from <= to + 1
<1>1. \E h : h = [i \in from - 1 .. to |->
                     IF i < from THEN << >> ELSE h[i - 1] \o Cut(buf, list[i])]
    BY <1>e DEF Joins
<1>2. ~(to < from)
    OBVIOUS
<1> QED  BY <1>1, <1>2 DEF PiecesOf, Joins

LEMMA NoPieces ==
    ASSUME NEW buf, NEW list, NEW from \in Int, NEW to \in Int, to < from
    PROVE  PiecesOf(buf, list, from, to) = << >>
BY DEF PiecesOf

LEMMA LastPieceOf ==
    ASSUME NEW buf, NEW list, NEW from \in Nat, from > 0, NEW to \in Nat, from <= to
    PROVE  PiecesOf(buf, list, from, to)
              = PiecesOf(buf, list, from, to - 1) \o Cut(buf, list[to])
<1>1. PICK f : Joins(f, buf, list, from, to) /\ PiecesOf(buf, list, from, to) = f[to]
    BY PiecesOfIs
<1>2. from <= to + 1 /\ to \in from .. to
    OBVIOUS
<1>3. f[from - 1] = << >> /\ f[to] = f[to - 1] \o Cut(buf, list[to])
  <2>1. Steps(f, buf, list, from, to)
      BY <1>1, JoinsStep
  <2>2. from <= to + 1 => f[from - 1] = << >>
      BY <2>1 DEF Steps
  <2>3. \A i \in from .. to : f[i] = f[i - 1] \o Cut(buf, list[i])
      BY <2>1 DEF Steps
  <2> QED  BY <1>2, <2>2, <2>3
<1>4. PiecesOf(buf, list, from, to - 1) = f[to - 1]
  <2>1. CASE from = to
    <3>1. to - 1 < from /\ to - 1 \in Int /\ to - 1 = from - 1
        BY <2>1
    <3>2. PiecesOf(buf, list, from, to - 1) = << >>
        BY <3>1, NoPieces
    <3> QED  BY <1>3, <3>1, <3>2
  <2>2. CASE from # to
    <3>1. PICK m \in Nat : m = to - 1 /\ from <= m
        BY <2>2
    <3>2. PICK g : Joins(g, buf, list, from, m) /\ PiecesOf(buf, list, from, m) = g[m]
        BY <3>1, PiecesOfIs
    <3>3. f[m] = g[m]
      <4>1. Joins(g, buf, list, from, m) /\ Joins(f, buf, list, from, to)
          BY <1>1, <3>2
      <4>2. from <= m + 1 /\ from <= to + 1 /\ m <= m /\ m <= to
          BY <3>1
      <4> QED  BY <4>1, <4>2, JoinsAgree
    <3> QED  BY <3>1, <3>2, <3>3
  <2> QED  BY <2>1, <2>2
<1> QED  BY <1>1, <1>3, <1>4

LEMMA SameSequence ==
    ASSUME NEW S, NEW s \in Seq(S), NEW t \in Seq(S), Len(s) = Len(t),
           \A i \in 1 .. Len(s) : s[i] = t[i]
    PROVE  s = t
OBVIOUS

IsJoin(whole, s, t) ==
    /\ Len(whole) = Len(s) + Len(t)
    /\ \A i \in 1 .. Len(s) : whole[i] = s[i]
    /\ \A i \in 1 .. Len(t) : whole[Len(s) + i] = t[i]

LEMMA Joined ==
    ASSUME NEW S, NEW s \in Seq(S), NEW t \in Seq(S)
    PROVE  s \o t \in Seq(S) /\ IsJoin(s \o t, s, t)
<1>1. Len(s) \in Nat /\ Len(t) \in Nat
    OBVIOUS
<1>2. ASSUME NEW i \in 1 .. Len(t) PROVE (s \o t)[Len(s) + i] = t[i]
  <2>1. PICK j \in Nat : j = Len(s) + i
      BY <1>1
  <2>2. j \in 1 .. Len(s) + Len(t) /\ j > Len(s) /\ j - Len(s) = i
      BY <1>1, <2>1
  <2>3. (s \o t)[j] = t[j - Len(s)]
      BY <2>2
  <2> QED  BY <2>1, <2>2, <2>3
<1> QED  BY <1>1, <1>2 DEF IsJoin

LEMMA InOrder ==
    \A a \in Seq(Nat), b \in Seq(Nat), c \in Seq(Nat) : (a \o b) \o c = a \o (b \o c)
OBVIOUS

LEMMA NextPieceOf ==
    ASSUME NEW buf, NEW list, NEW from \in Nat, from > 0, NEW n \in Nat, from <= n + 1
    PROVE  PiecesOf(buf, list, from, n + 1)
              = PiecesOf(buf, list, from, n) \o Cut(buf, list[n + 1])
<1>1. PICK to \in Nat : to = n + 1 /\ to - 1 = n
    OBVIOUS
<1>2. PiecesOf(buf, list, from, to)
         = PiecesOf(buf, list, from, to - 1) \o Cut(buf, list[to])
    BY <1>1, LastPieceOf, ZenonT(40)
<1> QED  BY <1>1, <1>2

(* A piece of the buffer that ends at limit or before. *)
PieceIn(p, limit) == p[1] \in Nat /\ p[2] \in Nat /\ p[1] + p[2] <= limit

LEMMA CutType ==
    ASSUME NEW buf \in Seq(Nat), NEW p, p[1] \in Nat, p[2] \in Nat
    PROVE  Cut(buf, p) \in Seq(Nat)
<1>1. PICK last \in Nat : last = IF p[1] + p[2] < Len(buf) THEN p[1] + p[2] ELSE Len(buf)
    OBVIOUS
<1>2. last <= Len(buf) /\ p[1] + 1 \in Nat /\ p[1] + 1 >= 1
    BY <1>1
<1>3. SubSeq(buf, p[1] + 1, last) \in Seq(Nat)
    BY <1>2, SMTT(30)
<1> QED  BY <1>1, <1>3 DEF Cut

(* The b bytes of a buffer from position a on. *)
IsCut(cut, buf, a, b) ==
    /\ cut \in Seq(Nat)
    /\ Len(cut) = b
    /\ \A i \in 1 .. b : cut[i] = buf[a + i]

LEMMA CutIs ==
    ASSUME NEW buf \in Seq(Nat), NEW a \in Nat, NEW b \in Nat, a + b <= Len(buf),
           NEW p, p[1] = a, p[2] = b
    PROVE  IsCut(Cut(buf, p), buf, a, b)
<1>1. Cut(buf, p) = SubSeq(buf, a + 1, a + b)
  <2>1. (IF a + b < Len(buf) THEN a + b ELSE Len(buf)) = a + b
      OBVIOUS
  <2> QED  BY <2>1 DEF Cut
<1>2. Cut(buf, p) \in Seq(Nat)
    BY CutType
<1>3. Len(Cut(buf, p)) = b
    BY <1>1
<1>4. ASSUME NEW i \in 1 .. b PROVE Cut(buf, p)[i] = buf[a + i]
  <2>1. SubSeq(buf, a + 1, a + b)[i] = buf[(a + 1) + i - 1] /\ (a + 1) + i - 1 = a + i
      BY SMTT(30)
  <2> QED  BY <1>1, <2>1
<1> QED  BY <1>2, <1>3, <1>4 DEF IsCut

LEMMA CutAgree ==
    ASSUME NEW buf \in Seq(Nat), NEW new \in Seq(Nat), NEW limit \in Nat,
           limit <= Len(buf), limit <= Len(new),
           \A i \in 1 .. limit : new[i] = buf[i],
           NEW p, PieceIn(p, limit)
    PROVE  Cut(new, p) = Cut(buf, p)
<1>0. PICK a \in Nat, b \in Nat : p[1] = a /\ p[2] = b /\ a + b <= limit
    BY DEF PieceIn
<1>1. a + b <= Len(buf) /\ a + b <= Len(new)
    BY <1>0
<1>2. IsCut(Cut(buf, p), buf, a, b)
    BY <1>0, <1>1, CutIs
<1>3. IsCut(Cut(new, p), new, a, b)
    BY <1>0, <1>1, CutIs
<1>4. ASSUME NEW i \in 1 .. b PROVE new[a + i] = buf[a + i]
  <2>1. a + i \in 1 .. limit
      BY <1>0
  <2> QED  BY <2>1
<1>5. \A i \in 1 .. b : Cut(new, p)[i] = Cut(buf, p)[i]
    BY <1>2, <1>3, <1>4 DEF IsCut
<1> QED  BY <1>2, <1>3, <1>5, SameSequence DEF IsCut

LEMMA CutNothing ==
    ASSUME NEW buf \in Seq(Nat), NEW at \in Nat, at <= Len(buf)
    PROVE  Cut(buf, <<at, 0>>) = << >>
<1>1. at + 0 <= Len(buf) /\ <<at, 0>>[1] = at /\ <<at, 0>>[2] = 0
    OBVIOUS
<1>2. IsCut(Cut(buf, <<at, 0>>), buf, at, 0)
    BY <1>1, CutIs
<1> QED  BY <1>2 DEF IsCut

(* New bytes at the end of a piece that goes up to the cursor. *)
LEMMA CutGrows ==
    ASSUME NEW buf \in Seq(Nat), NEW new \in Seq(Nat), NEW cur \in Nat, NEW unc \in 0 .. cur,
           NEW bytes \in Seq(Nat), cur <= Len(buf), cur + Len(bytes) <= Len(new),
           \A i \in 1 .. cur : new[i] = buf[i],
           \A i \in 1 .. Len(bytes) : new[cur + i] = bytes[i]
    PROVE  Cut(new, <<cur - unc, unc + Len(bytes)>>) = Cut(buf, <<cur - unc, unc>>) \o bytes
<1> DEFINE p == <<cur - unc, unc + Len(bytes)>>
           q == <<cur - unc, unc>>
           long == Cut(new, p)
           short == Cut(buf, q)
<1>n. PICK n \in Nat, at \in Nat : n = Len(bytes) /\ at = cur - unc /\ at + unc = cur
    OBVIOUS
<1>p. p[1] = at /\ p[2] = unc + n /\ q[1] = at /\ q[2] = unc
    BY <1>n
<1>1. unc \in Nat /\ unc + n \in Nat /\ at + (unc + n) <= Len(new) /\ at + unc <= Len(buf)
    BY <1>n
<1> HIDE DEF p, q
<1>2. /\ short \in Seq(Nat) /\ Len(short) = unc
      /\ \A i \in 1 .. unc : short[i] = buf[at + i]
  <2>1. IsCut(short, buf, at, unc)
      BY <1>1, <1>p, CutIs
  <2> QED  BY <2>1 DEF IsCut
<1>3. /\ long \in Seq(Nat) /\ Len(long) = unc + n
      /\ \A i \in 1 .. unc + n : long[i] = new[at + i]
  <2>1. IsCut(long, new, at, unc + n)
      BY <1>1, <1>p, CutIs
  <2> QED  BY <2>1 DEF IsCut
<1> HIDE DEF long, short
<1>4. /\ short \o bytes \in Seq(Nat) /\ Len(short \o bytes) = unc + n
      /\ \A i \in 1 .. unc : (short \o bytes)[i] = short[i]
      /\ \A i \in 1 .. n : (short \o bytes)[unc + i] = bytes[i]
  <2>1. short \o bytes \in Seq(Nat) /\ IsJoin(short \o bytes, short, bytes)
      BY <1>2, Joined
  <2> QED  BY <1>2, <1>n, <2>1 DEF IsJoin
<1>5. ASSUME NEW i \in 1 .. unc + n PROVE long[i] = (short \o bytes)[i]
  <2>1. CASE i \in 1 .. unc
    <3>1. at + i \in 1 .. cur
        BY <1>n, <2>1
    <3> QED  BY <1>2, <1>3, <1>4, <2>1, <3>1
  <2>2. CASE ~(i \in 1 .. unc)
    <3>1. PICK j \in 1 .. n : i = unc + j
      <4>1. i - unc \in 1 .. n /\ i = unc + (i - unc)
          BY <1>n, <2>2
      <4> QED  BY <4>1
    <3>2. at + i = cur + j /\ j \in 1 .. Len(bytes)
        BY <1>n, <3>1
    <3>3. long[i] = new[cur + j]
        BY <1>3, <3>2
    <3>4. (short \o bytes)[i] = bytes[j]
        BY <1>4, <3>1
    <3> QED  BY <3>2, <3>3, <3>4
  <2> QED  BY <2>1, <2>2
<1> QED  BY <1>3, <1>4, <1>5, SameSequence DEF long, short, p, q

(* The pieces of a range are sequences of bytes. *)
LEMMA PiecesType ==
    ASSUME NEW buf \in Seq(Nat), NEW list, NEW from \in Nat, from > 0, NEW to \in Nat,
           \A i \in from .. to : Cut(buf, list[i]) \in Seq(Nat)
    PROVE  PiecesOf(buf, list, from, to) \in Seq(Nat)
<1> DEFINE S == {n \in Nat : n <= to => PiecesOf(buf, list, from, n) \in Seq(Nat)}
<1>1. 0 \in S
  <2>1. PiecesOf(buf, list, from, 0) = << >>
      BY NoPieces
  <2>2. << >> \in Seq(Nat)
      OBVIOUS
  <2>3. PiecesOf(buf, list, from, 0) \in Seq(Nat)
      BY <2>1, <2>2, Zenon
  <2> QED  BY <2>3
<1>2. ASSUME NEW n \in S PROVE n + 1 \in S
  <2> SUFFICES ASSUME n + 1 <= to PROVE PiecesOf(buf, list, from, n + 1) \in Seq(Nat)
      OBVIOUS
  <2>1. PiecesOf(buf, list, from, n) \in Seq(Nat) /\ n \in Nat
      OBVIOUS
  <2> HIDE DEF S
  <2>2. CASE n + 1 < from
      BY <2>1, <2>2, NoPieces
  <2>3. CASE from <= n + 1
    <3>1. PiecesOf(buf, list, from, n + 1)
             = PiecesOf(buf, list, from, n) \o Cut(buf, list[n + 1])
        BY <2>1, <2>3, NextPieceOf, Zenon
    <3>2. Cut(buf, list[n + 1]) \in Seq(Nat)
        BY <2>1, <2>3
    <3> DEFINE part == PiecesOf(buf, list, from, n)
               cut == Cut(buf, list[n + 1])
    <3>3. part \in Seq(Nat)
        BY <2>1
    <3> HIDE DEF part, cut
    <3>4. part \o cut \in Seq(Nat)
        BY <3>2, <3>3 DEF cut
    <3> QED  BY <3>1, <3>4, Zenon DEF part, cut
  <2> QED  BY <2>1, <2>2, <2>3
<1> HIDE DEF S
<1>3. S = Nat
    BY <1>1, <1>2, Induction DEF S
<1> QED  BY <1>3 DEF S

(* Two lists and buffers with the same pieces in a range. *)
LEMMA PiecesAgree ==
    ASSUME NEW buf, NEW list, NEW new, NEW other, NEW from \in Nat, from > 0, NEW to \in Nat,
           \A i \in from .. to : Cut(new, other[i]) = Cut(buf, list[i])
    PROVE  PiecesOf(new, other, from, to) = PiecesOf(buf, list, from, to)
<1> DEFINE S == {n \in Nat : n <= to =>
                    PiecesOf(new, other, from, n) = PiecesOf(buf, list, from, n)}
<1>1. 0 \in S
    BY NoPieces
<1>2. ASSUME NEW n \in S PROVE n + 1 \in S
  <2> SUFFICES ASSUME n + 1 <= to
               PROVE  PiecesOf(new, other, from, n + 1) = PiecesOf(buf, list, from, n + 1)
      OBVIOUS
  <2>1. /\ PiecesOf(new, other, from, n) = PiecesOf(buf, list, from, n)
        /\ n \in Nat
      OBVIOUS
  <2> HIDE DEF S
  <2>2. CASE n + 1 < from
      BY <2>1, <2>2, NoPieces
  <2>3. CASE from <= n + 1
    <3>1. PiecesOf(buf, list, from, n + 1)
             = PiecesOf(buf, list, from, n) \o Cut(buf, list[n + 1])
        BY <2>1, <2>3, NextPieceOf, ZenonT(40)
    <3>2. PiecesOf(new, other, from, n + 1)
             = PiecesOf(new, other, from, n) \o Cut(new, other[n + 1])
        BY <2>1, <2>3, NextPieceOf, ZenonT(40)
    <3>3. Cut(new, other[n + 1]) = Cut(buf, list[n + 1])
        BY <2>1, <2>3
    <3> QED  BY <2>1, <3>1, <3>2, <3>3
  <2> QED  BY <2>1, <2>2, <2>3
<1> HIDE DEF S
<1>3. S = Nat
    BY <1>1, <1>2, Induction DEF S
<1> QED  BY <1>3 DEF S

(* A range of pieces is two ranges, one after the other. *)
Grown(long, short, bytes) == long = short \o bytes

(* The pieces of a range are bytes, and mid is in it or just before it. *)
Splits(buf, list, from, mid, to) ==
    /\ buf \in Seq(Nat)
    /\ from \in Nat /\ from > 0 /\ mid \in Nat /\ to \in Nat
    /\ from <= mid + 1 /\ mid <= to
    /\ \A i \in from .. to : Cut(buf, list[i]) \in Seq(Nat)

LEMMA PiecesSplit ==
    ASSUME NEW buf, NEW list, NEW from, NEW mid, NEW to, Splits(buf, list, from, mid, to)
    PROVE  Grown(PiecesOf(buf, list, from, to), PiecesOf(buf, list, from, mid),
                 PiecesOf(buf, list, mid + 1, to))
<1>0. /\ buf \in Seq(Nat)
      /\ from \in Nat /\ from > 0 /\ mid \in Nat /\ to \in Nat
      /\ from <= mid + 1 /\ mid <= to
      /\ \A i \in from .. to : Cut(buf, list[i]) \in Seq(Nat)
    BY DEF Splits
<1> USE <1>0
<1> DEFINE Whole(n) == PiecesOf(buf, list, from, n)
           Left == PiecesOf(buf, list, from, mid)
           Right(n) == PiecesOf(buf, list, mid + 1, n)
           S == {n \in Nat : mid <= n /\ n <= to => Whole(n) = Left \o Right(n)}
<1>l. Left \in Seq(Nat)
  <2>1. \A i \in from .. mid : Cut(buf, list[i]) \in Seq(Nat)
      OBVIOUS
  <2> QED  BY <2>1, PiecesType
<1>m. Whole(mid) = Left \o Right(mid)
  <2>1. Right(mid) = << >>
      BY NoPieces
  <2> HIDE DEF Left, Right
  <2> QED  BY <1>l, <2>1 DEF Left
<1>1. 0 \in S
  <2>1. mid <= 0 => mid = 0
      OBVIOUS
  <2> HIDE DEF Whole, Left, Right
  <2> QED  BY <1>m, <2>1
<1>2. ASSUME NEW n \in S PROVE n + 1 \in S
  <2>0. n \in Nat /\ mid + 1 \in Nat /\ mid + 1 > 0
      OBVIOUS
  <2> SUFFICES ASSUME mid <= n + 1, n + 1 <= to PROVE Whole(n + 1) = Left \o Right(n + 1)
      BY <2>0
  <2>i. mid <= n /\ n <= to => Whole(n) = Left \o Right(n)
      OBVIOUS
  <2> HIDE DEF S
  <2>1. CASE mid = n + 1
    <3> HIDE DEF Whole, Left, Right
    <3> QED  BY <1>m, <2>1
  <2>2. CASE mid # n + 1
    <3>1. mid <= n /\ from <= n + 1 /\ mid + 1 <= n + 1 /\ from <= n + 1
        BY <2>0, <2>2
    <3>2. Whole(n) = Left \o Right(n)
        BY <2>0, <2>i, <3>1
    <3>3. PiecesOf(buf, list, from, n + 1)
             = PiecesOf(buf, list, from, n) \o Cut(buf, list[n + 1])
        BY <2>0, <3>1, NextPieceOf, Zenon
    <3>4. PiecesOf(buf, list, mid + 1, n + 1)
             = PiecesOf(buf, list, mid + 1, n) \o Cut(buf, list[n + 1])
        BY <2>0, <3>1, NextPieceOf, Zenon
    <3>5. Right(n) \in Seq(Nat)
      <4>1. \A i \in mid + 1 .. n : Cut(buf, list[i]) \in Seq(Nat)
          BY <2>0
      <4> QED  BY <2>0, <4>1, PiecesType
    <3>6. Cut(buf, list[n + 1]) \in Seq(Nat)
        BY <2>0, <3>1
    <3> HIDE DEF Whole, Left, Right
    <3>7. (Left \o Right(n)) \o Cut(buf, list[n + 1])
             = Left \o (Right(n) \o Cut(buf, list[n + 1]))
      <4>1. PICK a \in Seq(Nat), b \in Seq(Nat), c \in Seq(Nat) :
                   a = Left /\ b = Right(n) /\ c = Cut(buf, list[n + 1])
          BY <1>l, <3>5, <3>6
      <4>2. (a \o b) \o c = a \o (b \o c)
          BY InOrder
      <4> QED  BY <4>1, <4>2
    <3> QED  BY <3>2, <3>3, <3>4, <3>7 DEF Whole, Right
  <2> QED  BY <2>1, <2>2
<1> HIDE DEF S
<1>3. S = Nat
    BY <1>1, <1>2, Induction DEF S
<1>4. Whole(to) = Left \o Right(to)
  <2>1. to \in S /\ mid <= to /\ to <= to
      BY <1>3
  <2> HIDE DEF Whole, Left, Right
  <2> QED  BY <2>1 DEF S
<1> QED  BY <1>4 DEF Grown

-----------------------------------------------------------------------------
(* The pieces and the open levels                                          *)

Covers(p, at) == p[1] <= at /\ at < p[1] + p[2]
Misses(p, at) == at < p[1] \/ p[1] + p[2] <= at

Tiles(list, limit) ==
    \A at \in 0 .. limit - 1 :
        \E i \in 1 .. Len(list) :
            /\ Covers(list[i], at)
            /\ \A j \in 1 .. Len(list) \ {i} : Misses(list[j], at)

(* The open levels point at the holes, in the order they were opened. *)
LevelsOpen(list, stack) ==
    /\ \A k \in 1 .. Len(stack) :
          /\ stack[k][1] \in Nat
          /\ stack[k][2] \in 1 .. Len(list)
          /\ list[stack[k][2]] = Hole
    /\ \A j, k \in 1 .. Len(stack) : j < k => stack[j][2] < stack[k][2]
    /\ \A i \in 1 .. Len(list) :
          list[i] = Hole => \E k \in 1 .. Len(stack) : stack[k][2] = i

(* What is not a hole is a piece of what is committed. *)
PiecesIn(list, limit) ==
    \A i \in 1 .. Len(list) : list[i] = Hole \/ PieceIn(list[i], limit)

Structure(list, stack, limit) ==
    /\ list \in Seq(Pair)
    /\ stack \in Seq(Pair)
    /\ limit \in Nat
    /\ LevelsOpen(list, stack)
    /\ PiecesIn(list, limit)
    /\ Tiles(list, limit)

LEMMA PairIs == \A a, b \in Int : <<a, b>> \in Pair
BY DEF Pair

LEMMA HoleIs == Hole \in Pair /\ Hole[1] = -1 /\ Hole[2] = -1
BY PairIs, -1 \in Int DEF Hole

(* A hole is at no position, and a piece at no position past its limit. *)
LEMMA HoleMisses == \A at \in Nat : Misses(Hole, at) /\ ~Covers(Hole, at)
BY HoleIs DEF Misses, Covers

LEMMA PieceMisses ==
    ASSUME NEW limit \in Nat, NEW p, p = Hole \/ PieceIn(p, limit), NEW at \in Nat, limit <= at
    PROVE  Misses(p, at)
<1>1. CASE p = Hole
    BY <1>1, HoleMisses
<1>2. CASE PieceIn(p, limit)
    BY <1>2 DEF PieceIn, Misses
<1> QED  BY <1>1, <1>2

(* An element at the end of a list. *)
LEMMA Appending ==
    ASSUME NEW S, NEW s \in Seq(S), NEW e \in S
    PROVE  /\ Append(s, e) \in Seq(S)
           /\ Len(Append(s, e)) = Len(s) + 1
           /\ \A i \in 1 .. Len(s) : Append(s, e)[i] = s[i]
           /\ Append(s, e)[Len(s) + 1] = e
OBVIOUS

Commit(list, cur, unc) ==
    IF unc > 0 THEN Append(list, <<cur - unc, unc>>) ELSE list

LEMMA CommittedIs == Committed = Commit(index, cursor, uncommitted)
BY DEF Committed, Commit

LEMMA CommitStructure ==
    ASSUME NEW cur \in Nat, NEW unc \in 0 .. cur, NEW list, NEW stack,
           Structure(list, stack, cur - unc)
    PROVE  Structure(Commit(list, cur, unc), stack, cur)
<1>1. CASE ~(unc > 0)
  <2>1. Commit(list, cur, unc) = list /\ cur - unc = cur
      BY <1>1 DEF Commit
  <2> QED  BY <2>1
<1>2. CASE unc > 0
  <2>1. PICK new : new = Append(list, <<cur - unc, unc>>)
      OBVIOUS
  <2>2. PICK at \in Nat : at = cur - unc /\ at + unc = cur /\ at <= cur
      OBVIOUS
  <2>3. PICK p \in Pair : p = <<at, unc>> /\ p[1] = at /\ p[2] = unc
    <3>1. <<at, unc>> \in Pair
        BY PairIs, at \in Int, unc \in Int
    <3> QED  BY <3>1
  <2>4. /\ list \in Seq(Pair) /\ stack \in Seq(Pair)
        /\ LevelsOpen(list, stack) /\ PiecesIn(list, at) /\ Tiles(list, at)
      BY <2>2 DEF Structure
  <2>5. PICK n \in Nat : n = Len(list)
      BY <2>4
  <2>6. /\ new \in Seq(Pair) /\ Len(new) = n + 1
        /\ \A i \in 1 .. n : new[i] = list[i]
        /\ new[n + 1] = p
      BY <2>1, <2>2, <2>3, <2>4, <2>5, Appending
  <2>7. PieceIn(p, cur) /\ p # Hole
      BY <2>2, <2>3, HoleIs DEF PieceIn
  <2>8. LevelsOpen(new, stack)
    <3>1. /\ \A k \in 1 .. Len(stack) :
                /\ stack[k][1] \in Nat
                /\ stack[k][2] \in 1 .. n
                /\ list[stack[k][2]] = Hole
          /\ \A j, k \in 1 .. Len(stack) : j < k => stack[j][2] < stack[k][2]
          /\ \A i \in 1 .. n : list[i] = Hole => \E k \in 1 .. Len(stack) : stack[k][2] = i
        BY <2>4, <2>5 DEF LevelsOpen
    <3>2. ASSUME NEW k \in 1 .. Len(stack)
          PROVE  /\ stack[k][1] \in Nat /\ stack[k][2] \in 1 .. Len(new)
                 /\ new[stack[k][2]] = Hole
        BY <2>6, <3>1, SMTT(30)
    <3>3. ASSUME NEW i \in 1 .. Len(new), new[i] = Hole
          PROVE  \E k \in 1 .. Len(stack) : stack[k][2] = i
      <4>1. i \in 1 .. n
          BY <2>6, <2>7, <3>3
      <4> QED  BY <2>6, <3>1, <3>3, <4>1
    <3> QED  BY <3>1, <3>2, <3>3 DEF LevelsOpen
  <2>9. PiecesIn(new, cur)
    <3> SUFFICES ASSUME NEW i \in 1 .. n + 1 PROVE new[i] = Hole \/ PieceIn(new[i], cur)
        BY <2>6 DEF PiecesIn
    <3>1. CASE i = n + 1
        BY <2>6, <2>7, <3>1
    <3>2. CASE i # n + 1
      <4>1. i \in 1 .. n /\ new[i] = list[i]
          BY <2>6, <3>2
      <4>2. list[i] = Hole \/ PieceIn(list[i], at)
          BY <2>4, <2>5, <4>1 DEF PiecesIn
      <4> QED  BY <2>2, <4>1, <4>2 DEF PieceIn
    <3> QED  BY <3>1, <3>2
  <2>10. Tiles(new, cur)
    <3> SUFFICES ASSUME NEW x \in 0 .. cur - 1
                 PROVE  \E i \in 1 .. Len(new) :
                            /\ Covers(new[i], x)
                            /\ \A j \in 1 .. Len(new) \ {i} : Misses(new[j], x)
        BY DEF Tiles
    <3>1. CASE x < at
      <4>1. PICK i \in 1 .. n : /\ Covers(list[i], x)
                                /\ \A j \in 1 .. n \ {i} : Misses(list[j], x)
        <5>1. x \in 0 .. at - 1
            BY <3>1, <2>2
        <5> QED  BY <2>4, <2>5, <5>1 DEF Tiles
      <4>2. Misses(p, x)
          BY <2>2, <2>3, <3>1 DEF Misses
      <4>3. i \in 1 .. Len(new) /\ Covers(new[i], x)
          BY <2>6, <4>1
      <4>4. ASSUME NEW j \in 1 .. Len(new) \ {i} PROVE Misses(new[j], x)
        <5>1. CASE j = n + 1
            BY <2>6, <4>2, <5>1
        <5>2. CASE j # n + 1
          <6>1. j \in 1 .. n \ {i}
              BY <2>6, <5>2
          <6> QED  BY <2>6, <4>1, <6>1
        <5> QED  BY <5>1, <5>2
      <4> QED  BY <4>3, <4>4
    <3>2. CASE ~(x < at)
      <4>1. Covers(p, x)
          BY <2>2, <2>3, <3>2 DEF Covers
      <4>2. n + 1 \in 1 .. Len(new) /\ Covers(new[n + 1], x)
          BY <2>6, <4>1
      <4>3. ASSUME NEW j \in 1 .. Len(new) \ {n + 1} PROVE Misses(new[j], x)
        <5>1. j \in 1 .. n /\ new[j] = list[j]
            BY <2>6
        <5>2. list[j] = Hole \/ PieceIn(list[j], at)
            BY <2>4, <2>5, <5>1 DEF PiecesIn
        <5>3. x \in Nat /\ at <= x
            BY <2>2, <3>2
        <5> QED  BY <5>1, <5>2, <5>3, PieceMisses
      <4> QED  BY <4>2, <4>3
    <3> QED  BY <3>1, <3>2
  <2>11. Structure(new, stack, cur)
      BY <2>4, <2>6, <2>8, <2>9, <2>10 DEF Structure
  <2> QED  BY <1>2, <2>1, <2>11 DEF Commit
<1> QED  BY <1>1, <1>2

LEMMA BeginStructure ==
    ASSUME NEW cur \in Nat, NEW list, NEW stack, Structure(list, stack, cur), NEW stash \in Nat
    PROVE  Structure(Append(list, Hole), Append(stack, <<stash, Len(list) + 1>>), cur)
<1>1. /\ list \in Seq(Pair) /\ stack \in Seq(Pair)
      /\ LevelsOpen(list, stack) /\ PiecesIn(list, cur) /\ Tiles(list, cur)
    BY DEF Structure
<1>2. PICK n \in Nat, m \in Nat : n = Len(list) /\ m = Len(stack)
    BY <1>1
<1>3. PICK e \in Pair : e = <<stash, n + 1>> /\ e[1] = stash /\ e[2] = n + 1
  <2>1. <<stash, n + 1>> \in Pair
      BY PairIs, stash \in Int, n + 1 \in Int
  <2> QED  BY <2>1
<1>4. PICK new : new = Append(list, Hole)
    OBVIOUS
<1>5. PICK open : open = Append(stack, e)
    OBVIOUS
<1>6. /\ new \in Seq(Pair) /\ Len(new) = n + 1
      /\ \A i \in 1 .. n : new[i] = list[i]
      /\ new[n + 1] = Hole
    BY <1>1, <1>2, <1>4, Appending, HoleIs
<1>7. /\ open \in Seq(Pair) /\ Len(open) = m + 1
      /\ \A k \in 1 .. m : open[k] = stack[k]
      /\ open[m + 1] = e
    BY <1>1, <1>2, <1>5, Appending
<1>8. /\ \A k \in 1 .. m :
            stack[k][1] \in Nat /\ stack[k][2] \in 1 .. n /\ list[stack[k][2]] = Hole
      /\ \A j, k \in 1 .. m : j < k => stack[j][2] < stack[k][2]
      /\ \A i \in 1 .. n : list[i] = Hole => \E k \in 1 .. m : stack[k][2] = i
    BY <1>1, <1>2 DEF LevelsOpen
<1>9. ASSUME NEW k \in 1 .. m + 1
      PROVE  open[k][1] \in Nat /\ open[k][2] \in 1 .. n + 1 /\ new[open[k][2]] = Hole
  <2>1. CASE k = m + 1
      BY <1>3, <1>6, <1>7, <2>1
  <2>2. CASE k # m + 1
    <3>1. k \in 1 .. m /\ open[k] = stack[k]
        BY <1>7, <2>2
    <3> QED  BY <1>6, <1>8, <3>1
  <2> QED  BY <2>1, <2>2
<1>10. ASSUME NEW j \in 1 .. m + 1, NEW k \in 1 .. m + 1, j < k
       PROVE  open[j][2] < open[k][2]
  <2>1. j \in 1 .. m /\ open[j] = stack[j] /\ stack[j][2] \in 1 .. n
      BY <1>7, <1>8, <1>10
  <2>2. CASE k = m + 1
      BY <1>3, <1>7, <2>1, <2>2
  <2>3. CASE k # m + 1
    <3>1. k \in 1 .. m /\ open[k] = stack[k]
        BY <1>7, <2>3
    <3> QED  BY <1>8, <1>10, <2>1, <3>1
  <2> QED  BY <2>2, <2>3
<1>11. ASSUME NEW i \in 1 .. n + 1, new[i] = Hole PROVE \E k \in 1 .. m + 1 : open[k][2] = i
  <2>1. CASE i = n + 1
    <3>1. m + 1 \in 1 .. m + 1 /\ open[m + 1][2] = n + 1
        BY <1>3, <1>7
    <3> QED  BY <2>1, <3>1
  <2>2. CASE i # n + 1
    <3>1. i \in 1 .. n /\ list[i] = Hole
        BY <1>6, <1>11, <2>2
    <3>2. PICK k \in 1 .. m : stack[k][2] = i
        BY <1>8, <3>1
    <3>3. k \in 1 .. m + 1 /\ open[k][2] = i
        BY <1>7, <3>2
    <3> QED  BY <3>3
  <2> QED  BY <2>1, <2>2
<1>12. LevelsOpen(new, open)
    BY <1>6, <1>7, <1>9, <1>10, <1>11 DEF LevelsOpen
<1>13. PiecesIn(new, cur)
  <2> SUFFICES ASSUME NEW i \in 1 .. n + 1 PROVE new[i] = Hole \/ PieceIn(new[i], cur)
      BY <1>6 DEF PiecesIn
  <2>1. CASE i = n + 1
      BY <1>6, <2>1
  <2>2. CASE i # n + 1
    <3>1. i \in 1 .. n /\ new[i] = list[i]
        BY <1>6, <2>2
    <3> QED  BY <1>1, <1>2, <3>1 DEF PiecesIn
  <2> QED  BY <2>1, <2>2
<1>14. Tiles(new, cur)
  <2> SUFFICES ASSUME NEW x \in 0 .. cur - 1
               PROVE  \E i \in 1 .. Len(new) :
                          /\ Covers(new[i], x)
                          /\ \A j \in 1 .. Len(new) \ {i} : Misses(new[j], x)
      BY DEF Tiles
  <2>1. PICK i \in 1 .. n : /\ Covers(list[i], x)
                            /\ \A j \in 1 .. n \ {i} : Misses(list[j], x)
      BY <1>1, <1>2 DEF Tiles
  <2>2. i \in 1 .. Len(new) /\ Covers(new[i], x)
      BY <1>6, <2>1
  <2>3. ASSUME NEW j \in 1 .. Len(new) \ {i} PROVE Misses(new[j], x)
    <3>1. CASE j = n + 1
        BY <1>6, <3>1, HoleMisses, x \in Nat
    <3>2. CASE j # n + 1
      <4>1. j \in 1 .. n \ {i}
          BY <1>6, <3>2
      <4> QED  BY <1>6, <2>1, <4>1
    <3> QED  BY <3>1, <3>2
  <2> QED  BY <2>2, <2>3
<1>15. Structure(new, open, cur)
    BY <1>6, <1>7, <1>12, <1>13, <1>14 DEF Structure
<1> QED  BY <1>2, <1>3, <1>4, <1>5, <1>15

LEMMA EndStructure ==
    ASSUME NEW cur \in Nat, NEW list, NEW stack, Structure(list, stack, cur), stack # << >>,
           NEW n \in Nat
    PROVE  Structure([list EXCEPT ![stack[Len(stack)][2]] = <<cur, n>>],
                     SubSeq(stack, 1, Len(stack) - 1), cur + n)
<1>1. /\ list \in Seq(Pair) /\ stack \in Seq(Pair)
      /\ LevelsOpen(list, stack) /\ PiecesIn(list, cur) /\ Tiles(list, cur)
    BY DEF Structure
<1>2. PICK l \in Nat, m \in Nat : l = Len(list) /\ m + 1 = Len(stack) /\ Len(stack) - 1 = m
    BY <1>1
<1>3. PICK p \in Pair : p = <<cur, n>> /\ p[1] = cur /\ p[2] = n
  <2>1. <<cur, n>> \in Pair
      BY PairIs, cur \in Int, n \in Int
  <2> QED  BY <2>1
<1>4. /\ \A k \in 1 .. m + 1 :
            stack[k][1] \in Nat /\ stack[k][2] \in 1 .. l /\ list[stack[k][2]] = Hole
      /\ \A j, k \in 1 .. m + 1 : j < k => stack[j][2] < stack[k][2]
      /\ \A i \in 1 .. l : list[i] = Hole => \E k \in 1 .. m + 1 : stack[k][2] = i
    BY <1>1, <1>2 DEF LevelsOpen
<1>5. PICK h \in 1 .. l : h = stack[m + 1][2] /\ list[h] = Hole
    BY <1>4
<1>6. PICK new : new = [list EXCEPT ![h] = p]
    OBVIOUS
<1>7. PICK open : open = SubSeq(stack, 1, m)
    OBVIOUS
<1>8. /\ new \in Seq(Pair) /\ Len(new) = l
      /\ \A i \in 1 .. l : i # h => new[i] = list[i]
      /\ new[h] = p
    BY <1>1, <1>2, <1>6
<1>9. /\ open \in Seq(Pair) /\ Len(open) = m
      /\ \A k \in 1 .. m : open[k] = stack[k]
    BY <1>1, <1>2, <1>7
<1>10. PieceIn(p, cur + n) /\ p # Hole
    BY <1>3, HoleIs DEF PieceIn
<1>11. LevelsOpen(new, open)
  <2>1. ASSUME NEW k \in 1 .. m
        PROVE  open[k][1] \in Nat /\ open[k][2] \in 1 .. l /\ new[open[k][2]] = Hole
    <3>1. stack[k][2] \in 1 .. l /\ stack[k][2] < h /\ list[stack[k][2]] = Hole
        BY <1>4, <1>5
    <3> QED  BY <1>4, <1>8, <1>9, <3>1
  <2>2. ASSUME NEW j \in 1 .. m, NEW k \in 1 .. m, j < k PROVE open[j][2] < open[k][2]
      BY <1>4, <1>9, <2>2
  <2>3. ASSUME NEW i \in 1 .. l, new[i] = Hole PROVE \E k \in 1 .. m : open[k][2] = i
    <3>1. i # h /\ list[i] = Hole
        BY <1>8, <1>10, <2>3
    <3>2. PICK k \in 1 .. m + 1 : stack[k][2] = i
        BY <1>4, <3>1
    <3>3. k \in 1 .. m /\ open[k][2] = i
        BY <1>5, <1>9, <3>1, <3>2
    <3> QED  BY <3>3
  <2> QED  BY <1>8, <1>9, <2>1, <2>2, <2>3 DEF LevelsOpen
<1>12. PiecesIn(new, cur + n)
  <2> SUFFICES ASSUME NEW i \in 1 .. l PROVE new[i] = Hole \/ PieceIn(new[i], cur + n)
      BY <1>8 DEF PiecesIn
  <2>1. CASE i = h
      BY <1>8, <1>10, <2>1
  <2>2. CASE i # h
    <3>1. new[i] = list[i] /\ (list[i] = Hole \/ PieceIn(list[i], cur))
        BY <1>1, <1>2, <1>8, <2>2 DEF PiecesIn
    <3> QED  BY <3>1 DEF PieceIn
  <2> QED  BY <2>1, <2>2
<1>13. Tiles(new, cur + n)
  <2> SUFFICES ASSUME NEW x \in 0 .. (cur + n) - 1
               PROVE  \E i \in 1 .. Len(new) :
                          /\ Covers(new[i], x)
                          /\ \A j \in 1 .. Len(new) \ {i} : Misses(new[j], x)
      BY DEF Tiles
  <2>1. CASE x < cur
    <3>1. PICK i \in 1 .. l : /\ Covers(list[i], x)
                              /\ \A j \in 1 .. l \ {i} : Misses(list[j], x)
      <4>1. x \in 0 .. cur - 1
          BY <2>1
      <4> QED  BY <1>1, <1>2, <4>1 DEF Tiles
    <3>2. i # h
        BY <1>5, <3>1, HoleMisses, x \in Nat
    <3>3. Misses(p, x)
        BY <1>3, <2>1 DEF Misses
    <3>4. i \in 1 .. Len(new) /\ Covers(new[i], x)
        BY <1>8, <3>1, <3>2
    <3>5. ASSUME NEW j \in 1 .. Len(new) \ {i} PROVE Misses(new[j], x)
      <4>1. CASE j = h
          BY <1>8, <3>3, <4>1
      <4>2. CASE j # h
          BY <1>8, <3>1, <4>2
      <4> QED  BY <4>1, <4>2
    <3> QED  BY <3>4, <3>5
  <2>2. CASE ~(x < cur)
    <3>1. h \in 1 .. Len(new) /\ Covers(new[h], x)
        BY <1>3, <1>8, <2>2 DEF Covers
    <3>2. ASSUME NEW j \in 1 .. Len(new) \ {h} PROVE Misses(new[j], x)
      <4>1. j \in 1 .. l /\ new[j] = list[j] /\ (list[j] = Hole \/ PieceIn(list[j], cur))
          BY <1>1, <1>2, <1>8 DEF PiecesIn
      <4>2. x \in Nat /\ cur <= x
          BY <2>2
      <4> QED  BY <4>1, <4>2, PieceMisses
    <3> QED  BY <3>1, <3>2
  <2> QED  BY <2>1, <2>2
<1>14. Structure(new, open, cur + n)
    BY <1>8, <1>9, <1>11, <1>12, <1>13 DEF Structure
<1> QED  BY <1>2, <1>3, <1>5, <1>6, <1>7, <1>14

-----------------------------------------------------------------------------
(* Types, holes and pieces, whatever the capacity                          *)

BaseInv ==
    /\ buffer \in Seq(Nat)
    /\ cursor \in Nat
    /\ written \in Nat
    /\ uncommitted \in 0 .. cursor
    /\ output \in Seq(Nat)
    /\ Structure(index, levelStack, cursor - uncommitted)

LEMMA EmptyStructure == Structure(<< >>, << >>, 0)
<1>1. << >> \in Seq(Pair) /\ Len(<< >>) = 0 /\ 0 \in Nat
    OBVIOUS
<1>2. LevelsOpen(<< >>, << >>)
    BY DEF LevelsOpen
<1>3. PiecesIn(<< >>, 0)
    BY DEF PiecesIn
<1>4. Tiles(<< >>, 0)
    BY DEF Tiles
<1> QED  BY <1>1, <1>2, <1>3, <1>4 DEF Structure

LEMMA EmptyBufferIs == EmptyBuffer \in Seq(Nat) /\ Len(EmptyBuffer) = Capacity
BY CapacityAssumption DEF EmptyBuffer

LEMMA BaseInit == Init => BaseInv
BY EmptyStructure, EmptyBufferIs DEF Init, BaseInv

LEMMA BaseWrite ==
    ASSUME BaseInv, NEW w, Typed(w), NEW n \in Nat, Advances(Here, w, n),
           buffer' = w.buffer, cursor' = w.cursor, uncommitted' = w.count,
           output' = << >>, UNCHANGED <<index, levelStack, written>>
    PROVE  BaseInv'
<1>1. cursor \in Nat /\ uncommitted \in 0 .. cursor
    BY DEF BaseInv
<1>2. cursor' = cursor + n /\ uncommitted' = uncommitted + n
    BY DEF Advances, Here
<1>3. cursor' - uncommitted' = cursor - uncommitted
    BY <1>1, <1>2
<1>4. Structure(index', levelStack', cursor' - uncommitted')
    BY <1>3 DEF BaseInv
<1>5. buffer' \in Seq(Nat) /\ cursor' \in Nat /\ uncommitted' \in 0 .. cursor'
    BY <1>1, <1>2 DEF Typed
<1> QED  BY <1>4, <1>5 DEF BaseInv

LEMMA HereTyped == BaseInv => Typed(Here) /\ Typed([Here EXCEPT !.count = 0])
BY DEF BaseInv, Typed, Here

LEMMA BytesAre == (\A b \in Bytes : b \in Nat) /\ (\A s \in Blocks : s \in Seq(Nat))
BY BytesAssumption

LEMMA CommittedStructure == BaseInv => Structure(Committed, levelStack, cursor)
BY CommitStructure, CommittedIs DEF BaseInv

LEMMA BaseReset == Reset /\ output' \in Seq(Nat) => BaseInv'
<1> SUFFICES ASSUME Reset, output' \in Seq(Nat) PROVE BaseInv'
    OBVIOUS
<1>1. /\ buffer' \in Seq(Nat) /\ cursor' = 0 /\ index' = << >> /\ levelStack' = << >>
      /\ written' = 0 /\ uncommitted' = 0
    BY EmptyBufferIs DEF Reset
<1> QED  BY <1>1, EmptyStructure DEF BaseInv

LEMMA PiecesTyped ==
    ASSUME BaseInv
    PROVE  levelStack = << >> => Pieces(Committed, 1, Len(Committed)) \in Seq(Nat)
<1> SUFFICES ASSUME levelStack = << >>
             PROVE  Pieces(Committed, 1, Len(Committed)) \in Seq(Nat)
    OBVIOUS
<1>1. PICK list : list = Committed
    OBVIOUS
<1>2. list \in Seq(Pair) /\ PiecesIn(list, cursor) /\ LevelsOpen(list, << >>)
    BY <1>1, CommittedStructure DEF Structure
<1>3. PICK n \in Nat : n = Len(list)
    BY <1>2
<1>4. ASSUME NEW i \in 1 .. n PROVE Cut(buffer, list[i]) \in Seq(Nat)
  <2>1. list[i] # Hole
    <3>1. list[i] = Hole => \E k \in 1 .. Len(<< >>) : << >>[k][2] = i
        BY <1>2, <1>3 DEF LevelsOpen
    <3> QED  BY <3>1
  <2>2. PieceIn(list[i], cursor)
      BY <1>2, <1>3, <2>1 DEF PiecesIn
  <2>3. list[i][1] \in Nat /\ list[i][2] \in Nat
      BY <2>2 DEF PieceIn
  <2>4. buffer \in Seq(Nat)
      BY DEF BaseInv
  <2> QED  BY <2>3, <2>4, CutType
<1>5. PiecesOf(buffer, list, 1, n) \in Seq(Nat)
  <2>1. PICK from \in Nat : from = 1 /\ from > 0
      OBVIOUS
  <2>2. buffer \in Seq(Nat) /\ \A i \in from .. n : Cut(buffer, list[i]) \in Seq(Nat)
      BY <1>4, <2>1 DEF BaseInv
  <2>3. PiecesOf(buffer, list, from, n) \in Seq(Nat)
      BY <2>1, <2>2, PiecesType
  <2> QED  BY <2>1, <2>3
<1> QED  BY <1>1, <1>3, <1>5, PiecesIs

LEMMA CollectIs ==
    ASSUME NEW size \in Nat, NEW bytes \in Seq(Nat)
    PROVE  /\ Collect(size, bytes) \in Seq(Nat)
           /\ size = Len(bytes) => Collect(size, bytes) = bytes
<1>1. Collect(size, bytes) \in [1 .. size -> Nat]
    BY DEF Collect
<1>2. Collect(size, bytes) \in Seq(Nat) /\ Len(Collect(size, bytes)) = size
    BY <1>1, Sequence
<1>3. \A i \in 1 .. size : i <= Len(bytes) => Collect(size, bytes)[i] = bytes[i]
    BY DEF Collect
<1> HIDE DEF Collect
<1> QED  BY <1>2, <1>3, SameSequence

LEMMA BaseStep == BaseInv /\ [Next]_vars => BaseInv'
<1> SUFFICES ASSUME BaseInv, [Next]_vars PROVE BaseInv'
    OBVIOUS
<1>t. /\ cursor \in Nat /\ written \in Nat /\ uncommitted \in 0 .. cursor
      /\ buffer \in Seq(Nat)
    BY DEF BaseInv
<1>e. << >> \in Seq(Nat)
    OBVIOUS
<1>s. Structure(Committed, levelStack, cursor)
    BY CommittedStructure
<1>1. ASSUME NEW byte \in Bytes, WriteByte(byte) PROVE BaseInv'
  <2>1. PICK w : w = WriteByteTo(Here, byte)
      OBVIOUS
  <2>2. Typed(w) /\ Advances(Here, w, 1)
      BY <2>1, HereTyped, BytesAre, WriteByteTypes
  <2>3. /\ buffer' = w.buffer /\ cursor' = w.cursor /\ uncommitted' = w.count
        /\ output' = << >> /\ UNCHANGED <<index, levelStack, written>>
      BY <1>1, <2>1 DEF WriteByte, Returns
  <2> QED  BY <2>2, <2>3, BaseWrite, 1 \in Nat
<1>2. ASSUME NEW block \in Blocks, WriteBlock(block) PROVE BaseInv'
  <2>1. PICK w : w = WriteBlockTo(Here, block)
      OBVIOUS
  <2>2. Typed(w) /\ Advances(Here, w, Len(block)) /\ Len(block) \in Nat
      BY <2>1, HereTyped, BytesAre, WriteBlockTypes
  <2>3. /\ buffer' = w.buffer /\ cursor' = w.cursor /\ uncommitted' = w.count
        /\ output' = << >> /\ UNCHANGED <<index, levelStack, written>>
      BY <1>2, <2>1 DEF WriteBlock, Returns
  <2> QED  BY <2>2, <2>3, BaseWrite
<1>3. CASE Begin
  <2>1. /\ levelStack' = Append(levelStack, <<written + uncommitted, Len(Committed) + 1>>)
        /\ index' = Append(Committed, Hole)
        /\ written' = 0 /\ uncommitted' = 0 /\ output' = << >>
        /\ UNCHANGED <<buffer, cursor>>
      BY <1>3 DEF Begin, NextHole, Returns
  <2>2. Structure(index', levelStack', cursor)
      BY <1>s, <1>t, <2>1, BeginStructure, written + uncommitted \in Nat
  <2> QED  BY <1>t, <1>e, <2>1, <2>2 DEF BaseInv
<1>4. CASE End
  <2>0. levelStack # << >>
      BY <1>4 DEF End
  <2>1. PICK length \in Nat : length = written + uncommitted
      BY <1>t
  <2>2. PICK w : w = WriteBytesTo([Here EXCEPT !.count = 0], VarintOf[length])
      OBVIOUS
  <2>3. PICK top \in Pair : top = levelStack[Len(levelStack)] /\ top[1] \in Nat
    <3>1. levelStack \in Seq(Pair) /\ LevelsOpen(Committed, levelStack)
        BY <1>s DEF Structure
    <3>2. Len(levelStack) \in 1 .. Len(levelStack)
        BY <2>0, <3>1
    <3> QED  BY <3>1, <3>2 DEF LevelsOpen
  <2>4. /\ Typed(w) /\ VarintOf[length] \in Seq(Nat)
        /\ Advances([Here EXCEPT !.count = 0], w, Len(VarintOf[length]))
      BY <2>2, HereTyped, VarintType, WriteBytesTypes
  <2>5. w.count \in Nat /\ w.cursor = cursor + w.count
    <3>1. Len(VarintOf[length]) \in Nat
        BY <2>4
    <3> QED  BY <2>4, <3>1 DEF Advances, Here
  <2>6. /\ index' = [Committed EXCEPT ![top[2]] = <<cursor, w.count>>]
        /\ written' = OuterWritten(top[1], w.count, length)
        /\ buffer' = w.buffer /\ cursor' = w.cursor
        /\ levelStack' = SubSeq(levelStack, 1, Len(levelStack) - 1)
        /\ uncommitted' = 0 /\ output' = << >>
      BY <1>4, <2>1, <2>2, <2>3 DEF End, Returns
  <2>7. Structure(index', levelStack', cursor')
      BY <1>s, <1>t, <2>0, <2>3, <2>5, <2>6, EndStructure
  <2>8. written' \in Nat
      BY <2>1, <2>3, <2>5, <2>6 DEF OuterWritten
  <2>9. buffer' \in Seq(Nat) /\ cursor' \in Nat /\ cursor' - uncommitted' = cursor'
      BY <2>4, <2>6 DEF Typed
  <2> QED  BY <1>e, <2>6, <2>7, <2>8, <2>9 DEF BaseInv
<1>5. CASE EndThrows
  <2>1. /\ index' = Committed /\ written' = written + uncommitted /\ uncommitted' = 0
        /\ output' = << >> /\ UNCHANGED <<buffer, cursor, levelStack>>
      BY <1>5 DEF EndThrows, Returns
  <2>2. Structure(index', levelStack', cursor)
      BY <1>s, <2>1
  <2> QED  BY <1>t, <1>e, <2>1, <2>2 DEF BaseInv
<1>6. CASE Finish
  <2>1. output' \in Seq(Nat)
      BY <1>6, <1>t, PiecesTyped, CollectIs, written + uncommitted \in Nat DEF Finish, Returns
  <2> QED  BY <1>6, <2>1, BaseReset DEF Finish
<1>7. CASE FinishThrows
    BY <1>7, <1>e DEF FinishThrows, Returns, BaseInv
<1>8. CASE Clear
    BY <1>8, <1>e, BaseReset DEF Clear, Returns
<1>9. CASE UNCHANGED vars
    BY <1>9 DEF vars, BaseInv
<1> QED  BY <1>1, <1>2, <1>3, <1>4, <1>5, <1>6, <1>7, <1>8, <1>9 DEF Next

LEMMA BaseCorrect == Spec => []BaseInv
<1>1. Init => BaseInv
    BY BaseInit
<1>2. BaseInv /\ [Next]_vars => BaseInv'
    BY BaseStep
<1> QED  BY <1>1, <1>2, PTL DEF Spec

(* The variables keep their types, for any sequence of operations and any  *)
(* capacity of the permanent buffer.                                       *)
THEOREM NestingWriterTypes == Spec => []TypeOK
<1>1. BaseInv => TypeOK
    BY DEF BaseInv, Structure, TypeOK
<1> QED  BY <1>1, BaseCorrect, PTL

(* begin and end keep the holes of index and the open levels together: a   *)
(* level that is open has exactly one hole, in the order of the levels, so *)
(* end fills the right one.                                                *)
THEOREM HolesFollowLevels == Spec => []HolesAreOpen
<1>1. BaseInv => HolesAreOpen
  <2> SUFFICES ASSUME BaseInv PROVE HolesAreOpen
      OBVIOUS
  <2>1. levelStack \in Seq(Pair) /\ LevelsOpen(index, levelStack)
      BY DEF BaseInv, Structure
  <2>2. ASSUME NEW i \in 1 .. Len(index)
        PROVE  index[i] = Hole <=> \E k \in 1 .. Depth : levelStack[k][2] = i
      BY <2>1 DEF LevelsOpen, Depth
  <2>3. ASSUME NEW k \in 2 .. Depth PROVE levelStack[k - 1][2] < levelStack[k][2]
    <3>1. k - 1 \in 1 .. Depth /\ k \in 1 .. Depth /\ k - 1 < k
        BY <2>1 DEF Depth
    <3> QED  BY <2>1, <3>1 DEF LevelsOpen, Depth
  <2> QED  BY <2>2, <2>3 DEF HolesAreOpen
<1> QED  BY <1>1, BaseCorrect, PTL

(* Every committed byte belongs to exactly one piece of index: finish      *)
(* dumps each once, in whatever order begin and end were called.           *)
THEOREM PiecesCoverOnce == Spec => []PiecesTile
<1>1. BaseInv => PiecesTile
    BY DEF BaseInv, Structure, Tiles, Covers, Misses, PiecesTile
<1> QED  BY <1>1, BaseCorrect, PTL

-----------------------------------------------------------------------------
(* The bytes of the levels                                                 *)

FirstOf(stack, k) == IF k = 0 THEN 1 ELSE stack[k][2] + 1
LastOf(list, stack, k) == IF k = Len(stack) THEN Len(list) ELSE stack[k + 1][2] - 1
TailOf(buf, cur, stack, unc, k) ==
    IF k = Len(stack) THEN Cut(buf, <<cur - unc, unc>>) ELSE << >>
LevelOf(buf, cur, list, stack, unc, k) ==
    PiecesOf(buf, list, FirstOf(stack, k), LastOf(list, stack, k))
    \o TailOf(buf, cur, stack, unc, k)

LEMMA LevelBytesIs ==
    \A k : LevelBytes(k) = LevelOf(buffer, cursor, index, levelStack, uncommitted, k)
<1> SUFFICES ASSUME NEW k
             PROVE LevelBytes(k) = LevelOf(buffer, cursor, index, levelStack, uncommitted, k)
    OBVIOUS
<1>1. FirstPiece(k) = FirstOf(levelStack, k) /\ LastPiece(k) = LastOf(index, levelStack, k)
    BY DEF FirstPiece, FirstOf, LastPiece, LastOf, Depth
<1>2. (IF k = Depth THEN Piece(<<cursor - uncommitted, uncommitted>>) ELSE << >>)
         = TailOf(buffer, cursor, levelStack, uncommitted, k)
    BY PieceIs DEF TailOf, Depth
<1> QED  BY <1>1, <1>2, PiecesIs DEF LevelBytes, LevelOf

(* The pieces of a level lie between its hole and the next one, and none   *)
(* of them is a hole.                                                      *)
RangeFits(list, limit, from, to) ==
    /\ from \in Nat /\ from > 0
    /\ to \in Nat /\ to <= Len(list)
    /\ from <= to + 1
    /\ \A i \in from .. to : PieceIn(list[i], limit)

LEMMA RangeOf ==
    ASSUME NEW limit, NEW list, NEW stack, Structure(list, stack, limit),
           NEW k \in 0 .. Len(stack)
    PROVE  RangeFits(list, limit, FirstOf(stack, k), LastOf(list, stack, k))
<1> DEFINE from == FirstOf(stack, k)
           to == LastOf(list, stack, k)
<1>1. list \in Seq(Pair) /\ stack \in Seq(Pair) /\ PiecesIn(list, limit)
    BY DEF Structure
<1>2. PICK n \in Nat, m \in Nat : n = Len(list) /\ m = Len(stack)
    BY <1>1
<1>3. /\ \A j \in 1 .. m :
            stack[j][1] \in Nat /\ stack[j][2] \in 1 .. n /\ list[stack[j][2]] = Hole
      /\ \A i, j \in 1 .. m : i < j => stack[i][2] < stack[j][2]
      /\ \A i \in 1 .. n : list[i] = Hole => \E j \in 1 .. m : stack[j][2] = i
    BY <1>2 DEF Structure, LevelsOpen
<1>4. k = 0 => from = 1
    BY DEF FirstOf
<1>5. k # 0 => k \in 1 .. m /\ from = stack[k][2] + 1 /\ stack[k][2] \in 1 .. n
    BY <1>2, <1>3 DEF FirstOf
<1>6. k = m => to = n
    BY <1>2 DEF LastOf
<1>7. k # m => k + 1 \in 1 .. m /\ to = stack[k + 1][2] - 1 /\ stack[k + 1][2] \in 1 .. n
    BY <1>2, <1>3 DEF LastOf
<1>8. k # 0 /\ k # m => stack[k][2] < stack[k + 1][2]
    BY <1>3, <1>5, <1>7, k < k + 1
<1> HIDE DEF from, to
<1>9. from \in Nat /\ from > 0 /\ to \in Nat /\ to <= n /\ from <= to + 1
  <2>1. CASE k = 0 /\ k = m
      BY <1>2, <1>4, <1>6, <2>1
  <2>2. CASE k = 0 /\ k # m
      BY <1>2, <1>4, <1>7, <2>2
  <2>3. CASE k # 0 /\ k = m
      BY <1>2, <1>5, <1>6, <2>3
  <2>4. CASE k # 0 /\ k # m
    <3>1. PICK a \in 1 .. n, b \in 1 .. n : a = stack[k][2] /\ b = stack[k + 1][2]
        BY <1>5, <1>7, <2>4
    <3>2. from = a + 1 /\ to = b - 1 /\ a < b
        BY <1>5, <1>7, <1>8, <2>4, <3>1
    <3> QED  BY <3>2
  <2> QED  BY <2>1, <2>2, <2>3, <2>4
<1>10. ASSUME NEW i \in from .. to PROVE PieceIn(list[i], limit)
  <2>1. i \in 1 .. n
      BY <1>9
  <2>2. list[i] # Hole
    <3> SUFFICES ASSUME list[i] = Hole PROVE FALSE
        OBVIOUS
    <3>1. PICK j \in 1 .. m : stack[j][2] = i
        BY <1>3, <2>1
    <3>2. CASE j <= k
      <4>1. k # 0 /\ stack[k][2] < i
          BY <1>5, <1>9, <3>2
      <4>2. j = k \/ stack[j][2] < stack[k][2]
          BY <1>3, <1>5, <3>2, <4>1
      <4> QED  BY <1>5, <3>1, <4>1, <4>2, <2>1
    <3>3. CASE ~(j <= k)
      <4>1. k # m /\ i < stack[k + 1][2]
          BY <1>2, <1>7, <1>9, <3>3
      <4>2. j = k + 1 \/ stack[k + 1][2] < stack[j][2]
          BY <1>3, <1>7, <3>3, <4>1
      <4> QED  BY <1>7, <3>1, <4>1, <4>2, <2>1
    <3> QED  BY <3>2, <3>3
  <2> QED  BY <1>1, <1>2, <2>1, <2>2 DEF PiecesIn
<1> QED  BY <1>2, <1>9, <1>10 DEF RangeFits, from, to

(* A range of pieces in a buffer that holds them all. *)
LEMMA RangeType ==
    ASSUME NEW buf \in Seq(Nat), NEW limit \in Nat, NEW list,
           NEW from, NEW to, RangeFits(list, limit, from, to)
    PROVE  /\ PiecesOf(buf, list, from, to) \in Seq(Nat)
           /\ \A i \in from .. to : Cut(buf, list[i]) \in Seq(Nat)
<1>1. /\ from \in Nat /\ from > 0 /\ to \in Nat
      /\ \A i \in from .. to : PieceIn(list[i], limit)
    BY DEF RangeFits
<1>2. ASSUME NEW i \in from .. to PROVE Cut(buf, list[i]) \in Seq(Nat)
    BY <1>1, CutType DEF PieceIn
<1> QED  BY <1>1, <1>2, PiecesType

(* A second buffer with the same bytes up to limit, a second list with the *)
(* same pieces in a range.                                                 *)
Keeps(buf, new, limit) ==
    /\ buf \in Seq(Nat) /\ new \in Seq(Nat)
    /\ limit \in Nat /\ limit <= Len(buf) /\ limit <= Len(new)
    /\ \A i \in 1 .. limit : new[i] = buf[i]

SameRange(list, other, from, to) == \A i \in from .. to : other[i] = list[i]

LEMMA KeepsLess ==
    ASSUME NEW buf, NEW new, NEW limit, Keeps(buf, new, limit),
           NEW less \in Nat, less <= limit
    PROVE  Keeps(buf, new, less)
BY DEF Keeps

LEMMA RangeAgree ==
    ASSUME NEW buf, NEW new, NEW limit, Keeps(buf, new, limit),
           NEW list, NEW other, NEW from, NEW to, SameRange(list, other, from, to),
           RangeFits(list, limit, from, to)
    PROVE  PiecesOf(new, other, from, to) = PiecesOf(buf, list, from, to)
<1>1. /\ from \in Nat /\ from > 0 /\ to \in Nat
      /\ \A i \in from .. to : PieceIn(list[i], limit)
    BY DEF RangeFits
<1>2. ASSUME NEW i \in from .. to PROVE Cut(new, other[i]) = Cut(buf, list[i])
  <2>1. PICK p : p = list[i] /\ PieceIn(p, limit)
      BY <1>1
  <2>2. Cut(new, p) = Cut(buf, p)
      BY <2>1, CutAgree DEF Keeps
  <2>3. other[i] = p
      BY <2>1 DEF SameRange
  <2> QED  BY <2>1, <2>2, <2>3
<1> QED  BY <1>1, <1>2, PiecesAgree

(* The buffer holds the bytes up to the cursor. *)
Holds(buf, cur, unc) ==
    /\ buf \in Seq(Nat)
    /\ cur \in Nat /\ cur <= Len(buf)
    /\ unc \in 0 .. cur

LEMMA TailType ==
    ASSUME NEW buf, NEW cur, NEW unc, Holds(buf, cur, unc), NEW stack, NEW k
    PROVE  TailOf(buf, cur, stack, unc, k) \in Seq(Nat)
<1>1. buf \in Seq(Nat) /\ cur - unc \in Nat /\ unc \in Nat
    BY DEF Holds
<1> DEFINE p == <<cur - unc, unc>>
<1>2. p[1] = cur - unc /\ p[2] = unc
    OBVIOUS
<1> HIDE DEF p
<1>3. Cut(buf, p) \in Seq(Nat)
    BY <1>1, <1>2, CutType
<1>4. << >> \in Seq(Nat)
    OBVIOUS
<1> QED  BY <1>3, <1>4 DEF TailOf, p

LEMMA NoTail ==
    ASSUME NEW buf, NEW cur, Holds(buf, cur, 0), NEW stack, NEW k
    PROVE  TailOf(buf, cur, stack, 0, k) = << >>
<1>1. Cut(buf, <<cur, 0>>) = << >> /\ cur - 0 = cur
    BY CutNothing DEF Holds
<1> QED  BY <1>1 DEF TailOf

LEMMA LevelType ==
    ASSUME NEW buf, NEW cur, NEW unc, Holds(buf, cur, unc), NEW list, NEW stack,
           Structure(list, stack, cur - unc), NEW k \in 0 .. Len(stack)
    PROVE  /\ LevelOf(buf, cur, list, stack, unc, k) \in Seq(Nat)
           /\ PiecesOf(buf, list, FirstOf(stack, k), LastOf(list, stack, k)) \in Seq(Nat)
           /\ TailOf(buf, cur, stack, unc, k) \in Seq(Nat)
<1>1. TailOf(buf, cur, stack, unc, k) \in Seq(Nat)
    BY TailType
<1>2. PiecesOf(buf, list, FirstOf(stack, k), LastOf(list, stack, k)) \in Seq(Nat)
  <2>1. RangeFits(list, cur - unc, FirstOf(stack, k), LastOf(list, stack, k))
      BY RangeOf
  <2>2. buf \in Seq(Nat) /\ cur - unc \in Nat
      BY DEF Holds
  <2> QED  BY <2>1, <2>2, RangeType
<1> DEFINE a == PiecesOf(buf, list, FirstOf(stack, k), LastOf(list, stack, k))
           b == TailOf(buf, cur, stack, unc, k)
<1>3. LevelOf(buf, cur, list, stack, unc, k) = a \o b
    BY DEF LevelOf
<1>4. a \in Seq(Nat) /\ b \in Seq(Nat)
    BY <1>1, <1>2
<1> HIDE DEF a, b
<1>5. a \o b \in Seq(Nat)
    BY <1>4
<1>6. LevelOf(buf, cur, list, stack, unc, k) \in Seq(Nat)
    BY <1>3, <1>5
<1> QED  BY <1>1, <1>2, <1>6

LEMMA WithNothing == \A s \in Seq(Nat) : s \o << >> = s /\ << >> \o s = s
OBVIOUS

LEMMA Joining == \A a \in Seq(Nat), b \in Seq(Nat) :
                    a \o b \in Seq(Nat) /\ Len(a \o b) = Len(a) + Len(b)
OBVIOUS

(* commit moves the uncommitted bytes from the tail of the innermost level *)
(* to a piece of it: no level changes.                                     *)
LEMMA LevelCommit ==
    ASSUME NEW buf, NEW cur, NEW unc, Holds(buf, cur, unc), NEW list, NEW stack,
           Structure(list, stack, cur - unc), NEW k \in 0 .. Len(stack)
    PROVE  LevelOf(buf, cur, Commit(list, cur, unc), stack, 0, k)
              = LevelOf(buf, cur, list, stack, unc, k)
<1>0. /\ buf \in Seq(Nat) /\ cur \in Nat /\ cur <= Len(buf) /\ unc \in Nat
      /\ cur - unc \in Nat /\ cur - unc <= Len(buf)
    BY DEF Holds
<1>1. CASE ~(unc > 0)
  <2>1. Commit(list, cur, unc) = list /\ unc = 0
      BY <1>0, <1>1 DEF Commit
  <2> QED  BY <2>1
<1>2. CASE unc > 0
  <2>1. PICK new : new = Append(list, <<cur - unc, unc>>)
      OBVIOUS
  <2>2. Commit(list, cur, unc) = new
      BY <1>2, <2>1 DEF Commit
  <2>3. list \in Seq(Pair) /\ stack \in Seq(Pair)
      BY DEF Structure
  <2>4. PICK n \in Nat, m \in Nat : n = Len(list) /\ m = Len(stack)
      BY <2>3
  <2> DEFINE p == <<cur - unc, unc>>
             from == FirstOf(stack, k)
             to == LastOf(list, stack, k)
  <2>5. /\ Len(new) = n + 1 /\ \A i \in 1 .. n : new[i] = list[i]
        /\ new[n + 1] = p
    <3>1. p \in Pair
      <4>1. cur - unc \in Int /\ unc \in Int
          BY <1>0
      <4> QED  BY <4>1, PairIs
    <3> HIDE DEF p
    <3>2. new = Append(list, p)
        BY <2>1 DEF p
    <3> QED  BY <2>3, <2>4, <3>1, <3>2, Appending
  <2>6. RangeFits(list, cur - unc, from, to)
      BY RangeOf
  <2> HIDE DEF from, to, p
  <2>7. from \in Nat /\ from > 0 /\ to \in Nat /\ to <= n /\ from <= to + 1
      BY <2>4, <2>6 DEF RangeFits
  <2>8. PiecesOf(buf, new, from, to) = PiecesOf(buf, list, from, to)
    <3>1. SameRange(list, new, from, to) /\ Keeps(buf, buf, cur - unc)
        BY <1>0, <2>5, <2>7 DEF SameRange, Keeps
    <3> QED  BY <2>6, <3>1, RangeAgree
  <2>9. PiecesOf(buf, list, from, to) \in Seq(Nat) /\ TailOf(buf, cur, stack, unc, k) \in Seq(Nat)
      BY LevelType DEF from, to
  <2>10. TailOf(buf, cur, stack, 0, k) = << >>
      BY <1>0, NoTail DEF Holds
  <2>11. CASE k = m
    <3>1. to = n /\ LastOf(new, stack, k) = n + 1
        BY <2>4, <2>5, <2>11 DEF to, LastOf
    <3>2. PiecesOf(buf, new, from, n + 1) = PiecesOf(buf, new, from, n) \o Cut(buf, new[n + 1])
        BY <2>7, <3>1, NextPieceOf, Zenon
    <3>3. TailOf(buf, cur, stack, unc, k) = Cut(buf, p)
        BY <2>4, <2>11 DEF TailOf, p
    <3> DEFINE a == PiecesOf(buf, list, from, n)
               b == Cut(buf, p)
    <3>4. a \in Seq(Nat) /\ b \in Seq(Nat)
        BY <2>9, <3>1, <3>3
    <3>5. PiecesOf(buf, new, from, n + 1) = a \o b
        BY <2>5, <2>8, <3>1, <3>2
    <3>6. LevelOf(buf, cur, new, stack, 0, k) = PiecesOf(buf, new, from, n + 1) \o << >>
        BY <2>10, <3>1 DEF LevelOf, from
    <3>7. LevelOf(buf, cur, list, stack, unc, k) = a \o b
        BY <3>1, <3>3 DEF LevelOf, from, to
    <3> HIDE DEF a, b
    <3>8. (a \o b) \o << >> = a \o b
        BY <3>4, WithNothing, Joining
    <3> QED  BY <2>2, <3>5, <3>6, <3>7, <3>8
  <2>12. CASE k # m
    <3>1. LastOf(new, stack, k) = to
        BY <2>4, <2>12 DEF to, LastOf
    <3>2. TailOf(buf, cur, stack, unc, k) = << >>
        BY <2>4, <2>12 DEF TailOf
    <3> QED  BY <2>2, <2>8, <2>10, <3>1, <3>2 DEF LevelOf, from, to
  <2> QED  BY <2>11, <2>12
<1> QED  BY <1>1, <1>2

(* A buffer with the bytes of another up to the cursor, and more after. *)
Extends(buf, cur, new, bytes) ==
    /\ Keeps(buf, new, cur)
    /\ bytes \in Seq(Nat)
    /\ cur + Len(bytes) <= Len(new)
    /\ \A i \in 1 .. Len(bytes) : new[cur + i] = bytes[i]

LEMMA TailGrows ==
    ASSUME NEW buf, NEW cur, NEW new, NEW bytes, Extends(buf, cur, new, bytes),
           NEW unc, unc \in 0 .. cur
    PROVE  Grown(Cut(new, <<cur - unc, unc + Len(bytes)>>), Cut(buf, <<cur - unc, unc>>), bytes)
<1>1. buf \in Seq(Nat) /\ new \in Seq(Nat) /\ cur \in Nat /\ bytes \in Seq(Nat)
    BY DEF Extends, Keeps
<1>2. cur <= Len(buf) /\ cur + Len(bytes) <= Len(new)
    BY DEF Extends, Keeps
<1>3. \A i \in 1 .. cur : new[i] = buf[i]
    BY DEF Extends, Keeps
<1>4. \A i \in 1 .. Len(bytes) : new[cur + i] = bytes[i]
    BY DEF Extends
<1>5. Cut(new, <<cur - unc, unc + Len(bytes)>>) = Cut(buf, <<cur - unc, unc>>) \o bytes
    BY <1>1, <1>2, <1>3, <1>4, CutGrows
<1> QED  BY <1>5 DEF Grown

(* Bytes written at the cursor go to the end of the innermost level. *)
LEMMA LevelWrite ==
    ASSUME NEW buf, NEW cur, NEW unc, Holds(buf, cur, unc), NEW list, NEW stack,
           Structure(list, stack, cur - unc), NEW k \in 0 .. Len(stack),
           NEW bytes, NEW n \in Nat, n = Len(bytes), NEW new, Extends(buf, cur, new, bytes)
    PROVE  LevelOf(new, cur + n, list, stack, unc + n, k)
              = IF k = Len(stack) THEN LevelOf(buf, cur, list, stack, unc, k) \o bytes
                                  ELSE LevelOf(buf, cur, list, stack, unc, k)
<1>0. /\ buf \in Seq(Nat) /\ cur \in Nat /\ cur <= Len(buf) /\ unc \in 0 .. cur /\ unc \in Nat
      /\ cur - unc \in Nat /\ cur - unc <= cur
      /\ (cur + n) - (unc + n) = cur - unc
    BY DEF Holds
<1> DEFINE from == FirstOf(stack, k)
           to == LastOf(list, stack, k)
           a == PiecesOf(buf, list, from, to)
<1>1. RangeFits(list, cur - unc, from, to)
    BY RangeOf
<1> HIDE DEF from, to
<1>2. PiecesOf(new, list, from, to) = a
  <2>1. Keeps(buf, new, cur - unc)
      BY <1>0, KeepsLess DEF Extends
  <2>2. SameRange(list, list, from, to)
      BY DEF SameRange
  <2> QED  BY <1>1, <2>1, <2>2, RangeAgree
<1>3. a \in Seq(Nat)
    BY LevelType DEF from, to
<1>4. CASE k = Len(stack)
  <2> DEFINE b == Cut(buf, <<cur - unc, unc>>)
             c == Cut(new, <<cur - unc, unc + n>>)
  <2>1. c = b \o bytes
    <3>1. Grown(Cut(new, <<cur - unc, unc + Len(bytes)>>), b, bytes)
        BY <1>0, TailGrows
    <3>2. unc + n = unc + Len(bytes)
        OBVIOUS
    <3> QED  BY <3>1, <3>2 DEF Grown
  <2>2. b \in Seq(Nat)
    <3>1. TailOf(buf, cur, stack, unc, k) = b
        BY <1>4 DEF TailOf
    <3> QED  BY <3>1, TailType
  <2>3. LevelOf(buf, cur, list, stack, unc, k) = a \o b
      BY <1>4 DEF LevelOf, TailOf, from, to
  <2>4. LevelOf(new, cur + n, list, stack, unc + n, k) = a \o c
    <3>1. TailOf(new, cur + n, stack, unc + n, k) = c
        BY <1>0, <1>4 DEF TailOf
    <3> HIDE DEF a, c
    <3> QED  BY <1>2, <3>1 DEF LevelOf, from, to
  <2> HIDE DEF a, b, c
  <2>5. (a \o b) \o bytes = a \o (b \o bytes)
      BY <1>3, <2>2, InOrder DEF Extends
  <2> QED  BY <1>4, <2>1, <2>3, <2>4, <2>5
<1>5. CASE k # Len(stack)
    BY <1>2, <1>5 DEF LevelOf, TailOf, from, to
<1> QED  BY <1>4, <1>5

(* begin opens an empty level and leaves the others as they are. *)
LEMMA LevelBegin ==
    ASSUME NEW buf, NEW cur, Holds(buf, cur, 0), NEW list, NEW stack,
           Structure(list, stack, cur), NEW stash \in Nat,
           NEW m \in Nat, m = Len(stack), NEW k \in 0 .. m + 1
    PROVE  LevelOf(buf, cur, Append(list, Hole), Append(stack, <<stash, Len(list) + 1>>), 0, k)
              = IF k = m + 1 THEN << >> ELSE LevelOf(buf, cur, list, stack, 0, k)
<1>0. buf \in Seq(Nat) /\ cur \in Nat /\ cur <= Len(buf) /\ cur - 0 = cur
    BY DEF Holds
<1>1. list \in Seq(Pair) /\ stack \in Seq(Pair)
    BY DEF Structure
<1>2. PICK n \in Nat : n = Len(list)
    BY <1>1
<1>3. PICK e \in Pair : e = <<stash, n + 1>> /\ e[2] = n + 1
  <2>1. <<stash, n + 1>> \in Pair
      BY PairIs, stash \in Int, n + 1 \in Int
  <2> QED  BY <2>1
<1>4. PICK new : new = Append(list, Hole)
    OBVIOUS
<1>5. PICK open : open = Append(stack, e)
    OBVIOUS
<1>6. Len(new) = n + 1 /\ \A i \in 1 .. n : new[i] = list[i]
    BY <1>1, <1>2, <1>4, Appending, HoleIs
<1>7. Len(open) = m + 1 /\ (\A i \in 1 .. m : open[i] = stack[i]) /\ open[m + 1] = e
    BY <1>1, <1>5, Appending
<1>8. TailOf(buf, cur, open, 0, k) = << >> /\ TailOf(buf, cur, stack, 0, k) = << >>
    BY NoTail
<1>9. CASE k = m + 1
  <2>1. FirstOf(open, k) = n + 2 /\ LastOf(new, open, k) = n + 1
      BY <1>3, <1>6, <1>7, <1>9 DEF FirstOf, LastOf
  <2>2. PiecesOf(buf, new, n + 2, n + 1) = << >>
      BY NoPieces
  <2>3. LevelOf(buf, cur, new, open, 0, k) = << >> \o << >>
      BY <1>8, <2>1, <2>2 DEF LevelOf
  <2>4. << >> \o << >> = << >>
      BY WithNothing, << >> \in Seq(Nat)
  <2> QED  BY <1>2, <1>3, <1>4, <1>5, <1>9, <2>3, <2>4
<1>10. CASE k # m + 1
  <2>1. k \in 0 .. m
      BY <1>10
  <2> DEFINE from == FirstOf(stack, k)
             to == LastOf(list, stack, k)
  <2>2. RangeFits(list, cur, from, to)
      BY <2>1, RangeOf
  <2>3. FirstOf(open, k) = from
      BY <1>7, <2>1 DEF FirstOf
  <2>4. LastOf(new, open, k) = to
    <3>1. CASE k = m
      <4>1. to = n /\ open[k + 1] = e /\ k # m + 1
          BY <1>2, <1>7, <3>1 DEF LastOf
      <4>2. LastOf(new, open, k) = (n + 1) - 1
          BY <1>3, <1>7, <4>1 DEF LastOf
      <4> QED  BY <4>1, <4>2
    <3>2. CASE k # m
      <4>1. k + 1 \in 1 .. m /\ open[k + 1] = stack[k + 1]
          BY <1>7, <2>1, <3>2
      <4> QED  BY <1>7, <1>10, <3>2, <4>1 DEF LastOf
    <3> QED  BY <3>1, <3>2
  <2> HIDE DEF from, to
  <2>5. PiecesOf(buf, new, from, to) = PiecesOf(buf, list, from, to)
    <3>1. Keeps(buf, buf, cur)
        BY <1>0 DEF Keeps
    <3>2. from \in Nat /\ from > 0 /\ to \in Int /\ to <= n
        BY <1>2, <2>2 DEF RangeFits
    <3>3. \A i \in from .. to : i \in 1 .. n
        BY <3>2
    <3>4. SameRange(list, new, from, to)
        BY <1>6, <3>3 DEF SameRange
    <3> QED  BY <2>2, <3>1, <3>4, RangeAgree
  <2>6. LevelOf(buf, cur, new, open, 0, k) = LevelOf(buf, cur, list, stack, 0, k)
      BY <1>8, <2>3, <2>4, <2>5 DEF LevelOf, from, to
  <2> QED  BY <1>2, <1>3, <1>4, <1>5, <1>10, <2>6
<1> QED  BY <1>9, <1>10

LEMMA NextGrown ==
    ASSUME NEW buf, NEW list, NEW from \in Nat, from > 0, NEW n \in Nat, from <= n + 1
    PROVE  Grown(PiecesOf(buf, list, from, n + 1), PiecesOf(buf, list, from, n),
                 Cut(buf, list[n + 1]))
BY NextPieceOf, Zenon DEF Grown

(* end: the inner level follows its length, at the end of the outer one. *)
Closed(all, outer, bytes, inner) == all = (outer \o bytes) \o inner

(* The list and the stack that end leaves. *)
Filled(list, stack, cur, n, m, out, open) ==
    /\ out = [list EXCEPT ![stack[m + 1][2]] = <<cur, n>>]
    /\ open = SubSeq(stack, 1, m)

FilledOut(list, stack, cur, n, m, out, open, l, h) ==
    /\ h \in 1 .. l
    /\ h = stack[m + 1][2]
    /\ Len(list) = l /\ Len(out) = l
    /\ \A i \in 1 .. l : i # h => out[i] = list[i]
    /\ out[h] = <<cur, n>>
    /\ Len(open) = m
    /\ \A j \in 1 .. m : open[j] = stack[j]

LEMMA FilledIs ==
    ASSUME NEW list, NEW stack, NEW cur \in Nat, Structure(list, stack, cur), NEW n \in Nat,
           NEW m \in Nat, m + 1 = Len(stack),
           NEW out, NEW open, Filled(list, stack, cur, n, m, out, open)
    PROVE  \E l, h \in Nat : FilledOut(list, stack, cur, n, m, out, open, l, h)
<1>1. list \in Seq(Pair) /\ stack \in Seq(Pair)
    BY DEF Structure
<1>2. PICK l \in Nat : l = Len(list)
    BY <1>1
<1>3. PICK h \in 1 .. l : h = stack[m + 1][2]
    BY <1>2, m + 1 \in 1 .. Len(stack) DEF Structure, LevelsOpen
<1>4. out = [list EXCEPT ![h] = <<cur, n>>] /\ open = SubSeq(stack, 1, m)
    BY <1>3 DEF Filled
<1>5. Len(out) = l /\ (\A i \in 1 .. l : i # h => out[i] = list[i]) /\ out[h] = <<cur, n>>
    BY <1>1, <1>2, <1>4
<1>6. Len(open) = m /\ \A k \in 1 .. m : open[k] = stack[k]
    BY <1>1, <1>4
<1>7. FilledOut(list, stack, cur, n, m, out, open, l, h) /\ h \in Nat
    BY <1>2, <1>3, <1>5, <1>6 DEF FilledOut
<1> QED  BY <1>7

LEMMA ExtendsHolds ==
    ASSUME NEW buf, NEW cur, NEW bytes, NEW new, Extends(buf, cur, new, bytes),
           NEW n, n = Len(bytes)
    PROVE  Holds(new, cur + n, 0)
<1>1. /\ new \in Seq(Nat) /\ cur \in Nat /\ n \in Nat /\ cur + n <= Len(new)
    BY DEF Extends, Keeps
<1> QED  BY <1>1 DEF Holds

(* The levels outside the two innermost ones stay as they are. *)
SameOutside(L, M, m) == \A k \in 0 .. m : k # m => M[k] = L[k]

LEMMA LevelEndOuter ==
    ASSUME NEW buf, NEW cur, Holds(buf, cur, 0), NEW list, NEW stack,
           Structure(list, stack, cur),
           NEW m \in Nat, m + 1 = Len(stack),
           NEW bytes, NEW n \in Nat, n = Len(bytes), NEW new, Extends(buf, cur, new, bytes),
           NEW out, NEW open, Filled(list, stack, cur, n, m, out, open)
    PROVE  SameOutside([k \in 0 .. m |-> LevelOf(buf, cur, list, stack, 0, k)],
                       [k \in 0 .. m |-> LevelOf(new, cur + n, out, open, 0, k)], m)
<1> SUFFICES ASSUME NEW k \in 0 .. m, k # m
             PROVE  LevelOf(new, cur + n, out, open, 0, k) = LevelOf(buf, cur, list, stack, 0, k)
    BY DEF SameOutside
<1>0. cur \in Nat /\ Keeps(buf, new, cur) /\ Holds(new, cur + n, 0)
    BY ExtendsHolds DEF Holds, Extends
<1>p. PICK l \in Nat, h \in Nat : FilledOut(list, stack, cur, n, m, out, open, l, h)
    BY <1>0, FilledIs
<1>1. /\ h \in 1 .. l
      /\ h = stack[m + 1][2]
      /\ Len(list) = l /\ Len(out) = l
      /\ \A i \in 1 .. l : i # h => out[i] = list[i]
      /\ out[h] = <<cur, n>>
      /\ Len(open) = m
      /\ \A j \in 1 .. m : open[j] = stack[j]
    BY <1>p DEF FilledOut
<1> DEFINE from == FirstOf(stack, k)
           to == LastOf(list, stack, k)
<1>2. RangeFits(list, cur, from, to)
    BY RangeOf
<1>3. FirstOf(open, k) = from /\ LastOf(out, open, k) = to /\ to = stack[k + 1][2] - 1
  <2>1. k + 1 \in 1 .. m /\ (k # 0 => k \in 1 .. m) /\ k # Len(stack)
      OBVIOUS
  <2> QED  BY <1>1, <2>1 DEF FirstOf, LastOf
<1>4. to < h
  <2>1. k + 1 \in 1 .. Len(stack) /\ m + 1 \in 1 .. Len(stack) /\ k + 1 <= m + 1
      OBVIOUS
  <2>2. /\ stack[k + 1][2] \in 1 .. l
        /\ k + 1 < m + 1 => stack[k + 1][2] < stack[m + 1][2]
      BY <1>1, <2>1 DEF Structure, LevelsOpen
  <2> HIDE DEF to
  <2> QED  BY <1>1, <1>3, <2>2, SMTT(30)
<1> HIDE DEF from, to
<1>5. SameRange(list, out, from, to)
    BY <1>1, <1>2, <1>4 DEF SameRange, RangeFits
<1>6. PiecesOf(new, out, from, to) = PiecesOf(buf, list, from, to)
    BY <1>0, <1>2, <1>5, RangeAgree
<1>7. TailOf(new, cur + n, open, 0, k) = << >> /\ TailOf(buf, cur, stack, 0, k) = << >>
    BY <1>0, NoTail
<1> QED  BY <1>3, <1>6, <1>7 DEF LevelOf, from, to

LEMMA LevelEndInner ==
    ASSUME NEW buf, NEW cur, Holds(buf, cur, 0), NEW list, NEW stack,
           Structure(list, stack, cur),
           NEW m \in Nat, m + 1 = Len(stack),
           NEW bytes, NEW n \in Nat, n = Len(bytes), NEW new, Extends(buf, cur, new, bytes),
           NEW out, NEW open, Filled(list, stack, cur, n, m, out, open)
    PROVE  Closed(LevelOf(new, cur + n, out, open, 0, m),
                  LevelOf(buf, cur, list, stack, 0, m), bytes,
                  LevelOf(buf, cur, list, stack, 0, m + 1))
<1>0. /\ buf \in Seq(Nat) /\ new \in Seq(Nat) /\ bytes \in Seq(Nat)
      /\ cur \in Nat /\ Keeps(buf, new, cur) /\ Holds(new, cur + n, 0)
    BY ExtendsHolds DEF Holds, Extends, Keeps
<1>p. PICK l \in Nat, h \in Nat : FilledOut(list, stack, cur, n, m, out, open, l, h)
    BY <1>0, FilledIs
<1>1. /\ h \in 1 .. l
      /\ h = stack[m + 1][2]
      /\ Len(list) = l /\ Len(out) = l
      /\ \A i \in 1 .. l : i # h => out[i] = list[i]
      /\ out[h] = <<cur, n>>
      /\ Len(open) = m
      /\ \A j \in 1 .. m : open[j] = stack[j]
    BY <1>p DEF FilledOut
<1> DEFINE from == FirstOf(stack, m)
<1>2. PICK g \in Nat : g = h - 1 /\ g + 1 = h
    BY <1>1
<1>3. LastOf(list, stack, m) = g
    BY <1>1, <1>2 DEF LastOf
<1>4. FirstOf(stack, m + 1) = h + 1 /\ LastOf(list, stack, m + 1) = l
    BY <1>1 DEF FirstOf, LastOf
<1>5. FirstOf(open, m) = from /\ LastOf(out, open, m) = l
  <2>1. m # 0 => m \in 1 .. m
      OBVIOUS
  <2> QED  BY <1>1, <2>1 DEF FirstOf, LastOf
<1>6. RangeFits(list, cur, from, g)
  <2>1. m \in 0 .. Len(stack)
      OBVIOUS
  <2> QED  BY <1>3, <2>1, RangeOf
<1>7. RangeFits(list, cur, h + 1, l)
  <2>1. m + 1 \in 0 .. Len(stack)
      OBVIOUS
  <2> QED  BY <1>4, <2>1, RangeOf
<1> HIDE DEF from
<1>8. from \in Nat /\ from > 0 /\ from <= g + 1
    BY <1>6 DEF RangeFits
<1> DEFINE a == PiecesOf(buf, list, from, g)
           c == PiecesOf(buf, list, h + 1, l)
<1>9. a \in Seq(Nat) /\ c \in Seq(Nat)
    BY <1>0, <1>6, <1>7, RangeType
<1>10. PiecesOf(new, out, from, g) = a
  <2>1. SameRange(list, out, from, g)
      BY <1>1, <1>2, <1>8 DEF SameRange
  <2> QED  BY <1>0, <1>6, <2>1, RangeAgree
<1>11. PiecesOf(new, out, h + 1, l) = c
  <2>1. SameRange(list, out, h + 1, l)
      BY <1>1 DEF SameRange
  <2> QED  BY <1>0, <1>7, <2>1, RangeAgree
<1>12. Cut(new, out[h]) = bytes
  <2>1. Grown(Cut(new, <<cur - 0, 0 + Len(bytes)>>), Cut(buf, <<cur - 0, 0>>), bytes)
      BY <1>0, TailGrows, 0 \in 0 .. cur
  <2>2. cur - 0 = cur /\ 0 + Len(bytes) = n
      BY <1>0
  <2>3. Cut(buf, <<cur, 0>>) = << >>
      BY CutNothing DEF Holds
  <2>4. Cut(new, <<cur, n>>) = << >> \o bytes
      BY <2>1, <2>2, <2>3 DEF Grown
  <2> QED  BY <1>0, <1>1, <2>4, WithNothing
<1> HIDE DEF a, c
<1>13. PiecesOf(new, out, from, h) = a \o bytes
  <2>1. Grown(PiecesOf(new, out, from, g + 1), PiecesOf(new, out, from, g),
              Cut(new, out[g + 1]))
      BY <1>2, <1>8, NextGrown
  <2> QED  BY <1>2, <1>10, <1>12, <2>1 DEF Grown
<1>14. ASSUME NEW i \in from .. l PROVE Cut(new, out[i]) \in Seq(Nat)
  <2>1. CASE i = h
      BY <1>0, <1>12, <2>1
  <2>2. CASE i # h
    <3>1. i \in 1 .. l /\ (i \in from .. g \/ i \in h + 1 .. l)
        BY <1>2, <1>8, <2>2
    <3>2. PieceIn(list[i], cur)
        BY <1>6, <1>7, <3>1 DEF RangeFits
    <3>3. PICK p : p = out[i] /\ PieceIn(p, cur)
        BY <1>1, <2>2, <3>1, <3>2
    <3>4. Cut(new, p) \in Seq(Nat)
        BY <1>0, <3>3, CutType DEF PieceIn
    <3> QED  BY <3>3, <3>4
  <2> QED  BY <2>1, <2>2
<1>15. PiecesOf(new, out, from, l)
          = PiecesOf(new, out, from, h) \o PiecesOf(new, out, h + 1, l)
  <2>1. /\ new \in Seq(Nat) /\ from \in Nat /\ from > 0 /\ h \in Nat /\ l \in Nat
        /\ from <= h + 1 /\ h <= l
      BY <1>0, <1>1, <1>2, <1>8, SMTT(30)
  <2>2. \A i \in from .. l : Cut(new, out[i]) \in Seq(Nat)
      BY <1>14
  <2>3. Splits(new, out, from, h, l)
      BY <2>1, <2>2 DEF Splits
  <2>4. Grown(PiecesOf(new, out, from, l), PiecesOf(new, out, from, h),
              PiecesOf(new, out, h + 1, l))
      BY <2>3, PiecesSplit
  <2> QED  BY <2>4 DEF Grown
<1>16. /\ TailOf(new, cur + n, open, 0, m) = << >>
       /\ TailOf(buf, cur, stack, 0, m) = << >>
       /\ TailOf(buf, cur, stack, 0, m + 1) = << >>
    BY <1>0, NoTail
<1>17. LevelOf(new, cur + n, out, open, 0, m) = PiecesOf(new, out, from, l) \o << >>
    BY <1>5, <1>16 DEF LevelOf
<1>18. LevelOf(buf, cur, list, stack, 0, m) = a \o << >>
    BY <1>3, <1>16 DEF LevelOf, from, a
<1>19. LevelOf(buf, cur, list, stack, 0, m + 1) = c \o << >>
    BY <1>4, <1>16 DEF LevelOf, c
<1>20. a \o bytes \in Seq(Nat) /\ (a \o bytes) \o c \in Seq(Nat)
    BY <1>0, <1>9, Joining
<1>21. PiecesOf(new, out, from, l) = (a \o bytes) \o c
    BY <1>11, <1>13, <1>15
<1>22. ((a \o bytes) \o c) \o << >> = (a \o bytes) \o c /\ a \o << >> = a /\ c \o << >> = c
    BY <1>9, <1>20, WithNothing
<1> QED  BY <1>17, <1>18, <1>19, <1>21, <1>22 DEF Closed

-----------------------------------------------------------------------------
(* The stack of levels, as a function of their numbers                     *)

LevelFun(buf, cur, list, stack, unc) ==
    [k \in 0 .. Len(stack) |-> LevelOf(buf, cur, list, stack, unc, k)]

Flip(m, L) == [k \in 1 .. m + 1 |-> L[(m + 1) - k]]

LevelsTo(m) == [0 .. m -> Seq(Nat)]

StepWrite(L, M, m, bytes) ==
    /\ M[m] = L[m] \o bytes
    /\ \A k \in 0 .. m : k # m => M[k] = L[k]

StepBegin(L, M, m) ==
    /\ M[m + 1] = << >>
    /\ \A k \in 0 .. m : M[k] = L[k]

StepEnd(L, M, m, bytes) ==
    /\ M[m] = (L[m] \o bytes) \o L[m + 1]
    /\ \A k \in 0 .. m : k # m => M[k] = L[k]

LEMMA FlipIs ==
    ASSUME NEW m \in Nat, NEW L \in LevelsTo(m)
    PROVE  /\ Flip(m, L) \in Seq(Seq(Nat))
           /\ Len(Flip(m, L)) = m + 1
           /\ \A k \in 1 .. m + 1 : Flip(m, L)[k] = L[(m + 1) - k]
<1>1. ASSUME NEW k \in 1 .. m + 1 PROVE L[(m + 1) - k] \in Seq(Nat)
  <2>1. (m + 1) - k \in 0 .. m
      OBVIOUS
  <2> QED  BY <2>1 DEF LevelsTo
<1>2. Flip(m, L) \in [1 .. m + 1 -> Seq(Nat)]
    BY <1>1 DEF Flip
<1>3. Flip(m, L) \in Seq(Seq(Nat)) /\ Len(Flip(m, L)) = m + 1
    BY <1>2, Sequence, m + 1 \in Nat
<1>4. \A k \in 1 .. m + 1 : Flip(m, L)[k] = L[(m + 1) - k]
    BY DEF Flip
<1> QED  BY <1>3, <1>4

(* Bytes at the end of the innermost level, which is the first. *)
Appended(new, old, bytes) == new = [old EXCEPT ![1] = @ \o bytes]

LEMMA FlipWrite ==
    ASSUME NEW m \in Nat, NEW L \in LevelsTo(m), NEW M \in LevelsTo(m), NEW bytes \in Seq(Nat),
           StepWrite(L, M, m, bytes)
    PROVE  Appended(Flip(m, M), Flip(m, L), bytes)
<1>1. PICK s \in Seq(Seq(Nat)) : /\ s = Flip(m, L) /\ Len(s) = m + 1
                                 /\ \A k \in 1 .. m + 1 : s[k] = L[(m + 1) - k]
    BY FlipIs
<1>2. PICK t \in Seq(Seq(Nat)) : /\ t = Flip(m, M) /\ Len(t) = m + 1
                                 /\ \A k \in 1 .. m + 1 : t[k] = M[(m + 1) - k]
    BY FlipIs
<1>3. t[1] = s[1] \o bytes /\ s[1] \in Seq(Nat)
  <2>1. 1 \in 1 .. m + 1 /\ (m + 1) - 1 = m
      OBVIOUS
  <2>2. t[1] = M[m] /\ s[1] = L[m]
      BY <1>1, <1>2, <2>1
  <2> QED  BY <1>1, <2>1, <2>2 DEF StepWrite
<1>4. \A k \in 2 .. m + 1 : t[k] = s[k]
  <2> SUFFICES ASSUME NEW k \in 2 .. m + 1 PROVE t[k] = s[k]
      OBVIOUS
  <2>1. (m + 1) - k \in 0 .. m /\ (m + 1) - k # m /\ k \in 1 .. m + 1
      OBVIOUS
  <2>2. M[(m + 1) - k] = L[(m + 1) - k]
      BY <2>1 DEF StepWrite
  <2> QED  BY <1>1, <1>2, <2>1, <2>2
<1>5. PICK u : u = [s EXCEPT ![1] = @ \o bytes]
    OBVIOUS
<1>6. PICK x \in Seq(Nat) : x = s[1] \o bytes
    BY <1>3, Joining
<1>7. u = [s EXCEPT ![1] = x]
    BY <1>5, <1>6
<1>8. u \in Seq(Seq(Nat)) /\ Len(u) = m + 1 /\ u[1] = x /\ \A k \in 2 .. m + 1 : u[k] = s[k]
    BY <1>1, <1>7
<1>9. ASSUME NEW k \in 1 .. m + 1 PROVE t[k] = u[k]
  <2>1. CASE k = 1
      BY <1>3, <1>6, <1>8, <2>1
  <2>2. CASE k # 1
    <3>1. k \in 2 .. m + 1
        BY <2>2
    <3> QED  BY <1>4, <1>8, <3>1
  <2> QED  BY <2>1, <2>2
<1>10. t = u
    BY <1>2, <1>8, <1>9, SameSequence
<1> QED  BY <1>1, <1>2, <1>5, <1>10 DEF Appended

LEMMA Singleton ==
    ASSUME NEW S, NEW z \in S
    PROVE  <<z>> \in Seq(S) /\ Len(<<z>>) = 1 /\ <<z>>[1] = z
OBVIOUS

Opened(new, old) == new = << << >> >> \o old

LEMMA FlipBegin ==
    ASSUME NEW m \in Nat, NEW L \in LevelsTo(m), NEW M \in LevelsTo(m + 1),
           StepBegin(L, M, m)
    PROVE  Opened(Flip(m + 1, M), Flip(m, L))
<1>1. PICK s \in Seq(Seq(Nat)) : /\ s = Flip(m, L) /\ Len(s) = m + 1
                                 /\ \A k \in 1 .. m + 1 : s[k] = L[(m + 1) - k]
    BY FlipIs
<1>2. PICK t \in Seq(Seq(Nat)) : /\ t = Flip(m + 1, M) /\ Len(t) = (m + 1) + 1
                                 /\ \A k \in 1 .. (m + 1) + 1 : t[k] = M[((m + 1) + 1) - k]
    BY FlipIs, m + 1 \in Nat
<1>3. PICK e \in Seq(Seq(Nat)) : e = << << >> >> /\ Len(e) = 1 /\ e[1] = << >>
  <2>0. << >> \in Seq(Nat)
      OBVIOUS
  <2>1. PICK z : z \in Seq(Nat) /\ z = << >>
      BY <2>0, Zenon
  <2>2. <<z>> \in Seq(Seq(Nat)) /\ Len(<<z>>) = 1 /\ <<z>>[1] = z
      BY <2>1, Singleton
  <2> QED  BY <2>1, <2>2
<1>4. PICK u : u = e \o s
    OBVIOUS
<1>5. u \in Seq(Seq(Nat)) /\ Len(u) = (m + 1) + 1 /\ u[1] = << >>
    BY <1>1, <1>3, <1>4
<1>6. \A k \in 1 .. m + 1 : u[k + 1] = s[k]
  <2>1. u \in Seq(Seq(Nat)) /\ IsJoin(u, e, s)
      BY <1>4, Joined
  <2>2. \A k \in 1 .. m + 1 : u[1 + k] = s[k]
      BY <1>1, <1>3, <2>1 DEF IsJoin
  <2> QED  BY <2>2
<1>7. ASSUME NEW k \in 1 .. (m + 1) + 1 PROVE t[k] = u[k]
  <2>1. CASE k = 1
    <3>1. ((m + 1) + 1) - k = m + 1
        BY <2>1
    <3> QED  BY <1>2, <1>5, <2>1, <3>1 DEF StepBegin
  <2>2. CASE k # 1
    <3>1. PICK j \in 1 .. m + 1 : k = j + 1
      <4>1. k - 1 \in 1 .. m + 1 /\ k = (k - 1) + 1
          BY <2>2
      <4> QED  BY <4>1
    <3>2. ((m + 1) + 1) - k = (m + 1) - j /\ (m + 1) - j \in 0 .. m
        BY <3>1
    <3>3. M[(m + 1) - j] = L[(m + 1) - j]
        BY <3>2 DEF StepBegin
    <3> QED  BY <1>1, <1>2, <1>6, <3>1, <3>2, <3>3
  <2> QED  BY <2>1, <2>2
<1>8. t = u
    BY <1>2, <1>5, <1>7, SameSequence
<1> QED  BY <1>1, <1>2, <1>3, <1>4, <1>8 DEF Opened

(* end of a level that holds inner, whose length is written as bytes. *)
Shut(new, old, bytes) == new = [Tail(old) EXCEPT ![1] = (@ \o bytes) \o Head(old)]

LEMMA FlipEnd ==
    ASSUME NEW m \in Nat, NEW L \in LevelsTo(m + 1), NEW M \in LevelsTo(m),
           NEW bytes \in Seq(Nat), StepEnd(L, M, m, bytes)
    PROVE  /\ Len(Flip(m + 1, L)) > 1
           /\ Head(Flip(m + 1, L)) = L[m + 1]
           /\ Shut(Flip(m, M), Flip(m + 1, L), bytes)
<1>1. PICK s \in Seq(Seq(Nat)) : /\ s = Flip(m + 1, L) /\ Len(s) = (m + 1) + 1
                                 /\ \A k \in 1 .. (m + 1) + 1 : s[k] = L[((m + 1) + 1) - k]
    BY FlipIs, m + 1 \in Nat
<1>2. PICK t \in Seq(Seq(Nat)) : /\ t = Flip(m, M) /\ Len(t) = m + 1
                                 /\ \A k \in 1 .. m + 1 : t[k] = M[(m + 1) - k]
    BY FlipIs
<1>3. Len(s) > 1 /\ Head(s) = s[1] /\ s[1] = L[m + 1] /\ s[2] = L[m]
  <2>1. 1 \in 1 .. (m + 1) + 1 /\ ((m + 1) + 1) - 1 = m + 1
      OBVIOUS
  <2>2. 2 \in 1 .. (m + 1) + 1 /\ ((m + 1) + 1) - 2 = m
      OBVIOUS
  <2>3. s[1] = L[m + 1]
      BY <1>1, <2>1
  <2>4. s[2] = L[m]
      BY <1>1, <2>2
  <2> QED  BY <1>1, <2>3, <2>4
<1>4. PICK v \in Seq(Seq(Nat)) : v = Tail(s) /\ Len(v) = m + 1
                                  /\ \A k \in 1 .. m + 1 : v[k] = s[k + 1]
  <2>1. Tail(s) \in Seq(Seq(Nat)) /\ Len(Tail(s)) = m + 1
      BY <1>1
  <2>2. ASSUME NEW k \in 1 .. m + 1 PROVE Tail(s)[k] = s[k + 1]
      BY <1>1
  <2> QED  BY <2>1, <2>2
<1>5. L[m] \in Seq(Nat) /\ L[m + 1] \in Seq(Nat)
    BY m \in 0 .. m + 1, m + 1 \in 0 .. m + 1 DEF LevelsTo
<1>6. PICK x \in Seq(Nat) : x = (L[m] \o bytes) \o L[m + 1]
    BY <1>5, Joining
<1>7. v[1] = L[m]
    BY <1>3, <1>4, 1 \in 1 .. m + 1
<1>8. PICK u : u = [v EXCEPT ![1] = (@ \o bytes) \o Head(s)]
    OBVIOUS
<1>9. u = [v EXCEPT ![1] = x]
    BY <1>3, <1>6, <1>7, <1>8
<1>10. u \in Seq(Seq(Nat)) /\ Len(u) = m + 1 /\ u[1] = x /\ \A k \in 2 .. m + 1 : u[k] = v[k]
  <2>1. 1 \in 1 .. Len(v) /\ Len(v) = m + 1
      BY <1>4
  <2>2. u \in Seq(Seq(Nat)) /\ Len(u) = m + 1 /\ u[1] = x
      BY <1>9, <2>1
  <2>3. ASSUME NEW k \in 2 .. m + 1 PROVE u[k] = v[k]
    <3>1. k \in 1 .. Len(v) /\ k # 1
        BY <2>1
    <3> QED  BY <1>9, <3>1
  <2> QED  BY <2>2, <2>3
<1>11. ASSUME NEW k \in 1 .. m + 1 PROVE t[k] = u[k]
  <2>1. CASE k = 1
    <3>1. (m + 1) - k = m
        BY <2>1
    <3> QED  BY <1>2, <1>6, <1>10, <2>1, <3>1 DEF StepEnd
  <2>2. CASE k # 1
    <3>1. /\ (m + 1) - k \in 0 .. m /\ (m + 1) - k # m
          /\ ((m + 1) + 1) - (k + 1) = (m + 1) - k
          /\ k + 1 \in 1 .. (m + 1) + 1 /\ k \in 2 .. m + 1
        BY <2>2
    <3>2. M[(m + 1) - k] = L[(m + 1) - k]
        BY <3>1 DEF StepEnd
    <3>3. u[k] = L[(m + 1) - k]
        BY <1>1, <1>4, <1>10, <3>1
    <3> QED  BY <1>2, <3>2, <3>3
  <2> QED  BY <2>1, <2>2
<1>12. t = u
    BY <1>2, <1>10, <1>11, SameSequence
<1>13. t = [Tail(s) EXCEPT ![1] = (@ \o bytes) \o Head(s)]
    BY <1>4, <1>8, <1>12
<1> QED  BY <1>1, <1>2, <1>3, <1>13 DEF Shut

LEMMA LevelFunIs ==
    ASSUME NEW buf, NEW cur, NEW unc, Holds(buf, cur, unc), NEW list, NEW stack,
           Structure(list, stack, cur - unc), NEW m, m = Len(stack),
           NEW L, L = LevelFun(buf, cur, list, stack, unc)
    PROVE  L \in LevelsTo(m)
<1>1. ASSUME NEW k \in 0 .. Len(stack)
      PROVE  LevelOf(buf, cur, list, stack, unc, k) \in Seq(Nat)
    BY LevelType
<1> QED  BY <1>1 DEF LevelFun, LevelsTo

LEMMA CommitSame ==
    ASSUME NEW buf, NEW cur, NEW unc, Holds(buf, cur, unc), NEW list, NEW stack,
           Structure(list, stack, cur - unc)
    PROVE  LevelFun(buf, cur, Commit(list, cur, unc), stack, 0)
              = LevelFun(buf, cur, list, stack, unc)
<1>1. ASSUME NEW k \in 0 .. Len(stack)
      PROVE  LevelOf(buf, cur, Commit(list, cur, unc), stack, 0, k)
                = LevelOf(buf, cur, list, stack, unc, k)
    BY LevelCommit
<1> QED  BY <1>1 DEF LevelFun

LEMMA WriteChanges ==
    ASSUME NEW buf, NEW cur, NEW unc, Holds(buf, cur, unc), NEW list, NEW stack,
           Structure(list, stack, cur - unc), NEW m \in Nat, m = Len(stack),
           NEW bytes, NEW n \in Nat, n = Len(bytes), NEW new, Extends(buf, cur, new, bytes),
           NEW L, L = LevelFun(buf, cur, list, stack, unc),
           NEW M, M = LevelFun(new, cur + n, list, stack, unc + n)
    PROVE  /\ L \in LevelsTo(m) /\ M \in LevelsTo(m)
           /\ StepWrite(L, M, m, bytes)
<1>1. L \in LevelsTo(m)
    BY LevelFunIs
<1>2. M \in LevelsTo(m)
  <2>1. /\ cur \in Nat /\ unc \in 0 .. cur /\ new \in Seq(Nat) /\ cur + n <= Len(new)
      BY DEF Holds, Extends, Keeps
  <2>2. Holds(new, cur + n, unc + n)
      BY <2>1 DEF Holds
  <2>3. (cur + n) - (unc + n) = cur - unc
      BY <2>1
  <2> QED  BY <2>2, <2>3, LevelFunIs
<1>3. ASSUME NEW k \in 0 .. m
      PROVE  /\ k = m => M[k] = L[k] \o bytes
             /\ k # m => M[k] = L[k]
  <2>1. LevelOf(new, cur + n, list, stack, unc + n, k)
           = IF k = Len(stack) THEN LevelOf(buf, cur, list, stack, unc, k) \o bytes
                               ELSE LevelOf(buf, cur, list, stack, unc, k)
      BY LevelWrite
  <2>2. /\ L[k] = LevelOf(buf, cur, list, stack, unc, k)
        /\ M[k] = LevelOf(new, cur + n, list, stack, unc + n, k)
      BY DEF LevelFun
  <2> QED  BY <2>1, <2>2
<1> QED  BY <1>1, <1>2, <1>3, m \in 0 .. m DEF StepWrite

LEMMA BeginChanges ==
    ASSUME NEW buf, NEW cur, NEW unc, Holds(buf, cur, unc), NEW list, NEW stack,
           Structure(list, stack, cur - unc), NEW m \in Nat, m = Len(stack),
           NEW stash \in Nat, NEW C, C = Commit(list, cur, unc),
           NEW L, L = LevelFun(buf, cur, list, stack, unc),
           NEW M, M = LevelFun(buf, cur, Append(C, Hole), Append(stack, <<stash, Len(C) + 1>>), 0)
    PROVE  /\ L \in LevelsTo(m) /\ M \in LevelsTo(m + 1)
           /\ StepBegin(L, M, m)
<1>0. /\ cur \in Nat /\ unc \in 0 .. cur /\ cur - 0 = cur /\ Holds(buf, cur, 0)
    BY DEF Holds
<1>1. L \in LevelsTo(m)
    BY LevelFunIs
<1>2. Structure(C, stack, cur)
    BY <1>0, CommitStructure
<1>3. PICK open : open = Append(stack, <<stash, Len(C) + 1>>)
    OBVIOUS
<1>4. Structure(Append(C, Hole), open, cur)
    BY <1>0, <1>2, <1>3, BeginStructure
<1>5. Len(open) = m + 1
    BY <1>3, <1>2 DEF Structure
<1>6. M \in LevelsTo(m + 1)
    BY <1>0, <1>3, <1>4, <1>5, LevelFunIs
<1>7. L = LevelFun(buf, cur, C, stack, 0)
    BY CommitSame
<1>8. ASSUME NEW k \in 0 .. m + 1
      PROVE  /\ k = m + 1 => M[k] = << >>
             /\ k # m + 1 => M[k] = L[k]
  <2>1. LevelOf(buf, cur, Append(C, Hole), open, 0, k)
           = IF k = m + 1 THEN << >> ELSE LevelOf(buf, cur, C, stack, 0, k)
      BY <1>0, <1>2, <1>3, LevelBegin, SMTT(30)
  <2>2. M[k] = LevelOf(buf, cur, Append(C, Hole), open, 0, k)
      BY <1>3, <1>5 DEF LevelFun
  <2>3. k # m + 1 => L[k] = LevelOf(buf, cur, C, stack, 0, k)
      BY <1>7 DEF LevelFun
  <2> QED  BY <2>1, <2>2, <2>3
<1>9. /\ m + 1 \in 0 .. m + 1
      /\ \A k \in 0 .. m : k \in 0 .. m + 1 /\ k # m + 1
    OBVIOUS
<1> QED  BY <1>1, <1>6, <1>8, <1>9 DEF StepBegin

LEMMA EndChanges ==
    ASSUME NEW buf, NEW cur, NEW unc, Holds(buf, cur, unc), NEW list, NEW stack,
           Structure(list, stack, cur - unc), NEW m \in Nat, m + 1 = Len(stack),
           NEW bytes, NEW n \in Nat, n = Len(bytes), NEW new, Extends(buf, cur, new, bytes),
           NEW C, C = Commit(list, cur, unc),
           NEW out, NEW open, Filled(C, stack, cur, n, m, out, open),
           Structure(out, open, cur + n),
           NEW L, L = LevelFun(buf, cur, list, stack, unc),
           NEW M, M = LevelFun(new, cur + n, out, open, 0)
    PROVE  /\ L \in LevelsTo(m + 1) /\ M \in LevelsTo(m)
           /\ StepEnd(L, M, m, bytes)
<1>0. /\ cur \in Nat /\ unc \in 0 .. cur /\ cur - 0 = cur /\ Holds(buf, cur, 0)
      /\ (cur + n) - 0 = cur + n
    BY DEF Holds
<1>1. L \in LevelsTo(m + 1)
    BY LevelFunIs
<1>2. Structure(C, stack, cur)
    BY <1>0, CommitStructure
<1>3. Len(open) = m
  <2>1. stack \in Seq(Pair)
      BY <1>2 DEF Structure
  <2> QED  BY <2>1 DEF Filled
<1>4. M \in LevelsTo(m)
    BY <1>0, <1>3, ExtendsHolds, LevelFunIs
<1>5. L = LevelFun(buf, cur, C, stack, 0)
    BY CommitSame
<1>6. \A k \in 0 .. m + 1 : L[k] = LevelOf(buf, cur, C, stack, 0, k)
    BY <1>5 DEF LevelFun
<1>7. \A k \in 0 .. m : M[k] = LevelOf(new, cur + n, out, open, 0, k)
    BY <1>3 DEF LevelFun
<1>8. ASSUME NEW k \in 0 .. m, k # m PROVE M[k] = L[k]
  <2>1. LevelOf(new, cur + n, out, open, 0, k) = LevelOf(buf, cur, C, stack, 0, k)
    <3>1. SameOutside([j \in 0 .. m |-> LevelOf(buf, cur, C, stack, 0, j)],
                      [j \in 0 .. m |-> LevelOf(new, cur + n, out, open, 0, j)], m)
        BY <1>0, <1>2, LevelEndOuter
    <3> QED  BY <1>8, <3>1 DEF SameOutside
  <2> QED  BY <1>6, <1>7, <2>1, k \in 0 .. m + 1
<1>9. Closed(M[m], L[m], bytes, L[m + 1])
  <2>1. Closed(LevelOf(new, cur + n, out, open, 0, m), LevelOf(buf, cur, C, stack, 0, m), bytes,
               LevelOf(buf, cur, C, stack, 0, m + 1))
      BY <1>0, <1>2, LevelEndInner
  <2>2. m \in 0 .. m /\ m \in 0 .. m + 1 /\ m + 1 \in 0 .. m + 1
      OBVIOUS
  <2>3. /\ M[m] = LevelOf(new, cur + n, out, open, 0, m)
        /\ L[m] = LevelOf(buf, cur, C, stack, 0, m)
        /\ L[m + 1] = LevelOf(buf, cur, C, stack, 0, m + 1)
      BY <1>6, <1>7, <2>2
  <2> QED  BY <2>1, <2>3
<1> QED  BY <1>1, <1>4, <1>8, <1>9 DEF StepEnd, Closed

-----------------------------------------------------------------------------
(* What is counted for the levels                                          *)

CountsOf(L, stack, total) ==
    /\ Len(L[Len(stack)]) = total
    /\ \A k \in 1 .. Len(stack) : Len(L[k - 1]) = stack[k][1]

LEMMA CountsWrite ==
    ASSUME NEW m \in Nat, NEW L \in LevelsTo(m), NEW M \in LevelsTo(m), NEW bytes \in Seq(Nat),
           StepWrite(L, M, m, bytes), NEW stack, m = Len(stack), NEW total,
           CountsOf(L, stack, total)
    PROVE  CountsOf(M, stack, total + Len(bytes))
<1>1. L[m] \in Seq(Nat) /\ M[m] = L[m] \o bytes
    BY m \in 0 .. m DEF LevelsTo, StepWrite
<1>2. Len(M[m]) = total + Len(bytes)
    BY <1>1, Joining DEF CountsOf
<1>3. ASSUME NEW k \in 1 .. m PROVE Len(M[k - 1]) = stack[k][1]
  <2>1. k - 1 \in 0 .. m /\ k - 1 # m
      OBVIOUS
  <2>2. M[k - 1] = L[k - 1]
      BY <2>1 DEF StepWrite
  <2> QED  BY <2>2 DEF CountsOf
<1> QED  BY <1>2, <1>3 DEF CountsOf

LEMMA CountsBegin ==
    ASSUME NEW m \in Nat, NEW L \in LevelsTo(m), NEW M \in LevelsTo(m + 1), StepBegin(L, M, m),
           NEW stack \in Seq(Pair), m = Len(stack), NEW total \in Nat, CountsOf(L, stack, total),
           NEW hole \in Nat, NEW open, open = Append(stack, <<total, hole>>)
    PROVE  CountsOf(M, open, 0)
<1>1. PICK e \in Pair : e = <<total, hole>> /\ e[1] = total
  <2>1. <<total, hole>> \in Pair
      BY PairIs, total \in Int, hole \in Int
  <2> QED  BY <2>1
<1>2. Len(open) = m + 1 /\ (\A k \in 1 .. m : open[k] = stack[k]) /\ open[m + 1] = e
    BY <1>1, Appending
<1>3. Len(M[m + 1]) = 0
  <2>1. M[m + 1] = << >>
      BY DEF StepBegin
  <2> QED  BY <2>1
<1>4. ASSUME NEW k \in 1 .. m + 1 PROVE Len(M[k - 1]) = open[k][1]
  <2>1. k - 1 \in 0 .. m
      OBVIOUS
  <2>2. M[k - 1] = L[k - 1]
      BY <2>1 DEF StepBegin
  <2>3. CASE k = m + 1
    <3>1. Len(L[m]) = total /\ k - 1 = m
        BY <2>3 DEF CountsOf
    <3> QED  BY <1>1, <1>2, <2>2, <2>3, <3>1
  <2>4. CASE k # m + 1
    <3>1. k \in 1 .. m
        BY <2>4
    <3> QED  BY <1>2, <2>2, <3>1 DEF CountsOf
  <2> QED  BY <2>3, <2>4
<1> QED  BY <1>2, <1>3, <1>4 DEF CountsOf

LEMMA CountsEnd ==
    ASSUME NEW m \in Nat, NEW L \in LevelsTo(m + 1), NEW M \in LevelsTo(m),
           NEW bytes \in Seq(Nat), StepEnd(L, M, m, bytes),
           NEW stack \in Seq(Pair), m + 1 = Len(stack), NEW total \in Nat,
           CountsOf(L, stack, total), NEW open, open = SubSeq(stack, 1, m)
    PROVE  CountsOf(M, open, stack[m + 1][1] + Len(bytes) + total)
<1>1. Len(open) = m /\ \A k \in 1 .. m : open[k] = stack[k]
    OBVIOUS
<1>2. L[m] \in Seq(Nat) /\ L[m + 1] \in Seq(Nat)
    BY m \in 0 .. m + 1, m + 1 \in 0 .. m + 1 DEF LevelsTo
<1>3. Len(L[m]) = stack[m + 1][1] /\ Len(L[m + 1]) = total
    BY m + 1 \in 1 .. m + 1, (m + 1) - 1 = m DEF CountsOf
<1>4. Len((L[m] \o bytes) \o L[m + 1]) = (Len(L[m]) + Len(bytes)) + Len(L[m + 1])
    BY <1>2, Joining
<1>5. Len(M[m]) = stack[m + 1][1] + Len(bytes) + total
    BY <1>3, <1>4 DEF StepEnd
<1>6. ASSUME NEW k \in 1 .. m PROVE Len(M[k - 1]) = open[k][1]
  <2>1. k - 1 \in 0 .. m /\ k - 1 # m /\ k \in 1 .. m + 1
      OBVIOUS
  <2>2. M[k - 1] = L[k - 1]
      BY <2>1 DEF StepEnd
  <2> QED  BY <1>1, <2>1, <2>2 DEF CountsOf
<1> QED  BY <1>1, <1>5, <1>6 DEF CountsOf

-----------------------------------------------------------------------------
(* With a buffer that can grow: what the writer holds                      *)

Now == LevelFun(buffer, cursor, index, levelStack, uncommitted)

(* Doubling an empty buffer makes no room, so the permanent buffer is not  *)
(* empty (its default size in the code is 16384).                          *)
WriterInv ==
    /\ BaseInv
    /\ cursor <= Len(buffer)
    /\ Len(buffer) > 0
    /\ CountsOf(Now, levelStack, written + uncommitted)

LEMMA Assembled ==
    ASSUME NEW buf, NEW cur, NEW list, NEW stack, NEW wrote, NEW unc,
           NEW L, L = LevelFun(buf, cur, list, stack, unc),
           NEW total, CountsOf(L, stack, total), total = wrote + unc,
           cur <= Len(buf), Len(buf) > 0, BaseInv',
           buffer' = buf, cursor' = cur, index' = list, levelStack' = stack,
           written' = wrote, uncommitted' = unc
    PROVE  WriterInv' /\ Now' = L
BY DEF WriterInv, Now

LEMMA HoldsNow == WriterInv => Holds(buffer, cursor, uncommitted) /\ Ready(Here)
BY DEF WriterInv, BaseInv, Holds, Ready, Here

LEMMA StructureNow ==
    BaseInv => /\ Structure(index, levelStack, cursor - uncommitted)
               /\ levelStack \in Seq(Pair)
               /\ cursor \in Nat /\ uncommitted \in Nat /\ written \in Nat
BY DEF BaseInv, Structure

LEMMA EmptyLevel ==
    ASSUME NEW buf \in Seq(Nat)
    PROVE  /\ LevelFun(buf, 0, << >>, << >>, 0) \in LevelsTo(0)
           /\ LevelFun(buf, 0, << >>, << >>, 0)[0] = << >>
<1>1. Holds(buf, 0, 0) /\ Len(<< >>) = 0 /\ 0 - 0 = 0
    BY DEF Holds
<1>2. LevelFun(buf, 0, << >>, << >>, 0) \in LevelsTo(0)
    BY <1>1, EmptyStructure, LevelFunIs
<1>3. LevelFun(buf, 0, << >>, << >>, 0)[0] = LevelOf(buf, 0, << >>, << >>, 0, 0)
    BY <1>1 DEF LevelFun
<1>4. FirstOf(<< >>, 0) = 1 /\ LastOf(<< >>, << >>, 0) = 0
    BY <1>1 DEF FirstOf, LastOf
<1>5. PiecesOf(buf, << >>, 1, 0) = << >>
    BY NoPieces
<1>6. TailOf(buf, 0, << >>, 0, 0) = << >>
    BY <1>1, NoTail
<1>7. << >> \o << >> = << >>
    BY WithNothing, << >> \in Seq(Nat)
<1>8. LevelOf(buf, 0, << >>, << >>, 0, 0) = << >>
    BY <1>4, <1>5, <1>6, <1>7 DEF LevelOf
<1> QED  BY <1>2, <1>3, <1>8

LEMMA EmptyCounts ==
    ASSUME NEW buf \in Seq(Nat)
    PROVE  CountsOf(LevelFun(buf, 0, << >>, << >>, 0), << >>, 0)
<1>1. LevelFun(buf, 0, << >>, << >>, 0)[0] = << >> /\ Len(<< >>) = 0
    BY EmptyLevel
<1> QED  BY <1>1 DEF CountsOf

LEMMA WriterInit == Capacity > 0 /\ Init => WriterInv
<1> SUFFICES ASSUME Capacity > 0, Init PROVE WriterInv
    OBVIOUS
<1>1. BaseInv
    BY BaseInit
<1>2. /\ cursor = 0 /\ index = << >> /\ levelStack = << >> /\ written = 0 /\ uncommitted = 0
      /\ buffer = EmptyBuffer
    BY DEF Init
<1>3. buffer \in Seq(Nat) /\ cursor <= Len(buffer) /\ Len(buffer) > 0
    BY <1>2, EmptyBufferIs
<1>4. CountsOf(Now, levelStack, written + uncommitted)
    BY <1>2, <1>3, EmptyCounts DEF Now
<1> QED  BY <1>1, <1>3, <1>4 DEF WriterInv

(* One lemma per operation: the invariant and what happens to the levels.  *)
Types(L, M, m, n) == m \in Nat /\ n \in Nat /\ L \in LevelsTo(m) /\ M \in LevelsTo(n)

LEMMA WriteMoves ==
    ASSUME WriterInv, BaseInv', NEW bytes \in Seq(Nat), NEW w, Typed(w), Ready(w),
           Advances(Here, w, Len(bytes)), Wrote(Here, w, bytes),
           buffer' = w.buffer, cursor' = w.cursor, uncommitted' = w.count,
           UNCHANGED <<index, levelStack, written>>
    PROVE  /\ WriterInv'
           /\ Types(Now, Now', Len(levelStack), Len(levelStack))
           /\ StepWrite(Now, Now', Len(levelStack), bytes)
<1>0. PICK m \in Nat, n \in Nat : m = Len(levelStack) /\ n = Len(bytes)
    BY StructureNow DEF WriterInv
<1>1. /\ Structure(index, levelStack, cursor - uncommitted)
      /\ cursor \in Nat /\ uncommitted \in Nat /\ written \in Nat
    BY StructureNow DEF WriterInv
<1>2. Holds(buffer, cursor, uncommitted)
    BY HoldsNow
<1>3. cursor' = cursor + n /\ uncommitted' = uncommitted + n
    BY <1>0 DEF Advances, Here
<1>4. Extends(buffer, cursor, w.buffer, bytes)
  <2>1. /\ \A i \in 1 .. cursor : w.buffer[i] = buffer[i]
        /\ \A i \in 1 .. Len(bytes) : w.buffer[cursor + i] = bytes[i]
      BY DEF Wrote, Here
  <2>2. w.buffer \in Seq(Nat) /\ cursor + Len(bytes) <= Len(w.buffer)
      BY <1>0, <1>3 DEF Typed, Ready
  <2>3. cursor <= Len(w.buffer)
      BY <1>0, <1>1, <2>2
  <2> QED  BY <1>1, <1>2, <2>1, <2>2, <2>3 DEF Extends, Keeps, Holds
<1>5. PICK L : L = Now
    OBVIOUS
<1>6. PICK M : M = LevelFun(w.buffer, cursor + n, index, levelStack, uncommitted + n)
    OBVIOUS
<1>7. L \in LevelsTo(m) /\ M \in LevelsTo(m) /\ StepWrite(L, M, m, bytes)
    BY <1>0, <1>1, <1>2, <1>4, <1>5, <1>6, WriteChanges DEF Now
<1>8. CountsOf(M, levelStack, (written + uncommitted) + n)
    BY <1>0, <1>5, <1>7, CountsWrite DEF WriterInv
<1>9. (written + uncommitted) + n = written + (uncommitted + n)
    BY <1>0, <1>1
<1>10. w.buffer \in Seq(Nat) /\ cursor + n <= Len(w.buffer) /\ Len(w.buffer) > 0
    BY <1>0, <1>3 DEF Typed, Ready
<1>11. WriterInv' /\ Now' = M
    BY <1>3, <1>6, <1>8, <1>9, <1>10, Assembled
<1> QED  BY <1>0, <1>5, <1>7, <1>11 DEF Types

LEMMA CommittedIsNow ==
    WriterInv => LevelFun(buffer, cursor, Committed, levelStack, 0) = Now
BY HoldsNow, StructureNow, CommitSame, CommittedIs DEF Now, WriterInv

LEMMA BeginMoves ==
    ASSUME WriterInv, BaseInv', Begin
    PROVE  /\ WriterInv'
           /\ Types(Now, Now', Len(levelStack), Len(levelStack) + 1)
           /\ StepBegin(Now, Now', Len(levelStack))
           /\ Len(levelStack') = Len(levelStack) + 1
<1>1. /\ Structure(index, levelStack, cursor - uncommitted) /\ levelStack \in Seq(Pair)
      /\ cursor \in Nat /\ uncommitted \in Nat /\ written \in Nat
    BY StructureNow DEF WriterInv
<1>2. Holds(buffer, cursor, uncommitted)
    BY HoldsNow
<1>3. PICK C : C = Committed /\ C = Commit(index, cursor, uncommitted)
    BY CommittedIs
<1>4. PICK m \in Nat, stash \in Nat : m = Len(levelStack) /\ stash = written + uncommitted
    BY <1>1
<1>5. PICK hole \in Nat : hole = Len(C) + 1
  <2>1. Structure(C, levelStack, cursor)
      BY <1>3, CommittedStructure DEF WriterInv
  <2>2. Len(C) \in Nat
      BY <2>1 DEF Structure
  <2> QED  BY <2>2
<1>6. PICK open : open = Append(levelStack, <<stash, hole>>)
    OBVIOUS
<1>7. /\ levelStack' = open /\ index' = Append(C, Hole)
      /\ written' = 0 /\ uncommitted' = 0 /\ buffer' = buffer /\ cursor' = cursor
    BY <1>3, <1>4, <1>5, <1>6 DEF Begin, NextHole
<1>8. PICK L : L = Now
    OBVIOUS
<1>9. PICK M : M = LevelFun(buffer, cursor, Append(C, Hole), open, 0)
    OBVIOUS
<1>10. L \in LevelsTo(m) /\ M \in LevelsTo(m + 1) /\ StepBegin(L, M, m)
    BY <1>1, <1>2, <1>3, <1>4, <1>5, <1>6, <1>8, <1>9, BeginChanges DEF Now
<1>11. CountsOf(M, open, 0)
    BY <1>1, <1>4, <1>6, <1>8, <1>10, CountsBegin DEF WriterInv
<1>12. WriterInv' /\ Now' = M
    BY <1>7, <1>9, <1>11, Assembled, 0 + 0 = 0 DEF WriterInv
<1>13. Len(open) = m + 1
    BY <1>1, <1>4, <1>6
<1> QED  BY <1>4, <1>7, <1>8, <1>10, <1>12, <1>13 DEF Types

LEMMA EndMoves ==
    ASSUME WriterInv, BaseInv', End
    PROVE  /\ WriterInv'
           /\ \E m \in Nat, bytes \in Seq(Nat) :
                 /\ Len(levelStack) = m + 1 /\ Len(levelStack') = m
                 /\ Types(Now, Now', m + 1, m)
                 /\ bytes = VarintOf[Len(Now[m + 1])]
                 /\ StepEnd(Now, Now', m, bytes)
<1>1. /\ Structure(index, levelStack, cursor - uncommitted) /\ levelStack \in Seq(Pair)
      /\ cursor \in Nat /\ uncommitted \in Nat /\ written \in Nat
    BY StructureNow DEF WriterInv
<1>2. Holds(buffer, cursor, uncommitted) /\ Ready([Here EXCEPT !.count = 0])
    BY HoldsNow DEF Ready, Here
<1>3. PICK C : C = Committed /\ C = Commit(index, cursor, uncommitted)
    BY CommittedIs
<1>4. PICK m \in Nat, length \in Nat :
              m + 1 = Len(levelStack) /\ m = Len(levelStack) - 1 /\ length = written + uncommitted
  <2>1. levelStack # << >>
      BY DEF End
  <2> QED  BY <1>1, <2>1
<1>5. PICK bytes \in Seq(Nat) : bytes = VarintOf[length]
    BY VarintType
<1>6. PICK n \in Nat : n = Len(bytes)
    OBVIOUS
<1>7. PICK w : w = WriteBytesTo([Here EXCEPT !.count = 0], bytes)
    OBVIOUS
<1>8. /\ Typed(w) /\ Advances([Here EXCEPT !.count = 0], w, n)
      /\ Ready(w) /\ Wrote([Here EXCEPT !.count = 0], w, bytes)
  <2>1. Typed([Here EXCEPT !.count = 0])
      BY HereTyped DEF WriterInv
  <2> QED  BY <1>2, <1>6, <1>7, <2>1, WriteBytesTypes, WriteBytesStores
<1>9. w.count = n /\ w.cursor = cursor + n
    BY <1>8 DEF Advances, Here
<1>10. Extends(buffer, cursor, w.buffer, bytes)
  <2>1. /\ \A i \in 1 .. cursor : w.buffer[i] = buffer[i]
        /\ \A i \in 1 .. Len(bytes) : w.buffer[cursor + i] = bytes[i]
      BY <1>8 DEF Wrote, Here
  <2>2. w.buffer \in Seq(Nat) /\ cursor + Len(bytes) <= Len(w.buffer)
      BY <1>6, <1>8, <1>9 DEF Typed, Ready
  <2>3. cursor <= Len(w.buffer)
      BY <1>1, <1>6, <2>2
  <2> QED  BY <1>1, <1>2, <2>1, <2>2, <2>3 DEF Extends, Keeps, Holds
<1>11. PICK out : out = [C EXCEPT ![levelStack[m + 1][2]] = <<cursor, n>>]
    OBVIOUS
<1>12. PICK open : open = SubSeq(levelStack, 1, m)
    OBVIOUS
<1>13. /\ index' = out /\ levelStack' = open
       /\ written' = levelStack[m + 1][1] + n + length
       /\ buffer' = w.buffer /\ cursor' = cursor + n /\ uncommitted' = 0
    BY <1>3, <1>4, <1>5, <1>7, <1>9, <1>11, <1>12 DEF End, OuterWritten
<1>14. Structure(out, open, cursor + n)
  <2>1. Structure(index', levelStack', cursor' - uncommitted')
      BY DEF BaseInv
  <2>2. cursor' - uncommitted' = cursor + n
      BY <1>1, <1>6, <1>13
  <2> QED  BY <1>13, <2>1, <2>2
<1>15. Filled(C, levelStack, cursor, n, m, out, open)
    BY <1>11, <1>12 DEF Filled
<1>16. PICK L : L = Now
    OBVIOUS
<1>17. PICK M : M = LevelFun(w.buffer, cursor + n, out, open, 0)
    OBVIOUS
<1>18. L \in LevelsTo(m + 1) /\ M \in LevelsTo(m) /\ StepEnd(L, M, m, bytes)
    BY <1>1, <1>2, <1>3, <1>4, <1>6, <1>10, <1>14, <1>15, <1>16, <1>17, EndChanges DEF Now
<1>19. CountsOf(L, levelStack, length)
    BY <1>4, <1>16 DEF WriterInv
<1>20. CountsOf(M, open, levelStack[m + 1][1] + n + length)
    BY <1>1, <1>4, <1>6, <1>12, <1>18, <1>19, CountsEnd
<1>21. levelStack[m + 1][1] + n + length = (levelStack[m + 1][1] + n + length) + 0
  <2>1. levelStack[m + 1][1] \in Nat
      BY <1>1, <1>4, m + 1 \in 1 .. Len(levelStack) DEF Structure, LevelsOpen
  <2> QED  BY <2>1
<1>22. w.buffer \in Seq(Nat) /\ cursor + n <= Len(w.buffer) /\ Len(w.buffer) > 0
    BY <1>8, <1>9 DEF Typed, Ready
<1>23. WriterInv' /\ Now' = M
    BY <1>13, <1>17, <1>20, <1>21, <1>22, Assembled
<1>24. Len(L[m + 1]) = length
    BY <1>4, <1>19 DEF CountsOf
<1>25. Len(open) = m
    BY <1>1, <1>4, <1>12
<1>26. /\ Len(levelStack) = m + 1 /\ Len(levelStack') = m
       /\ Types(Now, Now', m + 1, m)
       /\ bytes = VarintOf[Len(Now[m + 1])]
       /\ StepEnd(Now, Now', m, bytes)
    BY <1>4, <1>5, <1>13, <1>16, <1>18, <1>23, <1>24, <1>25 DEF Types
<1> QED  BY <1>23, <1>26

LEMMA ResetMoves ==
    ASSUME Capacity > 0, BaseInv', Reset
    PROVE  WriterInv' /\ Len(levelStack') = 0 /\ Now' \in LevelsTo(0) /\ Now'[0] = << >>
<1>1. /\ cursor' = 0 /\ index' = << >> /\ levelStack' = << >> /\ written' = 0
      /\ uncommitted' = 0 /\ buffer' = EmptyBuffer
    BY DEF Reset
<1>2. EmptyBuffer \in Seq(Nat) /\ 0 <= Len(EmptyBuffer) /\ Len(EmptyBuffer) > 0
    BY EmptyBufferIs, CapacityAssumption
<1>3. PICK M : M = LevelFun(EmptyBuffer, 0, << >>, << >>, 0)
    OBVIOUS
<1>4. CountsOf(M, << >>, 0) /\ M \in LevelsTo(0) /\ M[0] = << >>
    BY <1>2, <1>3, EmptyCounts, EmptyLevel
<1>5. WriterInv' /\ Now' = M
    BY <1>1, <1>2, <1>3, <1>4, Assembled, 0 + 0 = 0
<1> QED  BY <1>1, <1>4, <1>5

LEMMA EndThrowsMoves ==
    ASSUME WriterInv, BaseInv', EndThrows
    PROVE  WriterInv' /\ Now' = Now /\ levelStack' = levelStack
<1>1. /\ index' = Committed /\ written' = written + uncommitted /\ uncommitted' = 0
      /\ buffer' = buffer /\ cursor' = cursor /\ levelStack' = levelStack
    BY DEF EndThrows
<1>2. written \in Nat /\ uncommitted \in Nat
    BY StructureNow DEF WriterInv
<1>3. PICK L : L = Now /\ L = LevelFun(buffer, cursor, Committed, levelStack, 0)
    BY CommittedIsNow
<1>4. CountsOf(L, levelStack, written + uncommitted)
    BY <1>3 DEF WriterInv
<1>5. WriterInv' /\ Now' = L
    BY <1>1, <1>2, <1>3, <1>4, Assembled, (written + uncommitted) + 0 = written + uncommitted
       DEF WriterInv
<1> QED  BY <1>1, <1>3, <1>5

LEMMA ByteMoves ==
    ASSUME WriterInv, BaseInv', NEW byte \in Bytes, WriteByte(byte)
    PROVE  /\ WriterInv'
           /\ Types(Now, Now', Len(levelStack), Len(levelStack))
           /\ StepWrite(Now, Now', Len(levelStack), <<byte>>)
<1>1. PICK w : w = WriteByteTo(Here, byte)
    OBVIOUS
<1>2. byte \in Nat /\ Typed(Here) /\ Ready(Here)
    BY BytesAre, HereTyped, HoldsNow DEF WriterInv
<1>3. Typed(w) /\ Advances(Here, w, 1) /\ Ready(w) /\ Wrote(Here, w, <<byte>>)
    BY <1>1, <1>2, WriteByteTypes, WriteByteStores
<1>4. PICK bytes \in Seq(Nat) : bytes = <<byte>> /\ Len(bytes) = 1
    BY <1>2, Singleton
<1>5. Advances(Here, w, Len(bytes)) /\ Wrote(Here, w, bytes)
    BY <1>3, <1>4
<1>6. /\ buffer' = w.buffer /\ cursor' = w.cursor /\ uncommitted' = w.count
      /\ UNCHANGED <<index, levelStack, written>>
    BY <1>1 DEF WriteByte
<1>7. /\ WriterInv'
      /\ Types(Now, Now', Len(levelStack), Len(levelStack))
      /\ StepWrite(Now, Now', Len(levelStack), bytes)
    BY <1>3, <1>5, <1>6, WriteMoves
<1> QED  BY <1>4, <1>7

LEMMA BlockMoves ==
    ASSUME WriterInv, BaseInv', NEW block \in Blocks, WriteBlock(block)
    PROVE  /\ WriterInv'
           /\ Types(Now, Now', Len(levelStack), Len(levelStack))
           /\ StepWrite(Now, Now', Len(levelStack), block)
<1>1. PICK w : w = WriteBlockTo(Here, block)
    OBVIOUS
<1>2. block \in Seq(Nat) /\ Typed(Here) /\ Ready(Here)
    BY BytesAre, HereTyped, HoldsNow DEF WriterInv
<1>3. Typed(w) /\ Advances(Here, w, Len(block)) /\ Ready(w) /\ Wrote(Here, w, block)
    BY <1>1, <1>2, WriteBlockTypes, WriteBlockStores
<1>4. /\ buffer' = w.buffer /\ cursor' = w.cursor /\ uncommitted' = w.count
      /\ UNCHANGED <<index, levelStack, written>>
    BY <1>1 DEF WriteBlock
<1> QED  BY <1>2, <1>3, <1>4, WriteMoves

LEMMA WriterStays ==
    ASSUME WriterInv, BaseInv',
           UNCHANGED <<buffer, cursor, index, levelStack, written, uncommitted>>
    PROVE  WriterInv' /\ Now' = Now
BY DEF WriterInv, Now

LEMMA WriterStep ==
    ASSUME Capacity > 0, WriterInv, [Next]_vars
    PROVE  WriterInv'
<1>0. BaseInv'
    BY BaseStep DEF WriterInv
<1>1. ASSUME NEW byte \in Bytes, WriteByte(byte) PROVE WriterInv'
    BY <1>0, <1>1, ByteMoves
<1>2. ASSUME NEW block \in Blocks, WriteBlock(block) PROVE WriterInv'
    BY <1>0, <1>2, BlockMoves
<1>3. CASE Begin
    BY <1>0, <1>3, BeginMoves
<1>4. CASE End
    BY <1>0, <1>4, EndMoves
<1>5. CASE EndThrows
    BY <1>0, <1>5, EndThrowsMoves
<1>6. CASE Finish \/ Clear
    BY <1>0, <1>6, ResetMoves DEF Finish, Clear
<1>7. CASE FinishThrows \/ UNCHANGED vars
    BY <1>0, <1>7, WriterStays DEF FinishThrows, vars
<1> QED  BY <1>1, <1>2, <1>3, <1>4, <1>5, <1>6, <1>7 DEF Next

LEMMA WriterCorrect ==
    ASSUME Capacity > 0
    PROVE  Spec => []WriterInv
<1>1. Init => WriterInv
    BY WriterInit
<1>2. WriterInv /\ [Next]_vars => WriterInv'
    BY WriterStep
<1> QED  BY <1>1, <1>2, PTL DEF Spec

(* A writer whose permanent buffer is not empty never loses a byte: the    *)
(* growth of write and of writeBlock always makes room for what is         *)
(* written, a length prefix of end included.                               *)
THEOREM BufferNeverShort ==
    ASSUME Capacity > 0
    PROVE  Spec => []BufferHoldsMessage
<1>1. WriterInv => BufferHoldsMessage
    BY DEF WriterInv, BufferHoldsMessage
<1> QED  BY <1>1, WriterCorrect, PTL

(* What end writes as the length of a level is the number of bytes that    *)
(* finish will dump between the hole of that level and the next.           *)
THEOREM LengthsAreRight ==
    ASSUME Capacity > 0
    PROVE  Spec => []CountsAgree
<1>1. WriterInv => CountsAgree
  <2> SUFFICES ASSUME WriterInv PROVE CountsAgree
      OBVIOUS
  <2>1. PICK m \in Nat : m = Len(levelStack)
      BY StructureNow DEF WriterInv
  <2>2. \A k \in 0 .. m : LevelBytes(k) = Now[k]
      BY <2>1, LevelBytesIs DEF Now, LevelFun
  <2>3. Len(LevelBytes(m)) = written + uncommitted
      BY <2>1, <2>2, m \in 0 .. m DEF WriterInv, CountsOf
  <2>4. ASSUME NEW k \in 1 .. m PROVE Len(LevelBytes(k - 1)) = levelStack[k][1]
    <3>1. k - 1 \in 0 .. m
        OBVIOUS
    <3> QED  BY <2>1, <2>2, <3>1 DEF WriterInv, CountsOf
  <2> QED  BY <2>1, <2>3, <2>4 DEF CountsAgree, Depth
<1> QED  BY <1>1, WriterCorrect, PTL

-----------------------------------------------------------------------------
(* The writer implements the stack of buffers                              *)

LEMMA LevelsAre ==
    ASSUME levelStack \in Seq(Pair)
    PROVE  Levels = Flip(Len(levelStack), Now)
<1>1. PICK m \in Nat : m = Len(levelStack)
    OBVIOUS
<1>2. ASSUME NEW k \in 1 .. m + 1 PROVE LevelBytes((m + 1) - k) = Now[(m + 1) - k]
  <2>1. (m + 1) - k \in 0 .. m
      OBVIOUS
  <2> QED  BY <1>1, <2>1, LevelBytesIs DEF Now, LevelFun
<1> QED  BY <1>1, <1>2 DEF Levels, Depth, Flip

LEMMA LevelBytesNext ==
    \A k : LevelBytes(k)' = LevelOf(buffer', cursor', index', levelStack', uncommitted', k)
BY DEF LevelBytes, FirstPiece, LastPiece, Depth, Pieces, Piece, LevelOf, FirstOf, LastOf,
       TailOf, PiecesOf, Cut

LEMMA LevelsNext ==
    ASSUME levelStack' \in Seq(Pair)
    PROVE  Levels' = Flip(Len(levelStack'), Now')
<1>1. PICK m \in Nat : m = Len(levelStack')
    OBVIOUS
<1>2. ASSUME NEW k \in 1 .. m + 1 PROVE LevelBytes((m + 1) - k)' = Now'[(m + 1) - k]
  <2>1. (m + 1) - k \in 0 .. m
      OBVIOUS
  <2> QED  BY <1>1, <2>1, LevelBytesNext DEF Now, LevelFun
<1> QED  BY <1>1, <1>2 DEF Levels, Depth, Flip

LEMMA SameVarint == Reference!VarintOf = VarintOf
BY DEF Reference!VarintOf, VarintOf

LEMMA NoLevels ==
    ASSUME NEW L \in LevelsTo(0), L[0] = << >>
    PROVE  Flip(0, L) = << << >> >>
<1>1. DOMAIN Flip(0, L) = 1 .. 1 /\ Flip(0, L)[1] = L[0]
    BY DEF Flip
<1>2. Flip(0, L) = [k \in 1 .. 1 |-> << >>]
    BY <1>1 DEF Flip
<1>3. << << >> >> = [k \in 1 .. 1 |-> << >>]
    OBVIOUS
<1> QED  BY <1>2, <1>3

LEMMA InitImplements == Capacity > 0 /\ Init => Reference!Init
<1> SUFFICES ASSUME Capacity > 0, Init PROVE Reference!Init
    OBVIOUS
<1>1. /\ cursor = 0 /\ index = << >> /\ levelStack = << >> /\ uncommitted = 0 /\ output = << >>
      /\ buffer \in Seq(Nat)
    BY EmptyBufferIs DEF Init
<1>2. Now \in LevelsTo(0) /\ Now[0] = << >> /\ Len(levelStack) = 0
    BY <1>1, EmptyLevel DEF Now
<1>3. Levels = Flip(0, Now)
    BY <1>1, <1>2, LevelsAre
<1>4. Levels = << << >> >>
    BY <1>2, <1>3, NoLevels
<1> QED  BY <1>1, <1>4 DEF Reference!Init

(* What a step of each kind does to the stack of buffers. *)
LEMMA WriteImplements ==
    ASSUME NEW m \in Nat, NEW L, NEW M, NEW bytes \in Seq(Nat), Types(L, M, m, m),
           StepWrite(L, M, m, bytes), Levels = Flip(m, L), Levels' = Flip(m, M),
           output' = << >>
    PROVE  Reference!Write(bytes)
<1>1. Appended(Flip(m, M), Flip(m, L), bytes)
    BY FlipWrite DEF Types
<1>2. Appended(Levels', Levels, bytes)
    BY <1>1
<1> QED  BY <1>2 DEF Appended, Reference!Write

LEMMA BeginImplements ==
    ASSUME NEW m \in Nat, NEW L, NEW M, Types(L, M, m, m + 1), StepBegin(L, M, m),
           Levels = Flip(m, L), Levels' = Flip(m + 1, M), output' = << >>
    PROVE  Reference!Begin
<1>1. Opened(Flip(m + 1, M), Flip(m, L))
    BY FlipBegin DEF Types
<1>2. Opened(Levels', Levels)
    BY <1>1
<1> QED  BY <1>2 DEF Opened, Reference!Begin

LEMMA EndImplements ==
    ASSUME NEW m \in Nat, NEW L, NEW M, NEW bytes \in Seq(Nat), Types(L, M, m + 1, m),
           bytes = VarintOf[Len(L[m + 1])], StepEnd(L, M, m, bytes),
           Levels = Flip(m + 1, L), Levels' = Flip(m, M), output' = << >>
    PROVE  Reference!End
<1>1. /\ Len(Flip(m + 1, L)) > 1 /\ Head(Flip(m + 1, L)) = L[m + 1]
      /\ Shut(Flip(m, M), Flip(m + 1, L), bytes)
    BY FlipEnd DEF Types
<1>2. Len(Levels) > 1 /\ Head(Levels) = L[m + 1] /\ Shut(Levels', Levels, bytes)
    BY <1>1
<1>3. bytes = Reference!VarintOf[Len(Head(Levels))]
    BY <1>2, SameVarint
<1> QED  BY <1>2, <1>3 DEF Shut, Reference!End

(* finish hands out what the only level holds. *)
LEMMA FinishImplements ==
    ASSUME WriterInv, Finish, Levels = Flip(Len(levelStack), Now),
           Levels' = << << >> >>
    PROVE  Reference!Finish
<1>1. levelStack = << >> /\ Len(levelStack) = 0
    BY DEF Finish
<1>2. PICK C : C = Committed
    OBVIOUS
<1>3. Holds(buffer, cursor, 0) /\ buffer \in Seq(Nat)
  <2>1. Holds(buffer, cursor, uncommitted)
      BY HoldsNow
  <2> QED  BY <2>1 DEF Holds
<1>4. PICK bytes \in Seq(Nat) : bytes = Pieces(C, 1, Len(C))
    BY <1>1, <1>2, PiecesTyped DEF WriterInv
<1>5. Now[0] = bytes
  <2>1. Now = LevelFun(buffer, cursor, C, levelStack, 0)
      BY <1>2, CommittedIsNow
  <2>2. Now[0] = LevelOf(buffer, cursor, C, levelStack, 0, 0)
      BY <1>1, <2>1 DEF LevelFun
  <2>3. FirstOf(levelStack, 0) = 1 /\ LastOf(C, levelStack, 0) = Len(C)
      BY <1>1 DEF FirstOf, LastOf
  <2>4. TailOf(buffer, cursor, levelStack, 0, 0) = << >>
      BY <1>3, NoTail
  <2>5. PiecesOf(buffer, C, 1, Len(C)) = bytes
      BY <1>4, PiecesIs
  <2>6. LevelOf(buffer, cursor, C, levelStack, 0, 0) = bytes \o << >>
      BY <2>3, <2>4, <2>5 DEF LevelOf
  <2> QED  BY <2>2, <2>6, WithNothing
<1>6. Len(bytes) = written + uncommitted
    BY <1>1, <1>5 DEF WriterInv, CountsOf
<1>7. output' = Collect(written + uncommitted, bytes)
    BY <1>2, <1>4 DEF Finish, Returns
<1>8. output' = bytes
  <2>1. Len(bytes) \in Nat
      BY <1>4
  <2>2. Collect(Len(bytes), bytes) = bytes
      BY <2>1, CollectIs
  <2> QED  BY <1>6, <1>7, <2>2
<1>9. Len(Levels) = 1 /\ Head(Levels) = bytes
  <2>1. Levels = [k \in 1 .. 1 |-> Now[1 - k]]
      BY <1>1 DEF Flip
  <2>2. Levels = <<bytes>>
      BY <1>5, <2>1
  <2> QED  BY <2>2
<1> QED  BY <1>8, <1>9 DEF Reference!Finish

LEMMA StepImplements ==
    ASSUME Capacity > 0, WriterInv, [Next]_vars
    PROVE  [Reference!Next]_(Reference!vars)
<1>0. BaseInv' /\ BaseInv
    BY BaseStep DEF WriterInv
<1>1. Levels = Flip(Len(levelStack), Now) /\ Levels' = Flip(Len(levelStack'), Now')
  <2>1. levelStack \in Seq(Pair) /\ levelStack' \in Seq(Pair)
      BY <1>0 DEF BaseInv, Structure
  <2> QED  BY <2>1, LevelsAre, LevelsNext
<1>2. PICK m \in Nat : m = Len(levelStack)
    BY <1>0, StructureNow
<1>3. ASSUME Reset PROVE Levels' = << << >> >>
    BY <1>0, <1>1, <1>3, ResetMoves, NoLevels
<1>4. ASSUME NEW byte \in Bytes, WriteByte(byte) PROVE Reference!Next
  <2>1. Types(Now, Now', m, m) /\ StepWrite(Now, Now', m, <<byte>>)
      BY <1>0, <1>2, <1>4, ByteMoves
  <2>2. levelStack' = levelStack /\ output' = << >>
      BY <1>4 DEF WriteByte, Returns
  <2>3. PICK block \in Seq(Nat) : block = <<byte>>
      BY BytesAre, Singleton
  <2>4. Reference!Write(block)
      BY <1>1, <1>2, <2>1, <2>2, <2>3, WriteImplements
  <2>5. block \in Blocks \cup {<<b>> : b \in Bytes}
      BY <2>3
  <2> QED  BY <2>4, <2>5 DEF Reference!Next
<1>5. ASSUME NEW block \in Blocks, WriteBlock(block) PROVE Reference!Next
  <2>1. Types(Now, Now', m, m) /\ StepWrite(Now, Now', m, block) /\ block \in Seq(Nat)
      BY <1>0, <1>2, <1>5, BlockMoves, BytesAre
  <2>2. levelStack' = levelStack /\ output' = << >>
      BY <1>5 DEF WriteBlock, Returns
  <2>3. Reference!Write(block)
      BY <1>1, <1>2, <2>1, <2>2, WriteImplements
  <2> QED  BY <2>3 DEF Reference!Next
<1>6. CASE Begin
  <2>1. /\ Types(Now, Now', m, m + 1) /\ StepBegin(Now, Now', m) /\ Len(levelStack') = m + 1
        /\ output' = << >>
      BY <1>0, <1>2, <1>6, BeginMoves DEF Begin, Returns
  <2>2. Reference!Begin
      BY <1>1, <1>2, <2>1, BeginImplements
  <2> QED  BY <2>2 DEF Reference!Next
<1>7. CASE End
  <2>1. PICK l \in Nat, bytes \in Seq(Nat) :
               /\ Len(levelStack) = l + 1 /\ Len(levelStack') = l
               /\ Types(Now, Now', l + 1, l)
               /\ bytes = VarintOf[Len(Now[l + 1])]
               /\ StepEnd(Now, Now', l, bytes)
      BY <1>0, <1>7, EndMoves
  <2>2. output' = << >>
      BY <1>7 DEF End, Returns
  <2>3. Reference!End
      BY <1>1, <2>1, <2>2, EndImplements
  <2> QED  BY <2>3 DEF Reference!Next
<1>8. CASE Finish
  <2>1. Reference!Finish
      BY <1>1, <1>3, <1>8, FinishImplements DEF Finish
  <2> QED  BY <2>1 DEF Reference!Next
<1>9. CASE Clear
  <2>1. Levels' = << << >> >> /\ output' = << >>
      BY <1>3, <1>9 DEF Clear, Returns
  <2>2. Reference!Clear
      BY <2>1 DEF Reference!Clear
  <2> QED  BY <2>2 DEF Reference!Next
<1>10. CASE EndThrows \/ FinishThrows
  <2>1. Now' = Now /\ levelStack' = levelStack /\ output' = << >>
    <3>1. CASE EndThrows
        BY <1>0, <3>1, EndThrowsMoves DEF EndThrows, Returns
    <3>2. CASE FinishThrows
        BY <1>0, <3>2, WriterStays DEF FinishThrows, Returns
    <3> QED  BY <1>10, <3>1, <3>2
  <2>2. Levels' = Levels
      BY <1>1, <2>1
  <2>3. Reference!Throw
      BY <2>1, <2>2 DEF Reference!Throw
  <2> QED  BY <2>3 DEF Reference!Next
<1>11. CASE UNCHANGED vars
  <2>1. Now' = Now /\ levelStack' = levelStack /\ output' = output
      BY <1>0, <1>11, WriterStays DEF vars
  <2>2. Levels' = Levels
      BY <1>1, <2>1
  <2> QED  BY <2>1, <2>2 DEF Reference!vars
<1> QED
    BY <1>4, <1>5, <1>6, <1>7, <1>8, <1>9, <1>10, <1>11 DEF Next

(* The one buffer with its index and holes behaves as a stack of byte      *)
(* sequences, the reference writer of test/mock.ts: for every sequence of  *)
(* operations, blocks, depth and capacity but 0, finish returns the bytes  *)
(* that writer would.                                                      *)
THEOREM WriterImplements ==
    ASSUME Capacity > 0
    PROVE  Spec => ImplementsNestedBuffers
<1>1. Init => WriterInv /\ Reference!Init
    BY WriterInit, InitImplements
<1>2. WriterInv /\ [Next]_vars => WriterInv'
    BY WriterStep
<1>3. WriterInv /\ [Next]_vars => [Reference!Next]_(Reference!vars)
    BY StepImplements
<1> QED  BY <1>1, <1>2, <1>3, PTL DEF Spec, ImplementsNestedBuffers, Reference!Spec
=============================================================================
