------------------------ MODULE MessageDecode_proofs ------------------------
(***************************************************************************)
(* Proofs about the decoding of messages, for every base of a varint and   *)
(* any messages: what the readers make of the bytes that the writers make, *)
(* and where they are in the input when they are done.                     *)
(***************************************************************************)
EXTENDS DecodableInputs, NaturalSets, SequenceTheorems, TLAPS

-----------------------------------------------------------------------------
(* Smallest elements, and functions defined by recursion                   *)

LEMMA MinIs ==
    ASSUME NEW S \in SUBSET Nat, NEW x \in S, \A y \in S : x <= y
    PROVE  Min(S) = x
<1> DEFINE Smallest(m) == m \in S /\ \A y \in S : m <= y
<1>1. ASSUME NEW m, Smallest(m) PROVE m = x
  <2>1. m \in Nat /\ x \in Nat /\ m <= x /\ x <= m
      BY <1>1
  <2> QED  BY <2>1
<1>2. Smallest(x)
    OBVIOUS
<1>3. Min(S) = CHOOSE m : Smallest(m)
    BY DEF Min
<1> HIDE DEF Smallest
<1> QED  BY <1>1, <1>2, <1>3

(* A function that is given at 0, and at each later number by a step from  *)
(* the one before it.                                                      *)
Steps(g, m, start, step) ==
    g = [k \in 0 .. m |-> IF k = 0 THEN start ELSE step[<<g[k - 1], k>>]]

LEMMA StepsExist ==
    ASSUME NEW X, NEW start \in X, NEW m \in Nat, NEW step \in [X \X (1 .. m) -> X]
    PROVE  \E g \in [0 .. m -> X] : Steps(g, m, start, step)
<1> DEFINE T == {n \in Nat : n <= m => \E g \in [0 .. n -> X] : Steps(g, n, start, step)}
<1>1. 0 \in T
  <2> DEFINE g == [k \in 0 .. 0 |-> start]
  <2>1. g \in [0 .. 0 -> X] /\ Steps(g, 0, start, step)
      BY DEF Steps
  <2> QED  BY <2>1
<1>2. ASSUME NEW n \in T, n + 1 <= m PROVE n + 1 \in T
  <2>0. n \in Nat /\ n <= m
      BY <1>2
  <2>1. PICK g \in [0 .. n -> X] : Steps(g, n, start, step)
      BY <2>0
  <2>2. PICK last \in X : last = step[<<g[n], n + 1>>]
    <3>1. g[n] \in X /\ n + 1 \in 1 .. m
        BY <1>2, <2>0
    <3> QED  BY <3>1
  <2> DEFINE h == [k \in 0 .. n + 1 |-> IF k = n + 1 THEN last ELSE g[k]]
  <2>3. h \in [0 .. n + 1 -> X]
      BY <2>0
  <2>4. ASSUME NEW k \in 0 .. n + 1
        PROVE  h[k] = IF k = 0 THEN start ELSE step[<<h[k - 1], k>>]
    <3>1. CASE k = n + 1
      <4>1. h[k - 1] = g[n] /\ h[k] = last /\ k # 0
          BY <2>0, <3>1
      <4> HIDE DEF h
      <4> QED  BY <2>2, <3>1, <4>1
    <3>2. CASE k # n + 1
      <4>1. k \in 0 .. n /\ h[k] = g[k]
          BY <2>0, <3>2
      <4>2. g[k] = IF k = 0 THEN start ELSE step[<<g[k - 1], k>>]
          BY <2>1, <4>1 DEF Steps
      <4>3. k # 0 => k - 1 \in 0 .. n /\ h[k - 1] = g[k - 1]
          BY <2>0, <4>1
      <4> HIDE DEF h
      <4> QED  BY <4>1, <4>2, <4>3
    <3> QED  BY <3>1, <3>2
  <2>5. Steps(h, n + 1, start, step)
      BY <2>4 DEF Steps
  <2> HIDE DEF h
  <2> QED  BY <2>0, <2>3, <2>5
<1>3. T = Nat
  <2>1. \A n \in T : n + 1 \in T
    <3> SUFFICES ASSUME NEW n \in T PROVE n + 1 \in T
        OBVIOUS
    <3>1. CASE n + 1 <= m
        BY <1>2, <3>1
    <3>2. CASE ~(n + 1 <= m)
        BY <3>2
    <3> QED  BY <3>1, <3>2
  <2> HIDE DEF T
  <2>2. 0 \in T /\ T \in SUBSET Nat
      BY <1>1 DEF T
  <2> QED  BY <2>1, <2>2, Induction
<1> QED  BY <1>3

-----------------------------------------------------------------------------
(* The bytes of a varint                                                   *)

Digits(f, n) == IF n >= Base THEN <<Base + (n % Base)>> \o f[n \div Base] ELSE <<n>>
UpTo(f, n) == f = [k \in 0 .. n |-> Digits(f, k)]

LEMMA Shrinks ==
    ASSUME NEW n \in Nat, n >= Base
    PROVE  n \div Base \in 0 .. n - 1 /\ n % Base \in Nat
<1>1. Base \in Nat /\ Base > 1
    BY BaseAssumption
<1> QED  BY <1>1

(* Two initial parts of the function agree. *)
LEMMA UpToAgree ==
    ASSUME NEW n \in Nat, NEW m \in Nat, NEW f, UpTo(f, n), NEW g, UpTo(g, m),
           NEW k \in Nat, k <= n, k <= m
    PROVE  f[k] = g[k]
<1> DEFINE T == {i \in Nat : i <= n /\ i <= m /\ f[i] # g[i]}
<1> SUFFICES ASSUME T # {} PROVE FALSE
    OBVIOUS
<1>1. PICK i \in T : \A j \in T : i <= j
    BY Least, T \in SUBSET Nat
<1>2. f[i] = Digits(f, i) /\ g[i] = Digits(g, i)
  <2>1. i \in 0 .. n /\ i \in 0 .. m
      BY <1>1
  <2>2. f = [x \in 0 .. n |-> Digits(f, x)] /\ g = [x \in 0 .. m |-> Digits(g, x)]
      BY DEF UpTo
  <2> HIDE DEF T
  <2>3. f[i] = [x \in 0 .. n |-> Digits(f, x)][i]
      BY <2>2
  <2>4. g[i] = [x \in 0 .. m |-> Digits(g, x)][i]
      BY <2>2
  <2> QED  BY <2>1, <2>3, <2>4
<1>3. CASE i >= Base
  <2>1. i \div Base \in 0 .. i - 1
      BY <1>1, <1>3, Shrinks
  <2>2. i \div Base \notin T /\ i \div Base \in Nat
      BY <1>1, <2>1
  <2>3. f[i \div Base] = g[i \div Base]
      BY <1>1, <2>1, <2>2
  <2> QED  BY <1>1, <1>2, <2>3 DEF Digits
<1>4. CASE ~(i >= Base)
    BY <1>1, <1>2, <1>4 DEF Digits
<1> QED  BY <1>3, <1>4

LEMMA UpToExists == \A n \in Nat : \E f : UpTo(f, n)
<1> DEFINE S == {n \in Nat : \E f : UpTo(f, n)}
<1>b. Base \in Nat /\ Base > 1
    BY BaseAssumption
<1>1. 0 \in S
  <2> DEFINE f == [k \in 0 .. 0 |-> <<k>>]
  <2>1. \A k \in 0 .. 0 : Digits(f, k) = <<k>>
      BY <1>b DEF Digits
  <2>2. UpTo(f, 0)
      BY <2>1 DEF UpTo
  <2> QED  BY <2>2
<1>2. ASSUME NEW n \in S PROVE n + 1 \in S
  <2>1. PICK f : UpTo(f, n)
      OBVIOUS
  <2> DEFINE g == [k \in 0 .. n + 1 |-> IF k = n + 1 THEN Digits(f, k) ELSE f[k]]
  <2>2. ASSUME NEW k \in 0 .. n + 1 PROVE Digits(g, k) = Digits(f, k)
    <3>1. CASE k >= Base
      <4>1. PICK d \in 0 .. n : d = k \div Base
          BY <3>1, Shrinks
      <4>2. g[d] = f[d]
          BY <4>1
      <4> HIDE DEF g
      <4> QED  BY <3>1, <4>1, <4>2 DEF Digits
    <3>2. CASE ~(k >= Base)
        BY <3>2 DEF Digits
    <3> QED  BY <3>1, <3>2
  <2>3. ASSUME NEW k \in 0 .. n PROVE f[k] = Digits(f, k)
      BY <2>1 DEF UpTo
  <2>4. \A k \in 0 .. n + 1 : g[k] = Digits(g, k)
      BY <2>2, <2>3
  <2>5. UpTo(g, n + 1)
      BY <2>4 DEF UpTo
  <2> QED  BY <2>5
<1> HIDE DEF S
<1>3. S = Nat
    BY <1>1, <1>2, Induction DEF S
<1> QED  BY <1>3 DEF S

LEMMA VarintEquation == VarintOf = [n \in Nat |-> Digits(VarintOf, n)]
<1> DEFINE part(n) == CHOOSE f : UpTo(f, n)
           whole == [n \in Nat |-> part(n)[n]]
<1>1. \A n \in Nat : UpTo(part(n), n)
    BY UpToExists
<1> HIDE DEF part
<1>2. ASSUME NEW n \in Nat PROVE whole[n] = Digits(whole, n)
  <2>1. part(n)[n] = Digits(part(n), n)
      BY <1>1 DEF UpTo
  <2>2. CASE n >= Base
    <3>1. PICK d \in 0 .. n - 1 : d = n \div Base
        BY <2>2, Shrinks
    <3>2. part(n)[d] = part(d)[d]
        BY <1>1, <3>1, UpToAgree
    <3> QED  BY <2>1, <3>1, <3>2 DEF Digits
  <2>3. CASE ~(n >= Base)
      BY <2>1, <2>3 DEF Digits
  <2> QED  BY <2>2, <2>3
<1>3. whole = [n \in Nat |-> Digits(whole, n)]
    BY <1>2
<1>4. \E f : f = [n \in Nat |-> Digits(f, n)]
    BY <1>3
<1> QED  BY <1>4 DEF VarintOf, Digits

LEMMA VarintTyped == \A n \in Nat : VarintOf[n] \in Seq(Nat)
<1> DEFINE T == {n \in Nat : VarintOf[n] \notin Seq(Nat)}
<1> SUFFICES ASSUME T # {} PROVE FALSE
    OBVIOUS
<1>1. PICK n \in T : \A m \in T : n <= m
    BY Least, T \in SUBSET Nat
<1>2. VarintOf[n] = Digits(VarintOf, n)
    BY <1>1, VarintEquation
<1>3. CASE n >= Base
  <2>1. PICK d \in 0 .. n - 1 : d = n \div Base
      BY <1>1, <1>3, Shrinks
  <2>2. VarintOf[d] \in Seq(Nat)
      BY <1>1, <2>1
  <2>3. Base + (n % Base) \in Nat
      BY <1>1, <1>3, Shrinks, BaseAssumption
  <2>4. Digits(VarintOf, n) = <<Base + (n % Base)>> \o VarintOf[d]
      BY <1>3, <2>1 DEF Digits
  <2>5. <<Base + (n % Base)>> \in Seq(Nat)
      BY <2>3
  <2>6. VarintOf[n] \in Seq(Nat)
      BY <1>2, <2>2, <2>4, <2>5
  <2> QED  BY <1>1, <2>6
<1>4. CASE ~(n >= Base)
  <2>1. Digits(VarintOf, n) = <<n>> /\ n \in Nat
      BY <1>1, <1>4 DEF Digits
  <2>2. VarintOf[n] \in Seq(Nat)
      BY <1>2, <2>1
  <2> QED  BY <1>1, <2>2
<1> QED  BY <1>3, <1>4


(* What a varint looks like: its last byte is the one below Base. *)
VarintForm(s) ==
    /\ s \in Seq(Nat) /\ Len(s) > 0
    /\ \A i \in 1 .. Len(s) - 1 : s[i] >= Base
    /\ s[Len(s)] < Base

LEMMA VarintFormed == \A n \in Nat : VarintForm(VarintOf[n])
<1> DEFINE T == {n \in Nat : ~VarintForm(VarintOf[n])}
<1> SUFFICES ASSUME T # {} PROVE FALSE
    OBVIOUS
<1>1. PICK n \in T : \A m \in T : n <= m
    BY Least, T \in SUBSET Nat
<1>2. VarintOf[n] = Digits(VarintOf, n) /\ Base \in Nat /\ Base > 1
    BY <1>1, VarintEquation, BaseAssumption
<1>3. CASE n >= Base
  <2>1. PICK d \in 0 .. n - 1 : d = n \div Base
      BY <1>1, <1>3, Shrinks
  <2>2. VarintForm(VarintOf[d])
      BY <1>1, <2>1
  <2>a. PICK r \in Nat : r = n % Base
      BY <1>1, <1>3, Shrinks
  <2>3. PICK b \in Nat : b = Base + (n % Base) /\ b >= Base
      BY <1>2, <2>a
  <2>4. PICK s \in Seq(Nat) : s = VarintOf[d]
      BY <2>1, VarintTyped
  <2>5. PICK w : w = <<b>> \o s
      OBVIOUS
  <2>6. /\ w \in Seq(Nat) /\ Len(w) = Len(s) + 1 /\ w[1] = b
        /\ \A i \in 1 .. Len(s) : w[i + 1] = s[i]
      BY <2>5
  <2>7. ASSUME NEW i \in 1 .. Len(w) - 1 PROVE w[i] >= Base
    <3>1. CASE i = 1
        BY <2>3, <2>6, <3>1
    <3>2. CASE i # 1
      <4>1. PICK j \in 1 .. Len(s) - 1 : j + 1 = i
          BY <2>6, <3>2
      <4>2. w[j + 1] = s[j]
          BY <2>4, <2>6, <4>1
      <4>3. s[j] >= Base
          BY <2>2, <2>4, <4>1 DEF VarintForm
      <4> QED  BY <4>1, <4>2, <4>3
    <3> QED  BY <3>1, <3>2
  <2>8. w[Len(w)] < Base
    <3>1. Len(s) > 0 /\ s[Len(s)] < Base
        BY <2>2, <2>4 DEF VarintForm
    <3>2. PICK l \in Nat : l = Len(s) /\ l \in 1 .. Len(s)
        BY <3>1
    <3>3. w[l + 1] = s[l] /\ Len(w) = l + 1
        BY <2>6, <3>2
    <3> QED  BY <3>1, <3>2, <3>3
  <2>9. VarintForm(w)
      BY <2>6, <2>7, <2>8 DEF VarintForm
  <2> QED  BY <1>1, <1>2, <1>3, <2>1, <2>3, <2>4, <2>5, <2>9 DEF Digits
<1>4. CASE ~(n >= Base)
  <2>1. Digits(VarintOf, n) = <<n>> /\ n \in Nat /\ n < Base
      BY <1>1, <1>2, <1>4 DEF Digits
  <2>2. VarintForm(<<n>>)
      BY <2>1 DEF VarintForm
  <2> QED  BY <1>1, <1>2, <2>1, <2>2
<1> QED  BY <1>3, <1>4

LEMMA ShortVarint == \A n \in Nat : n < Base => VarintOf[n] = <<n>>
    BY VarintEquation, BaseAssumption DEF Digits

-----------------------------------------------------------------------------
(* Bytes in their place                                                    *)

(* The sequence s stands in bytes behind the cursor from. *)
Placed(bytes, from, s) ==
    /\ bytes \in Seq(Nat) /\ s \in Seq(Nat)
    /\ from \in Nat /\ from + Len(s) <= Len(bytes)
    /\ \A i \in 1 .. Len(s) : bytes[from + i] = s[i]

LEMMA SameSequence ==
    ASSUME NEW s \in Seq(Nat), NEW t \in Seq(Nat), Len(s) = Len(t),
           \A i \in 1 .. Len(s) : s[i] = t[i]
    PROVE  s = t
<1>1. s = [i \in 1 .. Len(s) |-> s[i]] /\ t = [i \in 1 .. Len(t) |-> t[i]]
    OBVIOUS
<1> QED  BY <1>1

LEMMA PlacedIn ==
    ASSUME NEW before \in Seq(Nat), NEW s \in Seq(Nat), NEW behind \in Seq(Nat)
    PROVE  Placed(before \o s \o behind, Len(before), s)
BY DEF Placed

LEMMA PlacedParts ==
    ASSUME NEW bytes, NEW from, NEW s \in Seq(Nat), NEW t \in Seq(Nat),
           Placed(bytes, from, s \o t)
    PROVE  Placed(bytes, from, s) /\ Placed(bytes, from + Len(s), t)
<1>1. /\ Len(s \o t) = Len(s) + Len(t)
      /\ \A i \in 1 .. Len(s) : i \in 1 .. Len(s \o t) /\ (s \o t)[i] = s[i]
      /\ \A i \in 1 .. Len(t) : Len(s) + i \in 1 .. Len(s \o t)
                                /\ (s \o t)[Len(s) + i] = t[i]
    OBVIOUS
<1>2. PICK k \in Nat : k = Len(s)
    OBVIOUS
<1>3. ASSUME NEW i \in 1 .. Len(t) PROVE bytes[(from + k) + i] = t[i]
  <2>1. from + (k + i) = (from + k) + i
      BY <1>2 DEF Placed
  <2> QED  BY <1>1, <1>2, <2>1 DEF Placed
<1>4. Placed(bytes, from, s)
    BY <1>1, SMTT(40) DEF Placed
<1> QED  BY <1>1, <1>2, <1>3, <1>4 DEF Placed

(* What Block cuts out of the bytes. *)
LEMMA BlockReads ==
    ASSUME NEW bytes, NEW from, NEW s, Placed(bytes, from, s)
    PROVE  Block(bytes, from, Len(s)) = Value(s, from + Len(s))
<1>1. from \in Nat /\ Len(s) \in Nat /\ Len(bytes) \in Nat /\ from + Len(s) <= Len(bytes)
    BY DEF Placed
<1>2. PICK to \in Nat : to = from + Len(s)
    BY <1>1
<1>3. Min({to, Len(bytes)}) = to
    BY <1>1, <1>2, MinIs
<1>4. SubSeq(bytes, from + 1, to) = s
  <2> DEFINE cut == SubSeq(bytes, from + 1, to)
  <2>1. /\ cut \in Seq(Nat) /\ Len(cut) = Len(s)
        /\ \A i \in 1 .. Len(s) : cut[i] = bytes[from + i]
      BY <1>1, <1>2 DEF Placed
  <2>2. s \in Seq(Nat) /\ \A i \in 1 .. Len(cut) : cut[i] = s[i]
      BY <2>1 DEF Placed
  <2> HIDE DEF cut
  <2>3. cut = s
      BY <2>1, <2>2, SameSequence
  <2> QED  BY <2>3 DEF cut
<1> QED  BY <1>2, <1>3, <1>4 DEF Block

-----------------------------------------------------------------------------
(* Reading a varint                                                        *)

High(bytes, from, last, h) ==
    h = [k \in 0 .. last - from |->
            IF k = 0 THEN 0 ELSE (bytes[last + 1 - k] % Base) + Base * h[k - 1]]

LEMMA HighExists ==
    ASSUME NEW bytes \in Seq(Nat), NEW from \in Nat, NEW last \in Nat,
           from <= last, last <= Len(bytes)
    PROVE  \E h \in [0 .. last - from -> Nat] : High(bytes, from, last, h)
<1>0. Base \in Nat /\ Base > 1
    BY BaseAssumption
<1>1. PICK m \in Nat : m = last - from
    OBVIOUS
<1> DEFINE step == [p \in Nat \X (1 .. m) |-> (bytes[last + 1 - p[2]] % Base) + Base * p[1]]
<1>2. ASSUME NEW v \in Nat, NEW k \in 1 .. m
      PROVE  (bytes[last + 1 - k] % Base) + Base * v \in Nat
  <2>1. last + 1 - k \in 1 .. Len(bytes)
      BY <1>1
  <2>2. PICK b \in Nat : b = bytes[last + 1 - k]
      BY <2>1
  <2>3. b % Base \in Nat /\ Base * v \in Nat
      BY <1>0
  <2> QED  BY <2>2, <2>3
<1>3. step \in [Nat \X (1 .. m) -> Nat]
    BY <1>2
<1>4. ASSUME NEW v \in Nat, NEW k \in 1 .. m
      PROVE  step[<<v, k>>] = (bytes[last + 1 - k] % Base) + Base * v
    OBVIOUS
<1> HIDE DEF step
<1>5. PICK h \in [0 .. m -> Nat] : Steps(h, m, 0, step)
    BY <1>3, StepsExist
<1>6. ASSUME NEW k \in 0 .. m
      PROVE  h[k] = IF k = 0 THEN 0 ELSE (bytes[last + 1 - k] % Base) + Base * h[k - 1]
  <2>1. h[k] = IF k = 0 THEN 0 ELSE step[<<h[k - 1], k>>]
      BY <1>5 DEF Steps
  <2>2. k # 0 => h[k - 1] \in Nat /\ k \in 1 .. m
      BY <1>5
  <2> QED  BY <1>4, <2>1, <2>2
<1>7. High(bytes, from, last, h)
    BY <1>1, <1>5, <1>6 DEF High
<1> QED  BY <1>1, <1>5, <1>7

(* The higher bytes have the same value, wherever the number begins. *)
LEMMA HighAgree ==
    ASSUME NEW bytes \in Seq(Nat), NEW from \in Nat, NEW other \in Nat, NEW last \in Nat,
           NEW h, High(bytes, from, last, h), NEW g, High(bytes, other, last, g),
           NEW k \in Nat, k <= last - from, k <= last - other
    PROVE  h[k] = g[k]
<1> DEFINE T == {i \in Nat : i <= last - from /\ i <= last - other /\ h[i] # g[i]}
<1> SUFFICES ASSUME T # {} PROVE FALSE
    OBVIOUS
<1>1. PICK i \in T : \A j \in T : i <= j
    BY Least, T \in SUBSET Nat
<1>2. /\ h[i] = IF i = 0 THEN 0 ELSE (bytes[last + 1 - i] % Base) + Base * h[i - 1]
      /\ g[i] = IF i = 0 THEN 0 ELSE (bytes[last + 1 - i] % Base) + Base * g[i - 1]
  <2>1. i \in 0 .. last - from /\ i \in 0 .. last - other
      BY <1>1
  <2> HIDE DEF T
  <2> QED  BY <2>1 DEF High
<1>3. i # 0 => i - 1 \in Nat /\ i - 1 \notin T
    BY <1>1
<1>4. i # 0 => h[i - 1] = g[i - 1]
    BY <1>1, <1>3
<1> QED  BY <1>1, <1>2, <1>4

LEMMA PayloadIs ==
    ASSUME NEW bytes \in Seq(Nat), NEW from \in Nat, NEW last \in Nat,
           from <= last, last <= Len(bytes)
    PROVE  \E h \in [0 .. last - from -> Nat] :
              High(bytes, from, last, h) /\ Payload(bytes, from, last) = h[last - from]
<1>1. PICK h \in [0 .. last - from -> Nat] : High(bytes, from, last, h)
    BY HighExists
<1>2. PICK g : g = CHOOSE f : High(bytes, from, last, f)
    OBVIOUS
<1>3. High(bytes, from, last, g)
    BY <1>1, <1>2
<1>4. Payload(bytes, from, last) = g[last - from]
    BY <1>2 DEF Payload, High
<1>5. g[last - from] = h[last - from]
    BY <1>1, <1>3, HighAgree, last - from \in Nat
<1> QED  BY <1>1, <1>4, <1>5

LEMMA PayloadNothing ==
    ASSUME NEW bytes \in Seq(Nat), NEW last \in Nat, last <= Len(bytes)
    PROVE  Payload(bytes, last, last) = 0
<1>1. PICK h : High(bytes, last, last, h) /\ Payload(bytes, last, last) = h[last - last]
    BY PayloadIs, last <= last
<1>2. last - last = 0 /\ 0 \in 0 .. last - last
    OBVIOUS
<1> QED  BY <1>1, <1>2 DEF High

LEMMA PayloadStep ==
    ASSUME NEW bytes \in Seq(Nat), NEW from \in Nat, NEW last \in Nat,
           from < last, last <= Len(bytes)
    PROVE  Payload(bytes, from, last)
           = (bytes[from + 1] % Base) + Base * Payload(bytes, from + 1, last)
<1>1. PICK h \in [0 .. last - from -> Nat] :
         High(bytes, from, last, h) /\ Payload(bytes, from, last) = h[last - from]
    BY PayloadIs, from <= last
<1>2. PICK next \in Nat : next = from + 1 /\ next <= last
    OBVIOUS
<1>3. PICK g :
         High(bytes, next, last, g) /\ Payload(bytes, next, last) = g[last - next]
    BY <1>2, PayloadIs, ZenonT(60)
<1>4. PICK k \in Nat : k = last - from /\ k # 0 /\ k - 1 = last - next /\ last + 1 - k = from + 1
    BY <1>2
<1>5. h[k] = (bytes[last + 1 - k] % Base) + Base * h[k - 1]
  <2>1. k \in 0 .. last - from
      BY <1>4
  <2> QED  BY <1>1, <1>4, <2>1 DEF High
<1>6. h[k - 1] = g[k - 1]
  <2>1. PICK j \in Nat : j = k - 1 /\ j <= last - from /\ j <= last - next
      BY <1>2, <1>4
  <2>2. High(bytes, from, last, h) /\ High(bytes, next, last, g)
      BY <1>1, <1>3
  <2>3. h[j] = g[j]
      BY <1>2, <2>1, <2>2, HighAgree, SMTT(40)
  <2> QED  BY <2>1, <2>3
<1> QED  BY <1>1, <1>2, <1>3, <1>4, <1>5, <1>6

LEMMA Division ==
    ASSUME NEW m \in Nat, NEW b \in Nat, b > 1
    PROVE  /\ m % b \in 0 .. b - 1 /\ m \div b \in Nat
           /\ m = (m % b) + b * (m \div b)
    OBVIOUS

LEMMA Remainder ==
    ASSUME NEW r \in Nat, NEW b \in Nat, r < b
    PROVE  (b + r) % b = r /\ r % b = r
    OBVIOUS

(* The bytes of a varint have the value they were made from. *)
LEMMA PayloadOfVarint ==
    ASSUME NEW n \in Nat, NEW bytes, NEW from, Placed(bytes, from, VarintOf[n])
    PROVE  Payload(bytes, from, from + Len(VarintOf[n])) = n
<1> DEFINE Misread(m) == \E b, f : Placed(b, f, VarintOf[m])
                                  /\ Payload(b, f, f + Len(VarintOf[m])) # m
           T == {m \in Nat : Misread(m)}
<1> SUFFICES ASSUME T # {} PROVE FALSE
    OBVIOUS
<1>1. PICK m \in T : \A l \in T : m <= l
    BY Least, T \in SUBSET Nat
<1>2. m \in Nat /\ Misread(m) /\ \A l \in Nat : l < m => ~Misread(l)
    BY <1>1
<1> HIDE DEF T, Misread
<1>3. PICK b, f : Placed(b, f, VarintOf[m]) /\ Payload(b, f, f + Len(VarintOf[m])) # m
    BY <1>2 DEF Misread
<1>4. b \in Seq(Nat) /\ f \in Nat /\ Base \in Nat /\ Base > 1
    BY <1>3, BaseAssumption DEF Placed
<1>5. VarintOf[m] = Digits(VarintOf, m)
    BY <1>2, VarintEquation
<1>6. CASE m >= Base
  <2>1. PICK d \in 0 .. m - 1 : d = m \div Base
      BY <1>2, <1>6, Shrinks
  <2>2. PICK r \in Nat : r = m % Base
      BY <1>2, <1>6, Shrinks
  <2>3. PICK s \in Seq(Nat) : s = VarintOf[d]
      BY <2>1, VarintTyped
  <2>4. VarintOf[m] = <<Base + r>> \o s
      BY <1>5, <1>6, <2>1, <2>2, <2>3 DEF Digits
  <2>5. Placed(b, f, <<Base + r>>) /\ Placed(b, f + 1, s) /\ Len(<<Base + r>> \o s) = 1 + Len(s)
    <3>1. <<Base + r>> \in Seq(Nat) /\ Len(<<Base + r>>) = 1
        BY <1>4, <2>2
    <3>2. Placed(b, f, <<Base + r>> \o s)
        BY <1>3, <2>4
    <3>3. Placed(b, f, <<Base + r>>) /\ Placed(b, f + Len(<<Base + r>>), s)
        BY <2>3, <3>1, <3>2, PlacedParts
    <3> QED  BY <2>3, <3>1, <3>3
  <2>6. b[f + 1] = Base + r
    <3>1. 1 \in 1 .. Len(<<Base + r>>) /\ <<Base + r>>[1] = Base + r
        OBVIOUS
    <3> QED  BY <2>5, <3>1 DEF Placed
  <2>7. PICK last \in Nat : last = (f + 1) + Len(s) /\ last = f + Len(VarintOf[m])
                            /\ f < last /\ last <= Len(b)
    <3>1. PICK l \in Nat : l = Len(s)
        BY <2>3
    <3>2. f + Len(VarintOf[m]) <= Len(b)
        BY <1>3 DEF Placed
    <3> QED  BY <1>4, <2>4, <2>5, <3>1, <3>2
  <2>8. Payload(b, f + 1, last) = d
    <3>1. ~Misread(d)
        BY <1>2, <2>1
    <3> QED  BY <2>3, <2>5, <2>7, <3>1 DEF Misread
  <2>9. Payload(b, f, last) = ((Base + r) % Base) + Base * d
    <3>1. Payload(b, f, last) = (b[f + 1] % Base) + Base * Payload(b, f + 1, last)
        BY <1>4, <2>7, PayloadStep
    <3> QED  BY <2>6, <2>8, <3>1
  <2>10. (Base + r) % Base = r /\ r + Base * d = m
    <3>1. r \in 0 .. Base - 1 /\ m = r + Base * d
        BY <1>2, <1>4, <2>1, <2>2, Division
    <3>2. r < Base
        BY <1>4, <3>1
    <3>3. (Base + r) % Base = r
        BY <1>4, <2>2, <3>2, Remainder
    <3> QED  BY <3>1, <3>3
  <2> QED  BY <1>3, <2>7, <2>9, <2>10
<1>7. CASE ~(m >= Base)
  <2>1. VarintOf[m] = <<m>> /\ Len(<<m>>) = 1 /\ m < Base
      BY <1>2, <1>4, <1>5, <1>7 DEF Digits
  <2>2. f + 1 <= Len(b) /\ b[f + 1] = m
      BY <1>3, <2>1 DEF Placed
  <2>3. Payload(b, f, f + 1) = (b[f + 1] % Base) + Base * Payload(b, f + 1, f + 1)
      BY <1>4, <2>2, PayloadStep
  <2>4. Payload(b, f + 1, f + 1) = 0
      BY <1>4, <2>2, PayloadNothing
  <2>5. m % Base = m
      BY <1>2, <1>4, <2>1, SMTT(40)
  <2> QED  BY <1>2, <1>3, <1>4, <2>1, <2>2, <2>3, <2>4, <2>5
<1> QED  BY <1>6, <1>7

(* A varint ends at its last byte, if the limit lets it.                   *)
LEMMA FirstTerminator ==
    ASSUME NEW bytes, NEW from, NEW s, VarintForm(s), Placed(bytes, from, s),
           NEW limit \in Nat, from + Len(s) <= limit
    PROVE  LET ends == Terminators(bytes, from, limit)
           IN  ends \in SUBSET Nat /\ from + Len(s) \in ends
               /\ \A i \in ends : from + Len(s) <= i
<1>1. /\ from \in Nat /\ Len(s) \in Nat /\ Len(s) > 0 /\ Len(bytes) \in Nat
      /\ from + Len(s) <= Len(bytes)
    BY DEF Placed, VarintForm
<1>2. PICK end \in Nat : end = from + Len(s)
    BY <1>1
<1>3. PICK top \in Nat : top = Min({limit, Len(bytes)}) /\ end <= top
  <2>1. CASE limit <= Len(bytes)
    <3>1. Min({limit, Len(bytes)}) = limit
        BY <1>1, <2>1, MinIs
    <3> QED  BY <1>2, <3>1
  <2>2. CASE ~(limit <= Len(bytes))
    <3>1. Min({limit, Len(bytes)}) = Len(bytes)
        BY <1>1, <2>2, MinIs
    <3> QED  BY <1>1, <1>2, <3>1
  <2> QED  BY <2>1, <2>2
<1>4. Terminators(bytes, from, limit) = {i \in from + 1 .. top : bytes[i] < Base}
    BY <1>3 DEF Terminators
<1>5. bytes[end] < Base
    BY <1>1, <1>2, SMTT(40) DEF Placed, VarintForm
<1>6. ASSUME NEW i \in from + 1 .. end - 1 PROVE ~(bytes[i] < Base)
  <2>1. PICK j \in 1 .. Len(s) - 1 : i = from + j
    <3>1. i - from \in 1 .. Len(s) - 1 /\ i = from + (i - from)
        BY <1>1, <1>2
    <3> QED  BY <3>1
  <2>2. s[j] >= Base /\ s[j] \in Nat
      BY <1>1, <2>1 DEF VarintForm
  <2>3. bytes[i] = s[j]
      BY <1>1, <2>1 DEF Placed
  <2> QED  BY <2>2, <2>3, BaseAssumption
<1>7. ASSUME NEW i \in from + 1 .. top, bytes[i] < Base PROVE end <= i
    BY <1>1, <1>2, <1>6, <1>7
<1>8. end \in from + 1 .. top
    BY <1>1, <1>2, <1>3
<1>9. PICK ends : ends = Terminators(bytes, from, limit)
    OBVIOUS
<1>10. ends \in SUBSET Nat /\ end \in ends /\ \A i \in ends : end <= i
    BY <1>1, <1>4, <1>5, <1>7, <1>8, <1>9
<1> QED  BY <1>2, <1>9, <1>10

LEMMA VarintReads ==
    ASSUME NEW n, Fits(n), NEW bytes, NEW from, Placed(bytes, from, VarintOf[n])
    PROVE  Varint(bytes, from) = Value(<<n>>, from + Len(VarintOf[n]))
<1>1. n \in Nat /\ VarintForm(VarintOf[n]) /\ VarintOf[n] \in Seq(Nat) /\ from \in Nat
    BY VarintFormed, VarintTyped DEF Fits, Placed
<1>2. PICK end \in Nat : end = from + Len(VarintOf[n]) /\ end <= from + 10
    BY <1>1 DEF Fits
<1>3. PICK ends \in SUBSET Nat : /\ ends = Terminators(bytes, from, from + 10)
                                 /\ end \in ends /\ \A i \in ends : end <= i
    BY <1>1, <1>2, FirstTerminator, from + 10 \in Nat
<1>4. Min(ends) = end /\ ends # {}
    BY <1>3, MinIs
<1>5. Payload(bytes, from, end) = n
    BY <1>1, <1>2, PayloadOfVarint
<1> QED  BY <1>2, <1>3, <1>4, <1>5 DEF Varint

-----------------------------------------------------------------------------
(* Reading and skipping the values of a wire type                          *)

LEMMA WireTypesDiffer ==
    /\ VarintType # DelimType /\ VarintType # SingleType /\ VarintType # DoubleType
    /\ DelimType # SingleType /\ DelimType # DoubleType /\ SingleType # DoubleType
    BY DEF VarintType, DelimType, SingleType, DoubleType

(* The values that a program may write, by wire type. *)
LEMMA DataForm ==
    ASSUME NEW wt, NEW value, IsData(wt, value)
    PROVE  /\ wt \in WireTypes /\ value \in Seq(Nat)
           /\ wt = VarintType => \E n : Fits(n) /\ value = <<n>>
           /\ wt = DelimType => Fits(Len(value))
           /\ wt \in {SingleType, DoubleType} => Len(value) = WidthOf(wt)
<1>1. wt \in WireTypes /\ value \in Seq(Nat) /\ (wt = DelimType => Fits(Len(value)))
    BY DEF IsData, IsPrimitive
<1>2. ASSUME wt = VarintType PROVE \E n : Fits(n) /\ value = <<n>>
  <2>a. Zero(VarintType) = <<0>> /\ VarintType # DelimType
      BY WireTypesDiffer DEF Zero
  <2>1. Len(value) = Len(<<0>>) /\ Len(<<0>>) = 1
      BY <1>2, <2>a DEF IsData, IsPrimitive
  <2>2. value = <<value[1]>>
      BY <1>1, <2>1
  <2>3. Fits(value[1])
      BY <1>2 DEF IsData
  <2> QED  BY <2>2, <2>3
<1>3. ASSUME wt \in {SingleType, DoubleType} PROVE Len(value) = WidthOf(wt)
  <2>a. ASSUME NEW w \in Nat PROVE Len([i \in 1 .. w |-> 0]) = w
    <3>1. [i \in 1 .. w |-> 0] \in Seq(Nat)
        OBVIOUS
    <3> QED  BY <3>1
  <2>1. CASE wt = SingleType
    <3>1. Zero(wt) = [i \in 1 .. 4 |-> 0] /\ wt # DelimType /\ WidthOf(wt) = 4
        BY <2>1, WireTypesDiffer DEF Zero, WidthOf
    <3> QED  BY <2>a, <3>1 DEF IsData, IsPrimitive
  <2>2. CASE wt = DoubleType
    <3>1. Zero(wt) = [i \in 1 .. 8 |-> 0] /\ wt # DelimType /\ WidthOf(wt) = 8
        BY <2>2, WireTypesDiffer DEF Zero, WidthOf
    <3> QED  BY <2>a, <3>1 DEF IsData, IsPrimitive
  <2> QED  BY <1>3, <2>1, <2>2
<1> QED  BY <1>1, <1>2, <1>3

LEMMA DelimitedIs ==
    ASSUME NEW data \in Seq(Nat)
    PROVE  /\ VarintOf[Len(data)] \in Seq(Nat) /\ Len(data) \in Nat
           /\ Delimited(data) = VarintOf[Len(data)] \o data
           /\ Delimited(data) \in Seq(Nat)
           /\ Len(Delimited(data)) = Len(VarintOf[Len(data)]) + Len(data)
    BY VarintTyped DEF Delimited

LEMMA DelimiterReads ==
    ASSUME NEW data \in Seq(Nat), Fits(Len(data)), NEW bytes, NEW from,
           Placed(bytes, from, Delimited(data))
    PROVE  Delimiter(bytes, from) = Value(data, from + Len(Delimited(data)))
<1>1. PICK s \in Seq(Nat) : s = VarintOf[Len(data)] /\ Delimited(data) = s \o data
                            /\ Len(Delimited(data)) = Len(s) + Len(data)
    BY DelimitedIs
<1>2. Placed(bytes, from, s) /\ Placed(bytes, from + Len(s), data) /\ from \in Nat
  <2>1. Placed(bytes, from, s \o data)
      BY <1>1
  <2>2. from \in Nat
      BY DEF Placed
  <2>3. Placed(bytes, from, s) /\ Placed(bytes, from + Len(s), data)
      BY <1>1, <2>1, PlacedParts
  <2> QED  BY <2>2, <2>3
<1>3. PICK next \in Nat : next = from + Len(s)
    BY <1>2
<1>4. Varint(bytes, from) = Value(<<Len(data)>>, next)
    BY <1>1, <1>2, <1>3, VarintReads
<1>5. Block(bytes, next, Len(data)) = Value(data, next + Len(data))
    BY <1>2, <1>3, BlockReads
<1>6. Delimiter(bytes, from) = Block(bytes, next, <<Len(data)>>[1])
    BY <1>4 DEF Delimiter, Then, Value
<1>7. next + Len(data) = from + Len(Delimited(data))
    BY <1>1, <1>2, <1>3
<1> QED  BY <1>5, <1>6, <1>7

LEMMA DataTyped ==
    ASSUME NEW wt, NEW value, IsData(wt, value)
    PROVE  Data(wt, value) \in Seq(Nat)
<1>1. CASE wt = VarintType
  <2>1. PICK n \in Nat : value = <<n>>
      BY <1>1, DataForm DEF Fits
  <2>2. Data(wt, value) = VarintOf[n]
      BY <1>1, <2>1 DEF Data, DelimType, VarintType
  <2> QED  BY <2>2, VarintTyped
<1>2. CASE wt = DelimType
    BY <1>2, DelimitedIs, DataForm DEF Data, DelimType, VarintType
<1>3. CASE wt \in {SingleType, DoubleType}
    BY <1>3, DataForm DEF Data, DelimType, VarintType, SingleType, DoubleType
<1> QED  BY <1>1, <1>2, <1>3, DataForm DEF WireTypes

(* A primitive reads back what was written, to its end.                    *)
LEMMA PrimitiveReads ==
    ASSUME NEW wt, NEW value, IsData(wt, value),
           NEW bytes, NEW from, Placed(bytes, from, Data(wt, value))
    PROVE  ReadPrimitive(wt, bytes, from) = Value(value, from + Len(Data(wt, value)))
<1>1. CASE wt = VarintType
  <2>1. PICK n : Fits(n) /\ value = <<n>>
      BY <1>1, DataForm
  <2>2. Data(wt, value) = VarintOf[n]
      BY <1>1, <2>1 DEF Data, DelimType, VarintType
  <2>3. Varint(bytes, from) = Value(<<n>>, from + Len(VarintOf[n]))
      BY <2>1, <2>2, VarintReads
  <2> QED  BY <1>1, <2>1, <2>2, <2>3 DEF ReadPrimitive, DelimType, VarintType
<1>2. CASE wt = DelimType
  <2>1. wt # VarintType /\ Data(wt, value) = Delimited(value)
      BY <1>2 DEF Data, DelimType, VarintType
  <2>2. value \in Seq(Nat) /\ Fits(Len(value))
      BY <1>2, DataForm
  <2> QED  BY <1>2, <2>1, <2>2, DelimiterReads DEF ReadPrimitive
<1>3. CASE wt \in {SingleType, DoubleType}
  <2>1. wt # VarintType /\ wt # DelimType /\ Data(wt, value) = value
      BY <1>3 DEF Data, DelimType, VarintType, SingleType, DoubleType
  <2>2. Len(value) = WidthOf(wt)
      BY <1>3, DataForm
  <2> QED  BY <2>1, <2>2, BlockReads DEF ReadPrimitive
<1> QED  BY <1>1, <1>2, <1>3, DataForm DEF WireTypes

(* A block whose length takes one byte *)
Short(wt, value) == wt = DelimType => Len(value) < Base

(* Skipping a value leads to its end too, if the length of a block takes   *)
(* one byte only.                                                          *)
LEMMA SkipReads ==
    ASSUME NEW wt, NEW value, IsData(wt, value), Short(wt, value),
           NEW bytes, NEW from, Placed(bytes, from, Data(wt, value))
    PROVE  Skip(bytes, from, wt) = Value(Data(wt, value), from + Len(Data(wt, value)))
<1>a. from \in Nat /\ Len(bytes) \in Nat /\ from + Len(Data(wt, value)) <= Len(bytes)
    BY DEF Placed
<1>b. PICK d \in Seq(Nat) : d = Data(wt, value)
    BY DataTyped
<1>c. PICK length \in Nat : length = Len(d)
    BY <1>b
<1>1. CASE wt = VarintType
  <2>1. PICK n \in Nat : value = <<n>> /\ d = VarintOf[n] /\ VarintForm(d)
    <3>1. PICK n \in Nat : value = <<n>>
        BY <1>1, DataForm DEF Fits
    <3>2. d = VarintOf[n]
        BY <1>1, <1>b, <3>1 DEF Data, DelimType, VarintType
    <3> QED  BY <3>1, <3>2, VarintFormed
  <2>2. PICK end \in Nat : end = from + length
      BY <1>a, <1>c
  <2>3. PICK ends \in SUBSET Nat : /\ ends = Terminators(bytes, from, Len(bytes))
                                   /\ end \in ends /\ \A i \in ends : end <= i
    <3>1. Placed(bytes, from, d) /\ from + Len(d) <= Len(bytes)
        BY <1>a, <1>b
    <3> QED  BY <1>a, <1>c, <2>1, <2>2, <3>1, FirstTerminator
  <2>4. Min(ends) = end /\ ends # {} /\ end - from = length
      BY <1>a, <2>2, <2>3, MinIs
  <2>5. Skip(bytes, from, wt) = Block(bytes, from, length)
      BY <1>1, <2>3, <2>4 DEF Skip, DelimType, VarintType, SingleType, DoubleType
  <2> QED  BY <1>b, <1>c, <2>5, BlockReads
<1>2. CASE wt = DelimType
  <2>1. value \in Seq(Nat) /\ Len(value) \in Nat /\ Len(value) < Base
      BY <1>2, DataForm DEF Short
  <2>2. PICK k \in Nat : k = Len(value) /\ k < Base
      BY <2>1
  <2>3. d = <<k>> \o value /\ length = 1 + k
    <3>1. VarintOf[k] = <<k>>
        BY <2>2, ShortVarint
    <3>2. d = VarintOf[Len(value)] \o value /\ length = Len(VarintOf[Len(value)]) + Len(value)
      <4>1. d = Delimited(value)
          BY <1>2, <1>b DEF Data, DelimType, VarintType
      <4> QED  BY <1>c, <2>1, <4>1, DelimitedIs
    <3> QED  BY <2>2, <3>1, <3>2
  <2>4. Placed(bytes, from, <<k>>) /\ VarintForm(<<k>>)
    <3>1. <<k>> \in Seq(Nat)
        BY <2>2
    <3>2. Placed(bytes, from, <<k>> \o value)
        BY <1>b, <2>3
    <3>3. VarintForm(<<k>>)
        BY <2>2 DEF VarintForm
    <3> QED  BY <2>1, <3>1, <3>2, <3>3, PlacedParts
  <2>5. PICK first \in Nat : first = from + 1 /\ first <= Len(bytes) /\ bytes[first] = k
      BY <1>a, <2>4 DEF Placed
  <2>6. PICK ends \in SUBSET Nat : /\ ends = Terminators(bytes, from, from + 6)
                                   /\ first \in ends /\ \A i \in ends : first <= i
    <3>1. Len(<<k>>) = 1 /\ from + 6 \in Nat /\ from + Len(<<k>>) <= from + 6
        BY <1>a
    <3> QED  BY <1>a, <2>4, <2>5, <3>1, FirstTerminator, ZenonT(60)
  <2>7. Min({from + 6} \cup ends) = first
    <3>1. {from + 6} \cup ends \in SUBSET Nat /\ first \in {from + 6} \cup ends
          /\ \A i \in {from + 6} \cup ends : first <= i
        BY <1>a, <2>5, <2>6
    <3> QED  BY <3>1, MinIs
  <2>8. bytes[first] % Base = k /\ first + k - from = length /\ ~(first > Len(bytes))
    <3>1. k % Base = k
        BY <2>2, Remainder, BaseAssumption
    <3>2. first + k - from = length
        BY <1>a, <2>2, <2>3, <2>5
    <3>3. ~(first > Len(bytes))
        BY <1>a, <2>5
    <3> QED  BY <2>5, <3>1, <3>2, <3>3
  <2>9. Skip(bytes, from, wt) = SkipDelimiter(bytes, from)
      BY <1>2 DEF Skip, DelimType, VarintType, SingleType, DoubleType
  <2>10. SkipDelimiter(bytes, from) = Block(bytes, from, length)
      BY <2>6, <2>7, <2>8 DEF SkipDelimiter
  <2> QED  BY <1>b, <1>c, <2>9, <2>10, BlockReads
<1>3. CASE wt \in {SingleType, DoubleType}
  <2>1. wt # VarintType /\ wt # DelimType /\ d = value
      BY <1>3, <1>b DEF Data, DelimType, VarintType, SingleType, DoubleType
  <2>2. length = WidthOf(wt)
      BY <1>3, <1>c, <2>1, DataForm
  <2>3. Skip(bytes, from, wt) = Block(bytes, from, length)
      BY <1>3, <2>1, <2>2 DEF Skip
  <2> QED  BY <1>b, <1>c, <2>3, BlockReads
<1> QED  BY <1>1, <1>2, <1>3, DataForm DEF WireTypes

-----------------------------------------------------------------------------
(* Sequences of what is written                                            *)

(* g[n] is what the first n of seqs make together. *)
Flattened(g, seqs) ==
    /\ g \in [0 .. Len(seqs) -> Seq(Nat)]
    /\ g[0] = << >>
    /\ \A i \in 1 .. Len(seqs) : g[i] = g[i - 1] \o seqs[i]

LEMMA FlattenedExists ==
    ASSUME NEW seqs \in Seq(Seq(Nat))
    PROVE  \E g : Flattened(g, seqs)
<1>1. PICK m \in Nat : m = Len(seqs)
    OBVIOUS
<1> DEFINE step == [p \in Seq(Nat) \X (1 .. m) |-> p[1] \o seqs[p[2]]]
<1>2. step \in [Seq(Nat) \X (1 .. m) -> Seq(Nat)]
  <2>1. \A i \in 1 .. m : seqs[i] \in Seq(Nat)
      BY <1>1
  <2> QED  BY <2>1
<1>3. ASSUME NEW v \in Seq(Nat), NEW k \in 1 .. m
      PROVE  step[<<v, k>>] = v \o seqs[k]
    OBVIOUS
<1> HIDE DEF step
<1>4. << >> \in Seq(Nat)
    OBVIOUS
<1>5. PICK g \in [0 .. m -> Seq(Nat)] : Steps(g, m, << >>, step)
    BY <1>2, <1>4, StepsExist
<1>6. g[0] = << >>
    BY <1>1, <1>5 DEF Steps
<1>7. ASSUME NEW i \in 1 .. m PROVE g[i] = g[i - 1] \o seqs[i]
  <2>1. g[i] = step[<<g[i - 1], i>>]
      BY <1>5 DEF Steps
  <2>2. g[i - 1] \in Seq(Nat)
      BY <1>5
  <2> QED  BY <1>3, <2>1, <2>2
<1> QED  BY <1>1, <1>5, <1>6, <1>7 DEF Flattened

LEMMA FlattenIs ==
    ASSUME NEW seqs \in Seq(Seq(Nat)), NEW g, Flattened(g, seqs)
    PROVE  FlattenSeq(seqs) = g[Len(seqs)]
<1>1. PICK m \in Nat : m = Len(seqs)
    OBVIOUS
<1>2. /\ g \in [0 .. m -> Seq(Nat)] /\ g[0] = << >>
      /\ \A i \in 1 .. m : g[i] = g[i - 1] \o seqs[i]
    BY <1>1 DEF Flattened
<1>a. ASSUME m # 0 PROVE g[1] = seqs[1]
  <2>1. 1 \in 1 .. m /\ 1 - 1 = 0
      BY <1>a
  <2>2. g[1] = g[0] \o seqs[1] /\ g[0] = << >>
      BY <1>2, <2>1
  <2>3. seqs[1] \in Seq(Nat)
      BY <1>1, <2>1
  <2> QED  BY <2>2, <2>3
<1>3. CASE m = 0
  <2>1. seqs = << >>
      BY <1>1, <1>3, EmptySeq, Zenon
  <2> QED  BY <1>1, <1>2, <1>3, <2>1 DEF FlattenSeq
<1>4. CASE m # 0
  <2> DEFINE IsFlatten(f) == f = [i \in 1 .. m |-> IF i = 1 THEN seqs[i]
                                                 ELSE f[i - 1] \o seqs[i]]
  <2>1. IsFlatten([i \in 1 .. m |-> g[i]])
    <3> DEFINE f == [i \in 1 .. m |-> g[i]]
    <3>1. ASSUME NEW i \in 1 .. m
          PROVE  f[i] = IF i = 1 THEN seqs[i] ELSE f[i - 1] \o seqs[i]
      <4>1. CASE i = 1
          BY <1>4, <1>a, <4>1
      <4>2. CASE i # 1
        <5>1. i - 1 \in 1 .. m
            BY <4>2
        <5> QED  BY <1>2, <4>2, <5>1
      <4> QED  BY <4>1, <4>2
    <3> QED  BY <3>1
  <2>2. ASSUME NEW f, IsFlatten(f) PROVE f[m] = g[m]
    <3>a. ASSUME NEW i \in 1 .. m
          PROVE  f[i] = IF i = 1 THEN seqs[i] ELSE f[i - 1] \o seqs[i]
        BY <2>2
    <3> HIDE DEF IsFlatten
    <3> DEFINE T == {i \in Nat : i \in 1 .. m /\ f[i] # g[i]}
    <3> SUFFICES ASSUME T # {} PROVE FALSE
        BY <1>4
    <3>1. PICK i \in T : \A j \in T : i <= j
        BY Least, T \in SUBSET Nat
    <3>2. CASE i = 1
      <4>1. f[1] = seqs[1]
          BY <3>a, <3>1, <3>2
      <4> QED  BY <1>4, <1>a, <3>1, <3>2, <4>1
    <3>3. CASE i # 1
      <4>1. i - 1 \in 1 .. m /\ i - 1 \notin T
          BY <3>1, <3>3
      <4>2. f[i - 1] = g[i - 1]
          BY <4>1
      <4>3. f[i] = f[i - 1] \o seqs[i] /\ g[i] = g[i - 1] \o seqs[i]
          BY <1>2, <3>a, <3>1, <3>3
      <4> QED  BY <3>1, <4>2, <4>3
    <3> QED  BY <3>2, <3>3
  <2>3. FlattenSeq(seqs) = (CHOOSE f : IsFlatten(f))[m]
      BY <1>1, <1>4 DEF FlattenSeq
  <2> HIDE DEF IsFlatten
  <2>4. IsFlatten(CHOOSE f : IsFlatten(f))
      BY <2>1
  <2> QED  BY <1>1, <2>2, <2>3, <2>4
<1> QED  BY <1>3, <1>4

LEMMA FlattenFirst ==
    ASSUME NEW seqs \in Seq(Seq(Nat)), NEW g, Flattened(g, seqs),
           NEW n \in 0 .. Len(seqs)
    PROVE  FlattenSeq(First(seqs, n)) = g[n]
<1> DEFINE h == [i \in 0 .. n |-> g[i]]
<1>1. First(seqs, n) \in Seq(Seq(Nat)) /\ Len(First(seqs, n)) = n
    BY DEF First
<1>2. h \in [0 .. n -> Seq(Nat)] /\ h[0] = << >>
  <2>1. 0 .. n \subseteq 0 .. Len(seqs) /\ 0 \in 0 .. n
      OBVIOUS
  <2> QED  BY <2>1 DEF Flattened
<1>3. ASSUME NEW i \in 1 .. n PROVE h[i] = h[i - 1] \o First(seqs, n)[i]
  <2>1. i \in 1 .. Len(seqs) /\ i - 1 \in 0 .. n /\ i \in 0 .. n
      OBVIOUS
  <2> QED  BY <2>1 DEF First, Flattened
<1>4. h[n] = g[n]
    OBVIOUS
<1> HIDE DEF h
<1>5. Flattened(h, First(seqs, n))
    BY <1>1, <1>2, <1>3 DEF Flattened
<1> QED  BY <1>1, <1>4, <1>5, FlattenIs

LEMMA PlacedMore ==
    ASSUME NEW bytes, NEW from, NEW s, Placed(bytes, from, s), NEW more \in Seq(Nat)
    PROVE  Placed(bytes \o more, from, s)
<1>1. bytes \in Seq(Nat) /\ s \in Seq(Nat) /\ from \in Nat /\ from + Len(s) <= Len(bytes)
    BY DEF Placed
<1>2. bytes \o more \in Seq(Nat) /\ Len(bytes \o more) = Len(bytes) + Len(more)
    BY <1>1
<1>3. ASSUME NEW i \in 1 .. Len(s) PROVE (bytes \o more)[from + i] = s[i]
  <2>1. from + i \in 1 .. Len(bytes)
      BY <1>1
  <2>2. (bytes \o more)[from + i] = bytes[from + i]
      BY <1>1, <2>1
  <2> QED  BY <2>2 DEF Placed
<1> QED  BY <1>1, <1>2, <1>3 DEF Placed

(* Each of the sequences stands behind those before it.                    *)
LEMMA FlattenPlaces ==
    ASSUME NEW seqs \in Seq(Seq(Nat)), NEW g, Flattened(g, seqs),
           NEW n \in 0 .. Len(seqs) - 1
    PROVE  /\ Placed(g[Len(seqs)], Len(g[n]), seqs[n + 1])
           /\ Len(g[n + 1]) = Len(g[n]) + Len(seqs[n + 1])
<1>0. PICK m \in Nat : m = Len(seqs)
    OBVIOUS
<1>1. /\ g \in [0 .. m -> Seq(Nat)]
      /\ \A i \in 1 .. m : g[i] = g[i - 1] \o seqs[i] /\ seqs[i] \in Seq(Nat)
  <2>1. \A i \in 1 .. m : seqs[i] \in Seq(Nat)
      BY <1>0
  <2> QED  BY <1>0, <2>1 DEF Flattened
<1>2. n \in 0 .. m /\ n + 1 \in 1 .. m /\ (n + 1) - 1 = n /\ n + 1 \in 0 .. m
    BY <1>0
<1>3. PICK s \in Seq(Nat) : s = seqs[n + 1]
    BY <1>1, <1>2
<1>4. g[n] \in Seq(Nat) /\ g[n + 1] = g[n] \o s
    BY <1>1, <1>2, <1>3
<1> DEFINE S == {k \in Nat : n + 1 + k <= m => Placed(g[n + 1 + k], Len(g[n]), s)}
<1>5. 0 \in S
  <2>1. Placed(g[n] \o s, Len(g[n]), s)
      BY <1>4, SMTT(40) DEF Placed
  <2>2. n + 1 + 0 = n + 1
      OBVIOUS
  <2> QED  BY <1>4, <2>1, <2>2
<1>6. ASSUME NEW k \in S PROVE k + 1 \in S
  <2>1. SUFFICES ASSUME n + 1 + (k + 1) <= m
                 PROVE  Placed(g[n + 1 + (k + 1)], Len(g[n]), s)
      OBVIOUS
  <2>2. PICK j \in 1 .. m : j = n + 1 + (k + 1) /\ j - 1 = n + 1 + k
    <3>1. n + 1 + (k + 1) \in 1 .. m /\ (n + 1 + (k + 1)) - 1 = n + 1 + k
        BY <1>2, <2>1
    <3> QED  BY <3>1
  <2>3. Placed(g[j - 1], Len(g[n]), s)
      BY <2>1, <2>2
  <2>4. g[j] = g[j - 1] \o seqs[j] /\ seqs[j] \in Seq(Nat)
      BY <1>1
  <2>5. Placed(g[j], Len(g[n]), s)
      BY <2>3, <2>4, PlacedMore
  <2> QED  BY <2>2, <2>5
<1>7. S = Nat
  <2> HIDE DEF S
  <2>1. S \in SUBSET Nat
      BY DEF S
  <2> QED  BY <1>5, <1>6, <2>1, Induction
<1>8. PICK k \in Nat : n + 1 + k = m
  <2>1. m - (n + 1) \in Nat /\ n + 1 + (m - (n + 1)) = m
      BY <1>2
  <2> QED  BY <2>1
<1>9. Placed(g[m], Len(g[n]), s)
  <2> HIDE DEF S
  <2>0. k \in S
      BY <1>7
  <2>1. k \in S /\ n + 1 + k <= m
      BY <1>8, <2>0
  <2>2. Placed(g[n + 1 + k], Len(g[n]), s)
      BY <2>1 DEF S
  <2> QED  BY <1>8, <2>2
<1>10. Len(g[n + 1]) = Len(g[n]) + Len(s)
    BY <1>4
<1> QED  BY <1>0, <1>3, <1>9, <1>10

-----------------------------------------------------------------------------
(* What a part is written as: nothing, or its tag and the data behind it   *)

ItemData(type, value) ==
    CASE type.kind = "primitive" -> value
      [] type.kind = "maybe" -> WritePrimitive(type.of.wt, 1, value, FALSE)
      [] type.kind = "message" -> WriteContents(value)

PartData(type, value) ==
    CASE type.kind \in {"optional", "repeated", "oneof"} -> ItemData(type.of, value)
      [] type.kind = "packed" ->
            FlattenSeq([i \in DOMAIN value |-> Data(type.of.wt, value[i])])
      [] type.kind = "map" ->
            WriteItem(type.key, 1, value[1], FALSE) \o WriteItem(type.value, 2, value[2], FALSE)
      [] OTHER -> ItemData(type, value)

LEMMA ItemWireType ==
    ASSUME NEW type, IsItemType(type)
    PROVE  /\ type.kind = "primitive" => WireTypeOf(type) = type.wt
           /\ type.kind # "primitive" => WireTypeOf(type) = DelimType
           /\ WireTypeOf(type) \in WireTypes
           /\ type.kind \in {"primitive", "maybe", "message"}
    BY DEF IsItemType, WireTypeOf, WireTypes

LEMMA ItemForm ==
    ASSUME NEW type, NEW value, IsItemValue(type, value), NEW number,
           NEW force \in BOOLEAN
    PROVE  /\ IsData(WireTypeOf(type), ItemData(type, value))
           /\ \/ /\ WriteItem(type, number, value, force) = << >>
                 /\ ~force /\ type.kind = "primitive" /\ value = Zero(type.wt)
              \/ WriteItem(type, number, value, force)
                    = Tag(number, WireTypeOf(type))
                      \o Data(WireTypeOf(type), ItemData(type, value))
<1>1. IsItemType(type)
    BY DEF IsItemValue
<1>2. CASE type.kind = "primitive"
  <2>1. IsData(WireTypeOf(type), ItemData(type, value))
      BY <1>1, <1>2, ItemWireType DEF IsItemValue, ItemData
  <2>2. WriteItem(type, number, value, force) = WritePrimitive(type.wt, number, value, force)
      BY <1>2 DEF WriteItem
  <2>3. ItemData(type, value) = value
      BY <1>2 DEF ItemData
  <2> QED  BY <1>1, <1>2, <2>1, <2>2, <2>3, ItemWireType DEF WritePrimitive
<1>3. CASE type.kind = "maybe"
  <2>1. ItemData(type, value) = WritePrimitive(type.of.wt, 1, value, FALSE)
      BY <1>3 DEF ItemData
  <2>2. IsData(WireTypeOf(type), ItemData(type, value)) /\ WireTypeOf(type) = DelimType
      BY <1>1, <1>3, <2>1, ItemWireType DEF IsItemValue
  <2>3. Data(DelimType, ItemData(type, value)) = Delimited(ItemData(type, value))
      BY WireTypesDiffer DEF Data
  <2>4. WriteItem(type, number, value, force)
          = Tag(number, DelimType) \o Delimited(ItemData(type, value))
      BY <1>3, <2>1 DEF WriteItem
  <2> QED  BY <2>2, <2>3, <2>4
<1>4. CASE type.kind = "message"
  <2>1. ItemData(type, value) = WriteContents(value)
      BY <1>4 DEF ItemData
  <2>2. IsData(WireTypeOf(type), ItemData(type, value)) /\ WireTypeOf(type) = DelimType
      BY <1>1, <1>4, <2>1, ItemWireType DEF IsItemValue
  <2>3. Data(DelimType, ItemData(type, value)) = Delimited(ItemData(type, value))
      BY WireTypesDiffer DEF Data
  <2>4. WriteItem(type, number, value, force)
          = Tag(number, DelimType) \o Delimited(ItemData(type, value))
      BY <1>4, <2>1 DEF WriteItem
  <2> QED  BY <2>2, <2>3, <2>4
<1> QED  BY <1>1, <1>2, <1>3, <1>4, ItemWireType

WrittenOf(part) == Write(part.type, part.number, part.value)

LEMMA PartForm ==
    ASSUME NEW part, Writable(part)
    PROVE  LET wt == WireTypeOf(part.type)
               data == PartData(part.type, part.value)
           IN  /\ IsData(wt, data)
               /\ \/ WrittenOf(part) = << >>
                  \/ WrittenOf(part) = Tag(part.number, wt) \o Data(wt, data)
<1> DEFINE type == part.type
           value == part.value
           number == part.number
           wt == WireTypeOf(type)
           data == PartData(type, value)
           written == WrittenOf(part)
<1>0. IsFieldValue(type, value) /\ written = Write(type, number, value)
    BY DEF Writable, WrittenOf
<1> HIDE DEF type, value, number, written
<1>1. CASE type.kind \in {"optional", "repeated", "oneof"}
  <2>1. PICK force \in BOOLEAN : written = WriteItem(type.of, number, value, force)
      BY <1>0, <1>1 DEF Write
  <2>2. IsItemValue(type.of, value) /\ data = ItemData(type.of, value)
      BY <1>0, <1>1 DEF IsFieldValue, PartData
  <2>3. wt = WireTypeOf(type.of)
    <3>1. IsItemType(type.of) /\ type.of.kind \notin {"optional", "repeated", "oneof"}
        BY <2>2, ItemWireType DEF IsItemValue
    <3> QED  BY <1>1, <3>1 DEF WireTypeOf
  <2> HIDE DEF wt, data
  <2>4. IsData(wt, data) /\ (written = << >> \/ written = Tag(number, wt) \o Data(wt, data))
      BY <2>1, <2>2, <2>3, ItemForm
  <2> QED  BY <2>4 DEF wt, data, type, value, number, written
<1>2. CASE type.kind = "packed"
  <2>1. wt = DelimType /\ IsData(DelimType, data)
      BY <1>0, <1>2 DEF IsFieldValue, PartData, WireTypeOf
  <2>2. Data(DelimType, data) = Delimited(data)
      BY WireTypesDiffer DEF Data
  <2>3. written = << >> \/ written = Tag(number, DelimType) \o Delimited(data)
      BY <1>0, <1>2 DEF Write, PartData
  <2> QED  BY <2>1, <2>2, <2>3 DEF type, value, number, written
<1>3. CASE type.kind = "map"
  <2>1. wt = DelimType /\ IsData(DelimType, data)
      BY <1>0, <1>3 DEF IsFieldValue, PartData, WireTypeOf
  <2>2. Data(DelimType, data) = Delimited(data)
      BY WireTypesDiffer DEF Data
  <2>3. written = Tag(number, DelimType) \o Delimited(data)
      BY <1>0, <1>3 DEF Write, PartData
  <2> QED  BY <2>1, <2>2, <2>3 DEF type, value, number, written
<1>4. CASE type.kind \notin {"optional", "repeated", "oneof", "packed", "map"}
  <2>1. written = WriteItem(type, number, value, FALSE)
      BY <1>0, <1>4 DEF Write
  <2>2. IsItemValue(type, value) /\ data = ItemData(type, value)
      BY <1>0, <1>4 DEF IsFieldValue, PartData
  <2> HIDE DEF wt, data
  <2>3. IsData(wt, data) /\ (written = << >> \/ written = Tag(number, wt) \o Data(wt, data))
      BY <2>1, <2>2, ItemForm DEF wt
  <2> QED  BY <2>3 DEF wt, data, type, value, number, written
<1> QED  BY <1>1, <1>2, <1>3, <1>4

(* A tag is read back as its number and its wire type.                     *)
LEMMA TagReads ==
    ASSUME NEW number \in Nat, NEW wt \in WireTypes, Fits(8 * number + wt),
           NEW bytes, NEW from, Placed(bytes, from, Tag(number, wt))
    PROVE  /\ Varint(bytes, from) = Value(<<8 * number + wt>>, from + Len(Tag(number, wt)))
           /\ (8 * number + wt) \div 8 = number
           /\ (8 * number + wt) % 8 = wt
<1>1. wt \in 0 .. 7
    BY DEF WireTypes, VarintType, DelimType, SingleType, DoubleType
<1>2. (8 * number + wt) \div 8 = number /\ (8 * number + wt) % 8 = wt
    BY <1>1
<1> QED  BY <1>2, VarintReads DEF Tag

-----------------------------------------------------------------------------
(* Reading the content of a wrapper message                                *)

LEMMA HalfFits ==
    ASSUME NEW n \in Nat, NEW m \in Nat, n < 2 * m, n >= Base
    PROVE  n \div Base \in Nat /\ n \div Base < m
<1>1. Base \in Nat /\ Base > 1
    BY BaseAssumption
<1>2. PICK q \in Nat, r \in Nat : q = n \div Base /\ n = r + Base * q
  <2>1. n \div Base \in Nat /\ n % Base \in Nat /\ n = (n % Base) + Base * (n \div Base)
      BY <1>1, Division
  <2> QED  BY <2>1
<1>3. PICK extra \in Nat : Base = 2 + extra
  <2>1. Base - 2 \in Nat /\ Base = 2 + (Base - 2)
      BY <1>1
  <2> QED  BY <2>1
<1>a. ASSUME NEW e \in Nat, NEW p \in Nat PROVE e * p \in Nat /\ (2 + e) * p = 2 * p + e * p
    OBVIOUS
<1>4. extra * q \in Nat /\ Base * q = 2 * q + extra * q
    BY <1>a, <1>3
<1>5. 2 * q <= n
    BY <1>2, <1>4
<1> QED  BY <1>2, <1>5

(* Twice the numbers take one byte more. *)
AtMost(m, k) == \A n \in Nat : n < m => Len(VarintOf[n]) <= k

LEMMA VarintHalf ==
    ASSUME NEW m \in Nat, NEW k \in Nat \ {0}, AtMost(m, k)
    PROVE  AtMost(2 * m, k + 1)
<1> SUFFICES ASSUME NEW n \in Nat, n < 2 * m PROVE Len(VarintOf[n]) <= k + 1
    BY DEF AtMost
<1>0. Base \in Nat
    BY BaseAssumption
<1>1. CASE n >= Base
  <2>1. PICK d \in Nat : d = n \div Base /\ Len(VarintOf[d]) <= k
      BY <1>1, HalfFits DEF AtMost
  <2>2. PICK r \in Nat : r = n % Base
      BY <1>1, Shrinks
  <2>3. VarintOf[n] = <<Base + r>> \o VarintOf[d]
      BY <1>1, <2>1, <2>2, VarintEquation DEF Digits
  <2>4. <<Base + r>> \in Seq(Nat) /\ Len(<<Base + r>>) = 1
      BY <1>0, <2>2
  <2>5. Len(VarintOf[n]) = 1 + Len(VarintOf[d]) /\ Len(VarintOf[d]) \in Nat
      BY <2>3, <2>4, VarintTyped
  <2> QED  BY <2>1, <2>5
<1>2. CASE ~(n >= Base)
  <2>1. VarintOf[n] = <<n>>
      BY <1>0, <1>2, ShortVarint
  <2> QED  BY <2>1
<1> QED  BY <1>1, <1>2

LEMMA SmallFits ==
    ASSUME NEW n \in 0 .. 15
    PROVE  Fits(n)
<1>1. AtMost(1, 1)
  <2> SUFFICES ASSUME NEW i \in Nat, i < 1 PROVE Len(VarintOf[i]) <= 1
      BY DEF AtMost
  <2>1. i < Base
      BY BaseAssumption
  <2>2. VarintOf[i] = <<i>>
      BY <2>1, ShortVarint
  <2> QED  BY <2>2
<1>2. AtMost(2, 2)
    BY <1>1, VarintHalf, 2 * 1 = 2, 1 + 1 = 2
<1>3. AtMost(4, 3)
    BY <1>2, VarintHalf, 2 * 2 = 4, 2 + 1 = 3
<1>4. AtMost(8, 4)
    BY <1>3, VarintHalf, 2 * 4 = 8, 3 + 1 = 4
<1>5. AtMost(16, 5)
    BY <1>4, VarintHalf, 2 * 8 = 16, 4 + 1 = 5
<1>6. Len(VarintOf[n]) \in Nat /\ Len(VarintOf[n]) <= 5
    BY <1>5, VarintTyped DEF AtMost
<1> QED  BY <1>6 DEF Fits

(* A loop that has come to the end stays there. *)
LEMMA Settled ==
    ASSUME NEW m \in Nat, NEW k \in 0 .. m, NEW f, NEW last, f[k] = last,
           \A n \in 1 .. m : f[n - 1] = last => f[n] = last
    PROVE  f[m] = last
<1> DEFINE S == {n \in Nat : k + n <= m => f[k + n] = last}
<1>1. 0 \in S
    OBVIOUS
<1>2. ASSUME NEW n \in S PROVE n + 1 \in S
  <2>1. SUFFICES ASSUME k + (n + 1) <= m PROVE f[k + (n + 1)] = last
      OBVIOUS
  <2>2. f[k + n] = last
      BY <2>1
  <2>3. k + (n + 1) \in 1 .. m /\ (k + (n + 1)) - 1 = k + n
      BY <2>1
  <2> HIDE DEF S
  <2> QED  BY <2>2, <2>3
<1> HIDE DEF S
<1>3. S = Nat
    BY <1>1, <1>2, Induction DEF S
<1>4. m - k \in S /\ k + (m - k) = m
    BY <1>3
<1>5. f[k + (m - k)] = last
    BY <1>4 DEF S
<1> QED  BY <1>4, <1>5

WrapperTurn(wt, bytes, value, from) ==
    Then(Varint(bytes, from), LAMBDA tag, next :
        IF tag[1] \div 8 # 1 THEN Value(value, next)
        ELSE Raise(ReadOrSkip(wt, bytes, next, tag[1] % 8)))

WrapperAfter(wt, bytes, start, after) ==
    after = [n \in 0 .. Len(bytes) |->
                IF n = 0 THEN Value(start, 0)
                ELSE IF after[n - 1].at < Len(bytes) /\ after[n - 1].is = "value"
                     THEN WrapperTurn(wt, bytes, after[n - 1].value, after[n - 1].at)
                     ELSE after[n - 1]]

LEMMA WrapperIs ==
    ASSUME NEW wt, NEW bytes, NEW start
    PROVE  ReadWrapper(wt, bytes, start)
           = (CHOOSE after : WrapperAfter(wt, bytes, start, after))[Len(bytes)]
    BY ZenonT(60) DEF ReadWrapper, Loop, Then, WrapperAfter, WrapperTurn

LEMMA WrapperEnds ==
    ASSUME NEW wt, NEW bytes, NEW start, Len(bytes) \in Nat,
           Len(bytes) = 0 \/ WrapperTurn(wt, bytes, start, 0).at = Len(bytes)
    PROVE  ReadWrapper(wt, bytes, start)
           = IF Len(bytes) = 0 THEN Value(start, 0) ELSE WrapperTurn(wt, bytes, start, 0)
<1>0. PICK m \in Nat : m = Len(bytes)
    OBVIOUS
<1>a. PICK last : last = IF m = 0 THEN Value(start, 0) ELSE WrapperTurn(wt, bytes, start, 0)
    OBVIOUS
<1>b. /\ m = 0 => last = Value(start, 0)
      /\ m > 0 => WrapperTurn(wt, bytes, start, 0) = last /\ last.at = m
    BY <1>0, <1>a
<1> DEFINE Loops(g) == \A n \in 0 .. m :
                 g[n] = IF n = 0 THEN Value(start, 0)
                        ELSE IF g[n - 1].at < m /\ g[n - 1].is = "value"
                             THEN WrapperTurn(wt, bytes, g[n - 1].value, g[n - 1].at)
                             ELSE g[n - 1]
           w == [n \in 0 .. m |-> IF n = 0 THEN Value(start, 0) ELSE last]
<1>1. Value(start, 0).at = 0 /\ Value(start, 0).is = "value" /\ Value(start, 0).value = start
    BY DEF Value
<1>2. ASSUME NEW n \in 0 .. m
      PROVE  w[n] = IF n = 0 THEN Value(start, 0)
                    ELSE IF w[n - 1].at < m /\ w[n - 1].is = "value"
                         THEN WrapperTurn(wt, bytes, w[n - 1].value, w[n - 1].at)
                         ELSE w[n - 1]
  <2>1. CASE n = 0
      BY <2>1
  <2>2. CASE n = 1
    <3>1. 0 \in 0 .. m /\ 1 \in 0 .. m /\ 0 < m /\ 1 # 0
        BY <2>2
    <3>2. w[0] = Value(start, 0) /\ w[1] = last
        BY <3>1
    <3> HIDE DEF w
    <3>3. w[0].at < m /\ w[0].is = "value" /\ w[0].value = start /\ w[0].at = 0
        BY <1>1, <3>1, <3>2
    <3>4. w[1] = WrapperTurn(wt, bytes, w[0].value, w[0].at)
        BY <1>b, <3>1, <3>2, <3>3
    <3> QED  BY <2>2, <3>3, <3>4
  <2>3. CASE n > 1
    <3>1. n - 1 \in 0 .. m /\ n - 1 # 0 /\ n # 0 /\ m > 0
        BY <2>3
    <3>2. w[n - 1] = last /\ w[n] = last
        BY <3>1
    <3> HIDE DEF w
    <3>3. ~(w[n - 1].at < m)
        BY <1>b, <3>1, <3>2
    <3> QED  BY <3>1, <3>2, <3>3
  <2> QED  BY <2>1, <2>2, <2>3
<1> HIDE DEF w
<1>3. DOMAIN w = 0 .. m /\ w = [n \in 0 .. m |-> w[n]]
    BY DEF w
<1>4. WrapperAfter(wt, bytes, start, w)
    BY <1>0, <1>2, <1>3 DEF WrapperAfter
<1>5. PICK f : f = CHOOSE after : WrapperAfter(wt, bytes, start, after)
    OBVIOUS
<1>6. Loops(f)
  <2>1. WrapperAfter(wt, bytes, start, f)
      BY <1>4, <1>5
  <2> QED  BY <1>0, <2>1 DEF WrapperAfter
<1>7. f[0] = Value(start, 0)
    BY <1>6
<1>8. f[m] = last
  <2>1. CASE m = 0
      BY <1>b, <1>7, <2>1
  <2>2. CASE m > 0
    <3>1. 0 \in 0 .. m /\ 1 \in 0 .. m /\ 0 < m /\ 1 # 0 /\ 1 - 1 = 0
        BY <2>2
    <3>2. f[0].at < m /\ f[0].is = "value" /\ f[0].value = start /\ f[0].at = 0
        BY <1>1, <1>7, <3>1
    <3>3. f[1] = WrapperTurn(wt, bytes, f[0].value, f[0].at)
        BY <1>6, <3>1, <3>2
    <3>4. f[1] = last
        BY <1>b, <3>1, <3>2, <3>3
    <3>5. ASSUME NEW n \in 1 .. m, f[n - 1] = last PROVE f[n] = last
      <4>1. ~(f[n - 1].at < m) /\ n # 0 /\ n \in 0 .. m
          BY <1>b, <3>1, <3>5
      <4> QED  BY <1>6, <3>5, <4>1
    <3>6. \A n \in 1 .. m : f[n - 1] = last => f[n] = last
        BY <3>5
    <3> HIDE DEF Loops
    <3>7. m \in Nat /\ 1 \in 0 .. m
        BY <1>0, <3>1
    <3>8. ASSUME NEW k \in 0 .. m, f[k] = last PROVE f[m] = last
        BY ONLY <3>6, <3>7, <3>8, Settled
    <3> QED  BY ONLY <3>4, <3>7, <3>8
  <2> QED  BY <2>1, <2>2
<1> QED  BY <1>0, <1>a, <1>5, <1>8, WrapperIs

(* What the reader makes of the content that the writer made: an empty one *)
(* leaves the value as it was.                                             *)
Unwrapped(wt, value, start) == IF value = Zero(wt) THEN start ELSE value

LEMMA WrapperReads ==
    ASSUME NEW wt, NEW value, IsData(wt, value), NEW start
    PROVE  \E end : ReadWrapper(wt, WritePrimitive(wt, 1, value, FALSE), start)
                    = Value(Unwrapped(wt, value, start), end)
<1>a. PICK content : /\ content = WritePrimitive(wt, 1, value, FALSE)
                     /\ content = IF value = Zero(wt) THEN << >>
                                  ELSE Tag(1, wt) \o Data(wt, value)
    BY DEF WritePrimitive
<1>0. wt \in WireTypes /\ wt \in 0 .. 7
    BY DataForm DEF WireTypes, VarintType, DelimType, SingleType, DoubleType
<1>1. CASE value = Zero(wt)
  <2>0. content = << >>
      BY <1>1, <1>a
  <2>1. Len(content) = 0 /\ Len(content) \in Nat
      BY <2>0
  <2>2. ReadWrapper(wt, content, start) = Value(start, 0)
      BY <2>1, WrapperEnds, Zenon
  <2> QED  BY <1>1, <1>a, <2>2 DEF Unwrapped
<1>2. CASE value # Zero(wt)
  <2>1. /\ content = Tag(1, wt) \o Data(wt, value)
        /\ Tag(1, wt) \in Seq(Nat) /\ Data(wt, value) \in Seq(Nat)
        /\ VarintForm(Tag(1, wt))
    <3>1. content = Tag(1, wt) \o Data(wt, value)
        BY <1>2, <1>a
    <3>2. 8 * 1 + wt \in Nat
        BY <1>0
    <3> QED  BY <3>1, <3>2, VarintTyped, VarintFormed, DataTyped DEF Tag
  <2> DEFINE tag == Tag(1, wt)
             data == Data(wt, value)
             m == Len(tag) + Len(data)
  <2> HIDE DEF tag, data
  <2>2. content = tag \o data /\ tag \in Seq(Nat) /\ data \in Seq(Nat) /\ Len(tag) > 0
      BY <2>1 DEF tag, data, VarintForm
  <2>3. content \in Seq(Nat) /\ Len(content) = m /\ m \in Nat /\ m > 0
      BY <2>2
  <2>4. Placed(content, 0, tag) /\ Placed(content, 0 + Len(tag), data)
    <3>1. Placed(content, 0, tag \o data)
        BY <2>2, <2>3 DEF Placed
    <3> QED  BY <2>2, <3>1, PlacedParts
  <2>5. WrapperTurn(wt, content, start, 0) = Value(value, m) /\ Value(value, m).at = m
    <3>1. Fits(8 * 1 + wt)
        BY <1>0, SmallFits
    <3>2. /\ Varint(content, 0) = Value(<<8 * 1 + wt>>, 0 + Len(tag))
          /\ (8 * 1 + wt) \div 8 = 1 /\ (8 * 1 + wt) % 8 = wt
      <4>1. Placed(content, 0, Tag(1, wt)) /\ 1 \in Nat
          BY <2>4 DEF tag
      <4> QED  BY <1>0, <3>1, <4>1, TagReads DEF tag
    <3>3. ReadPrimitive(wt, content, 0 + Len(tag)) = Value(value, (0 + Len(tag)) + Len(data))
        BY <2>4, PrimitiveReads DEF data
    <3>4. (0 + Len(tag)) + Len(data) = m
        BY <2>2
    <3>5. PICK x : x = 8 * 1 + wt /\ x \div 8 = 1 /\ x % 8 = wt
        BY <3>2
    <3>6. PICK next : next = 0 + Len(tag)
        OBVIOUS
    <3>7. Varint(content, 0) = Value(<<x>>, next)
        BY <3>2, <3>5, <3>6
    <3>8. ReadOrSkip(wt, content, next, wt) = Value(value, m)
        BY <3>3, <3>4, <3>6 DEF ReadOrSkip
    <3>9. Raise(ReadOrSkip(wt, content, next, wt)) = Value(value, m)
      <4>1. Value(value, m).is # "error"
          BY DEF Value
      <4> QED  BY <3>8, <4>1, Zenon DEF Raise
    <3>a. Value(value, m).at = m
        BY DEF Value
    <3> HIDE DEF m
    <3>10. WrapperTurn(wt, content, start, 0) = Raise(ReadOrSkip(wt, content, next, wt))
      <4>1. /\ Value(<<x>>, next).is = "value" /\ Value(<<x>>, next).at = next
            /\ Value(<<x>>, next).value = <<x>> /\ <<x>>[1] = x
          BY DEF Value
      <4> QED  BY <3>5, <3>7, <4>1, Zenon DEF WrapperTurn, Then
    <3> QED  BY <3>9, <3>a, <3>10
  <2> HIDE DEF m
  <2>6. ReadWrapper(wt, content, start) = Value(value, m)
    <3>1. Len(content) # 0 /\ Len(content) = m /\ Len(content) \in Nat
        BY <2>3
    <3> QED  BY <2>5, <3>1, WrapperEnds, Zenon
  <2> QED  BY <1>2, <1>a, <2>6 DEF Unwrapped
<1> QED  BY <1>1, <1>2

-----------------------------------------------------------------------------
(* Reading an item                                                         *)

LEMMA ValueIs ==
    ASSUME NEW v, NEW a
    PROVE  /\ Value(v, a).is = "value" /\ Value(v, a).is # "error"
           /\ Value(v, a).value = v /\ Value(v, a).at = a
    BY DEF Value

LEMMA FailedIs ==
    ASSUME NEW a
    PROVE  Failed(a).is = "error" /\ Failed(a).is # "value" /\ Failed(a).at = a
    BY DEF Failed

LEMMA ThrownIs == Thrown.is = "throw" /\ Thrown.is # "error" /\ Thrown.is # "value"
    BY DEF Thrown

(* An item that was written is read, and combined with what was there.     *)
LEMMA ItemReads ==
    ASSUME NEW type, NEW value, IsItemValue(type, value),
           NEW old, InnerReads(type, old, value), NEW bytes, NEW from,
           Placed(bytes, from, Data(WireTypeOf(type), ItemData(type, value)))
    PROVE  ReadItem(type, bytes, from, WireTypeOf(type), old)
           = Value(CombineItem(type, old, value),
                   from + Len(Data(WireTypeOf(type), ItemData(type, value))))
<1>1. IsItemType(type) /\ IsData(WireTypeOf(type), ItemData(type, value))
    BY ItemForm DEF IsItemValue
<1>2. CASE type.kind = "primitive"
  <2>1. /\ WireTypeOf(type) = type.wt /\ ItemData(type, value) = value
        /\ CombineItem(type, old, value) = value
      BY <1>1, <1>2, ItemWireType DEF ItemData, CombineItem
  <2>2. ReadItem(type, bytes, from, type.wt, old) = ReadPrimitive(type.wt, bytes, from)
      BY <1>2 DEF ReadItem, ReadOrSkip
  <2>3. ReadPrimitive(type.wt, bytes, from) = Value(value, from + Len(Data(type.wt, value)))
      BY <1>1, <2>1, PrimitiveReads
  <2> QED  BY <2>1, <2>2, <2>3
<1>3. CASE type.kind \in {"maybe", "message"}
  <2>1. WireTypeOf(type) = DelimType
      BY <1>1, <1>3, ItemWireType
  <2>2. PICK content : content = ItemData(type, value)
      OBVIOUS
  <2>3. PICK next : next = from + Len(Data(DelimType, content))
      OBVIOUS
  <2>4. Delimiter(bytes, from) = Value(content, next)
    <3>1. content \in Seq(Nat) /\ Fits(Len(content))
        BY <1>1, <2>1, <2>2, DataForm
    <3>2. Data(DelimType, content) = Delimited(content)
        BY WireTypesDiffer DEF Data
    <3> QED  BY <2>1, <2>2, <2>3, <3>1, <3>2, DelimiterReads
  <2>5. ReadItem(type, bytes, from, DelimType, old) = Value(CombineItem(type, old, value), next)
    <3>1. CASE type.kind = "maybe"
      <4>1. PICK start : start = IF old = Undefined THEN DefVal(type.of) ELSE old
          OBVIOUS
      <4>2. IsData(type.of.wt, value) /\ type.of.kind = "primitive"
          BY <1>1, <3>1 DEF IsItemValue, IsItemType
      <4>3. content = WritePrimitive(type.of.wt, 1, value, FALSE)
          BY <2>2, <3>1 DEF ItemData
      <4>a. PICK new : new = Unwrapped(type.of.wt, value, start)
          OBVIOUS
      <4>b. PICK end : ReadWrapper(type.of.wt, content, start) = Value(new, end)
        <5>1. PICK w : w = type.of.wt
            OBVIOUS
        <5>2. IsData(w, value) /\ content = WritePrimitive(w, 1, value, FALSE)
            BY <4>2, <4>3, <5>1
        <5>3. \E end : ReadWrapper(w, WritePrimitive(w, 1, value, FALSE), start)
                       = Value(Unwrapped(w, value, start), end)
            BY <5>2, WrapperReads
        <5>4. \E end : ReadWrapper(w, content, start) = Value(Unwrapped(w, value, start), end)
            BY <5>2, <5>3
        <5> QED  BY <4>a, <5>1, <5>4
      <4>4. /\ ReadWrapper(type.of.wt, content, start) = Value(new, end)
            /\ new = IF value = Zero(type.of.wt) THEN start ELSE value
          BY <4>a, <4>b DEF Unwrapped
      <4>5. new = CombineItem(type, old, value)
        <5>1. DefVal(type.of) = Zero(type.of.wt)
            BY <4>2 DEF DefVal
        <5> QED  BY <3>1, <4>1, <4>4, <5>1 DEF CombineItem
      <4>6. ReadItem(type, bytes, from, DelimType, old) = Value(new, next)
          BY <2>4, <3>1, <4>1, <4>4, ValueIs DEF ReadItem, Then
      <4> QED  BY <4>5, <4>6
    <3>2. CASE type.kind = "message"
      <4>1. PICK inner : inner = IF old = Undefined THEN Template(type.fields) ELSE old[1]
          OBVIOUS
      <4>2. content = WriteContents(value)
          BY <2>2, <3>2 DEF ItemData
      <4>3. PICK result : result = ReadContents(type.fields, content, inner)
          OBVIOUS
      <4>4. result.is = "value" /\ result.value = MergeContents(type.fields, inner, value)
          BY <3>2, <4>1, <4>2, <4>3 DEF InnerReads
      <4>5. CombineItem(type, old, value) = <<MergeContents(type.fields, inner, value)>>
          BY <3>2, <4>1 DEF CombineItem
      <4>6. ReadItem(type, bytes, from, DelimType, old) = Value(<<result.value>>, next)
          BY <2>4, <3>2, <4>1, <4>3, <4>4, ValueIs DEF ReadItem, Then
      <4> QED  BY <4>4, <4>5, <4>6
    <3> QED  BY <1>3, <3>1, <3>2
  <2> QED  BY <2>1, <2>2, <2>3, <2>5
<1> QED  BY <1>1, <1>2, <1>3, ItemWireType

(* Skipping a value always leads on, for a long block to somewhere.        *)
LEMMA SkipEnds ==
    ASSUME NEW wt, NEW value, IsData(wt, value),
           NEW bytes, NEW from, Placed(bytes, from, Data(wt, value))
    PROVE  \E raw, next : Skip(bytes, from, wt) = Value(raw, next)
<1>1. CASE wt = DelimType
  <2>1. Skip(bytes, from, wt) = SkipDelimiter(bytes, from)
      BY <1>1, WireTypesDiffer DEF Skip
  <2>2. \E raw, next : SkipDelimiter(bytes, from) = Value(raw, next)
      BY DEF SkipDelimiter, Block
  <2> QED  BY <2>1, <2>2
<1>2. CASE wt # DelimType
  <2>1. Short(wt, value)
      BY <1>2 DEF Short
  <2> QED  BY <2>1, SkipReads
<1> QED  BY <1>1, <1>2

(* A value of another wire type is an error, which is found behind it      *)
(* unless it is a block or the reader is that of a message.                *)
LEMMA ItemFails ==
    ASSUME NEW type, IsItemType(type), NEW wt, wt # WireTypeOf(type),
           NEW value, IsData(wt, value), NEW old,
           NEW bytes, NEW from, Placed(bytes, from, Data(wt, value))
    PROVE  \E next : /\ ReadItem(type, bytes, from, wt, old) = Failed(next)
                     /\ wt # DelimType /\ type.kind # "message" =>
                            next = from + Len(Data(wt, value))
<1>1. PICK raw, next : Skip(bytes, from, wt) = Value(raw, next)
    BY SkipEnds
<1>2. SkipThenFail(bytes, from, wt) = Failed(next)
    BY <1>1, ValueIs DEF SkipThenFail, Then
<1>3. wt # DelimType => next = from + Len(Data(wt, value))
  <2>1. SUFFICES ASSUME wt # DelimType PROVE next = from + Len(Data(wt, value))
      OBVIOUS
  <2>2. Short(wt, value)
      BY <2>1 DEF Short
  <2>3. Skip(bytes, from, wt) = Value(Data(wt, value), from + Len(Data(wt, value)))
      BY <2>2, SkipReads
  <2>4. /\ Value(raw, next).at = next
        /\ Value(Data(wt, value), from + Len(Data(wt, value))).at
              = from + Len(Data(wt, value))
      BY ValueIs
  <2>5. Value(raw, next) = Value(Data(wt, value), from + Len(Data(wt, value)))
      BY <1>1, <2>3
  <2> QED  BY <2>4, <2>5
<1>4. CASE type.kind = "primitive"
  <2>1. ReadItem(type, bytes, from, wt, old) = SkipThenFail(bytes, from, wt)
      BY <1>4, ItemWireType DEF ReadItem, ReadOrSkip
  <2> QED  BY <1>2, <1>3, <2>1
<1>5. CASE type.kind = "maybe"
  <2>1. wt # DelimType
      BY <1>5, ItemWireType
  <2>2. ReadItem(type, bytes, from, wt, old) = SkipThenFail(bytes, from, wt)
      BY <1>5, <2>1 DEF ReadItem
  <2> QED  BY <1>2, <1>3, <2>2
<1>6. CASE type.kind = "message"
  <2>1. wt # DelimType
      BY <1>6, ItemWireType
  <2>2. ReadItem(type, bytes, from, wt, old) = Failed(from)
      BY <1>6, <2>1 DEF ReadItem
  <2> QED  BY <1>6, <2>2
<1> QED  BY <1>4, <1>5, <1>6, ItemWireType

-----------------------------------------------------------------------------
(* Reading the items of a packed field                                     *)

ItemsTurn(wt, bytes, items, from) ==
    Then(ReadPrimitive(wt, bytes, from),
         LAMBDA item, next : Value(Append(items, item), next))

ItemsAfter(wt, bytes, after) ==
    after = [n \in 0 .. Len(bytes) |->
                IF n = 0 THEN Value(<< >>, 0)
                ELSE IF after[n - 1].at < Len(bytes) /\ after[n - 1].is = "value"
                     THEN ItemsTurn(wt, bytes, after[n - 1].value, after[n - 1].at)
                     ELSE after[n - 1]]

LEMMA ItemsIs ==
    ASSUME NEW wt, NEW bytes
    PROVE  Items(wt, bytes) = (CHOOSE after : ItemsAfter(wt, bytes, after))[Len(bytes)]
    BY ZenonT(60) DEF Items, Loop, Then, ItemsAfter, ItemsTurn

(* Two loops that start alike and go on alike end alike. *)
LEMMA Alike ==
    ASSUME NEW m \in Nat, NEW f, NEW g, f[0] = g[0],
           \A n \in 1 .. m : f[n - 1] = g[n - 1] => f[n] = g[n]
    PROVE  f[m] = g[m]
<1> DEFINE S == {n \in Nat : n <= m => f[n] = g[n]}
<1>1. 0 \in S
    OBVIOUS
<1>2. ASSUME NEW n \in S PROVE n + 1 \in S
  <2>1. SUFFICES ASSUME n + 1 <= m PROVE f[n + 1] = g[n + 1]
      OBVIOUS
  <2>2. f[n] = g[n] /\ n + 1 \in 1 .. m /\ (n + 1) - 1 = n
      BY <2>1
  <2> HIDE DEF S
  <2> QED  BY <2>2
<1> HIDE DEF S
<1>3. m \in S
    BY <1>1, <1>2, Induction DEF S
<1> QED  BY <1>3 DEF S

LEMMA DataNotEmpty ==
    ASSUME NEW wt, NEW value, IsData(wt, value)
    PROVE  Len(Data(wt, value)) \in Nat \ {0}
<1>1. CASE wt = VarintType
  <2>1. PICK n \in Nat : value = <<n>>
      BY <1>1, DataForm DEF Fits
  <2>2. Data(wt, value) = VarintOf[n]
      BY <1>1, <2>1, WireTypesDiffer DEF Data
  <2> QED  BY <2>2, VarintFormed DEF VarintForm
<1>2. CASE wt = DelimType
  <2>1. Data(wt, value) = Delimited(value) /\ value \in Seq(Nat)
      BY <1>2, WireTypesDiffer, DataForm DEF Data
  <2>2. /\ Len(Delimited(value)) = Len(VarintOf[Len(value)]) + Len(value)
        /\ Len(value) \in Nat
      BY <2>1, DelimitedIs
  <2>3. Len(VarintOf[Len(value)]) \in Nat /\ Len(VarintOf[Len(value)]) > 0
      BY <2>2, VarintFormed DEF VarintForm
  <2> QED  BY <2>1, <2>2, <2>3
<1>3. CASE wt \in {SingleType, DoubleType}
  <2>1. Data(wt, value) = value /\ Len(value) = WidthOf(wt)
      BY <1>3, WireTypesDiffer, DataForm DEF Data
  <2> QED  BY <2>1 DEF WidthOf
<1> QED  BY <1>1, <1>2, <1>3, DataForm DEF WireTypes

(* Sequences that are not empty come to an end one after the other.        *)
LEMMA FlattenGrows ==
    ASSUME NEW seqs \in Seq(Seq(Nat)), NEW g, Flattened(g, seqs),
           \A i \in 1 .. Len(seqs) : Len(seqs[i]) \in Nat \ {0}
    PROVE  /\ Len(seqs) <= Len(g[Len(seqs)])
           /\ \A n \in 0 .. Len(seqs) - 1 : Len(g[n]) < Len(g[Len(seqs)])
<1>1. PICK k \in Nat : k = Len(seqs)
    OBVIOUS
<1>2. \A n \in 0 .. k : g[n] \in Seq(Nat)
    BY <1>1 DEF Flattened
<1>3. ASSUME NEW n \in 0 .. k - 1
      PROVE  /\ Placed(g[k], Len(g[n]), seqs[n + 1])
             /\ Len(g[n + 1]) = Len(g[n]) + Len(seqs[n + 1])
    BY <1>1, FlattenPlaces
<1> DEFINE S == {n \in Nat : n <= k => n <= Len(g[n])}
<1>4. 0 \in S
    BY <1>2
<1>5. ASSUME NEW n \in S PROVE n + 1 \in S
  <2>1. SUFFICES ASSUME n + 1 <= k PROVE n + 1 <= Len(g[n + 1])
      OBVIOUS
  <2>2. n \in 0 .. k - 1 /\ n \in 0 .. k /\ n + 1 \in 1 .. k
      BY <2>1
  <2>3. n <= Len(g[n]) /\ Len(g[n]) \in Nat
      BY <1>2, <2>1, <2>2
  <2>4. PICK a \in Nat : a = Len(g[n]) /\ n <= a
      BY <2>3
  <2>5. PICK b \in Nat : b = Len(seqs[n + 1]) /\ b > 0
      BY <1>1, <2>2
  <2>6. Len(g[n + 1]) = a + b
      BY <1>3, <2>2, <2>4, <2>5
  <2>7. n + 1 <= a + b
    <3>1. n \in Nat /\ a \in Nat /\ b \in Nat /\ n <= a /\ b > 0
        BY <2>2, <2>4, <2>5
    <3> QED  BY <3>1
  <2> QED  BY <2>6, <2>7
<1> HIDE DEF S
<1>6. k \in S
    BY <1>4, <1>5, Induction DEF S
<1>7. k <= Len(g[k])
    BY <1>6 DEF S
<1>8. ASSUME NEW n \in 0 .. k - 1 PROVE Len(g[n]) < Len(g[k])
  <2>1. PICK a \in Nat, c \in Nat : a = Len(g[n]) /\ c = Len(g[k])
    <3>1. n \in 0 .. k /\ k \in 0 .. k
        BY <1>1
    <3> QED  BY <1>2, <3>1
  <2>2. PICK b \in Nat : b = Len(seqs[n + 1]) /\ b > 0
    <3>1. n + 1 \in 1 .. Len(seqs)
        BY <1>1
    <3> QED  BY <3>1
  <2>3. a + b <= c
      BY <1>3, <2>1, <2>2 DEF Placed
  <2>4. a < c
    <3>1. a \in Nat /\ b \in Nat /\ c \in Nat /\ a + b <= c /\ b > 0
        BY <2>1, <2>2, <2>3
    <3> QED  BY <3>1
  <2> QED  BY <2>1, <2>4
<1> QED  BY <1>1, <1>7, <1>8

(* All the items of a chunk are read. *)
LEMMA ItemsRead ==
    ASSUME NEW wt, NEW value \in Seq(Seq(Nat)), \A i \in DOMAIN value : IsData(wt, value[i])
    PROVE  \E end : Items(wt, FlattenSeq([i \in DOMAIN value |-> Data(wt, value[i])]))
                    = Value(value, end)
<1>1. PICK k \in Nat : k = Len(value) /\ DOMAIN value = 1 .. k
    OBVIOUS
<1>2. PICK seqs : seqs = [i \in DOMAIN value |-> Data(wt, value[i])]
    OBVIOUS
<1>3. /\ seqs \in Seq(Seq(Nat)) /\ Len(seqs) = k
      /\ \A i \in 1 .. k : seqs[i] = Data(wt, value[i]) /\ IsData(wt, value[i])
  <2>1. \A i \in 1 .. k : Data(wt, value[i]) \in Seq(Nat) /\ IsData(wt, value[i])
      BY <1>1, DataTyped
  <2>2. seqs = [i \in 1 .. k |-> Data(wt, value[i])]
      BY <1>1, <1>2
  <2>3. [i \in 1 .. k |-> Data(wt, value[i])] \in Seq(Seq(Nat))
        /\ Len([i \in 1 .. k |-> Data(wt, value[i])]) = k
      BY <1>1, <2>1
  <2>4. seqs \in Seq(Seq(Nat)) /\ Len(seqs) = k
      BY <2>2, <2>3
  <2> QED  BY <2>1, <2>2, <2>4
<1>4. PICK g : Flattened(g, seqs)
    BY <1>3, FlattenedExists
<1>5. PICK chunk : chunk = g[k] /\ chunk = FlattenSeq(seqs)
    BY <1>3, <1>4, FlattenIs
<1>6. /\ g \in [0 .. k -> Seq(Nat)] /\ g[0] = << >>
    BY <1>3, <1>4 DEF Flattened
<1>7. PICK m \in Nat : m = Len(chunk)
  <2>1. k \in 0 .. k
      BY <1>1
  <2>2. chunk \in Seq(Nat)
      BY <1>5, <1>6, <2>1
  <2> QED  BY <2>2
<1>8. /\ k <= m
      /\ \A n \in 0 .. k - 1 : Len(g[n]) < m
  <2>1. \A i \in 1 .. k : Len(seqs[i]) \in Nat \ {0}
      BY <1>3, DataNotEmpty
  <2> QED  BY <1>3, <1>4, <1>5, <1>7, <2>1, FlattenGrows
<1>9. ASSUME NEW n \in 0 .. k - 1
      PROVE  ItemsTurn(wt, chunk, First(value, n), Len(g[n]))
             = Value(First(value, n + 1), Len(g[n + 1]))
  <2>1. n + 1 \in 1 .. k
      BY <1>1
  <2>2. /\ Placed(chunk, Len(g[n]), seqs[n + 1])
        /\ Len(g[n + 1]) = Len(g[n]) + Len(seqs[n + 1])
      BY <1>3, <1>4, <1>5, FlattenPlaces
  <2>a. PICK item : item = value[n + 1]
      OBVIOUS
  <2>b. IsData(wt, item) /\ Placed(chunk, Len(g[n]), Data(wt, item))
        /\ Len(g[n + 1]) = Len(g[n]) + Len(Data(wt, item))
      BY <1>3, <2>1, <2>2, <2>a
  <2>3. ReadPrimitive(wt, chunk, Len(g[n])) = Value(item, Len(g[n + 1]))
      BY <2>b, PrimitiveReads
  <2>4. Append(First(value, n), value[n + 1]) = First(value, n + 1)
    <3>1. /\ First(value, n) \in Seq(Seq(Nat)) /\ Len(First(value, n)) = n
          /\ value[n + 1] \in Seq(Nat)
        BY <1>1, <2>1 DEF First
    <3>2. First(value, n + 1) = [i \in 1 .. n + 1 |-> IF i \in 1 .. n THEN First(value, n)[i]
                                                     ELSE value[n + 1]]
        BY DEF First
    <3>3. Append(First(value, n), value[n + 1])
            = [i \in 1 .. n + 1 |-> IF i \in 1 .. n THEN First(value, n)[i]
                                   ELSE value[n + 1]]
        BY <3>1
    <3> QED  BY <3>2, <3>3
  <2>5. ItemsTurn(wt, chunk, First(value, n), Len(g[n]))
          = Value(Append(First(value, n), item), Len(g[n + 1]))
      BY <2>3, ValueIs DEF ItemsTurn, Then
  <2> QED  BY <2>4, <2>5, <2>a
<1> DEFINE w == [n \in 0 .. m |-> IF n <= k THEN Value(First(value, n), Len(g[n]))
                                  ELSE Value(value, m)]
<1>10. First(value, 0) = << >> /\ First(value, k) = value
    BY <1>1 DEF First
<1>11. ASSUME NEW n \in 1 .. m
       PROVE  w[n] = IF w[n - 1].at < m /\ w[n - 1].is = "value"
                     THEN ItemsTurn(wt, chunk, w[n - 1].value, w[n - 1].at)
                     ELSE w[n - 1]
  <2>0. n - 1 \in 0 .. m /\ n \in 0 .. m /\ (n - 1) + 1 = n
      OBVIOUS
  <2>1. CASE n <= k
    <3>1. n - 1 \in 0 .. k - 1
        BY <1>1, <2>1
    <3>2. w[n - 1] = Value(First(value, n - 1), Len(g[n - 1])) /\ Len(g[n - 1]) < m
        BY <1>8, <2>0, <2>1, <3>1
    <3>3. w[n] = Value(First(value, n), Len(g[n]))
        BY <2>0, <2>1
    <3>4. ItemsTurn(wt, chunk, First(value, n - 1), Len(g[n - 1]))
            = Value(First(value, n), Len(g[n]))
        BY <1>9, <2>0, <3>1
    <3> HIDE DEF w
    <3> QED  BY <3>2, <3>3, <3>4, ValueIs
  <2>2. CASE ~(n <= k)
    <3>1. w[n - 1] = Value(value, m)
      <4>1. CASE n - 1 = k
        <5>1. w[n - 1] = Value(First(value, k), Len(g[k]))
            BY <1>1, <2>0, <4>1
        <5> QED  BY <1>5, <1>7, <1>10, <5>1
      <4>2. CASE n - 1 # k
          BY <1>1, <2>0, <2>2, <4>2
      <4> QED  BY <4>1, <4>2
    <3>2. w[n] = Value(value, m)
        BY <2>0, <2>2
    <3>3. ~(Value(value, m).at < m)
        BY <1>7, ValueIs
    <3> HIDE DEF w
    <3> QED  BY <3>1, <3>2, <3>3
  <2> QED  BY <2>1, <2>2
<1>12. w[0] = Value(<< >>, 0)
  <2>1. w[0] = Value(First(value, 0), Len(g[0]))
      BY <1>1, <1>7
  <2>2. Len(g[0]) = 0
      BY <1>6
  <2> QED  BY <1>10, <2>1, <2>2
<1>13. DOMAIN w = 0 .. m /\ w = [n \in 0 .. m |-> w[n]]
    OBVIOUS
<1>14. w[m] = Value(value, m)
  <2>1. CASE m = k
    <3>1. w[m] = Value(First(value, k), Len(g[k]))
        BY <1>7, <2>1
    <3> QED  BY <1>5, <1>7, <1>10, <3>1
  <2>2. CASE m # k
      BY <1>1, <1>7, <1>8, <2>2
  <2> QED  BY <2>1, <2>2
<1> HIDE DEF w
<1>15. ItemsAfter(wt, chunk, w)
  <2>1. \A n \in 0 .. m : n = 0 \/ n \in 1 .. m
      BY <1>7
  <2> QED  BY <1>7, <1>11, <1>12, <1>13, <2>1 DEF ItemsAfter
<1>16. PICK f : f = CHOOSE after : ItemsAfter(wt, chunk, after)
    OBVIOUS
<1>17. ItemsAfter(wt, chunk, f)
    BY <1>15, <1>16
<1>18. ASSUME NEW n \in 1 .. m, f[n - 1] = w[n - 1] PROVE f[n] = w[n]
  <2>1. f[n] = IF f[n - 1].at < m /\ f[n - 1].is = "value"
               THEN ItemsTurn(wt, chunk, f[n - 1].value, f[n - 1].at)
               ELSE f[n - 1]
    <3>1. n \in 0 .. m /\ n # 0
        OBVIOUS
    <3> QED  BY <1>7, <1>17, <3>1 DEF ItemsAfter
  <2> QED  BY <1>11, <1>18, <2>1
<1>19. f[0] = w[0]
    BY <1>7, <1>12, <1>17 DEF ItemsAfter
<1>20. f[m] = w[m]
    BY <1>18, <1>19, Alike
<1> QED  BY <1>2, <1>5, <1>7, <1>14, <1>16, <1>20, ItemsIs

-----------------------------------------------------------------------------
(* Reading a field behind its tag                                          *)

LEMMA FieldWireType ==
    ASSUME NEW type, IsFieldType(type)
    PROVE  /\ type.kind \in {"primitive", "maybe", "message", "optional", "repeated", "oneof",
                             "map"}
           /\ type.kind \in {"optional", "repeated", "oneof"} =>
                 IsItemType(type.of) /\ WireTypeOf(type) = WireTypeOf(type.of)
           /\ type.kind = "optional" => type.of.kind = "primitive"
           /\ type.kind = "map" => WireTypeOf(type) = DelimType
           /\ type.kind \in {"primitive", "maybe", "message"} => IsItemType(type)
           /\ WireTypeOf(type) \in WireTypes
<1>1. type.kind \in {"primitive", "maybe", "message", "optional", "repeated", "oneof", "map"}
    BY DEF IsFieldType, IsItemType
<1>2. ASSUME type.kind \in {"optional", "repeated", "oneof"}
      PROVE  IsItemType(type.of) /\ WireTypeOf(type) = WireTypeOf(type.of)
  <2>1. IsItemType(type.of)
      BY <1>2 DEF IsFieldType, IsItemType
  <2>2. type.of.kind \notin {"optional", "repeated", "oneof"}
      BY <2>1, ItemWireType
  <2> QED  BY <1>2, <2>1, <2>2 DEF WireTypeOf
<1>3. type.kind = "optional" => type.of.kind = "primitive"
    BY DEF IsFieldType, IsItemType
<1>4. type.kind = "map" => WireTypeOf(type) = DelimType
    BY DEF WireTypeOf
<1>5. type.kind \in {"primitive", "maybe", "message"} => IsItemType(type)
    BY DEF IsFieldType, IsItemType
<1>6. DelimType \in WireTypes
    BY DEF WireTypes
<1> QED  BY <1>1, <1>2, <1>3, <1>4, <1>5, <1>6, ItemWireType

(* A field of the type the reader knows. *)
LEMMA SameRead ==
    ASSUME NEW type, IsFieldType(type), NEW value, IsFieldValue(type, value),
           NEW number, NEW old, FieldReads(type, number, old, value), NEW bytes, NEW from,
           Placed(bytes, from, Data(WireTypeOf(type), PartData(type, value))),
           IsData(WireTypeOf(type), PartData(type, value))
    PROVE  Read(type, bytes, from, WireTypeOf(type), number, old)
           = Value(Combine(type, number, old, value, type),
                   from + Len(Data(WireTypeOf(type), PartData(type, value))))
<1>1. PICK next : next = from + Len(Data(WireTypeOf(type), PartData(type, value)))
    OBVIOUS
<1>2. ASSUME type.kind \in {"optional", "repeated", "oneof"},
             NEW before, InnerReads(type.of, before, value)
      PROVE  ReadItem(type.of, bytes, from, WireTypeOf(type), before)
             = Value(CombineItem(type.of, before, value), next)
  <2>1. WireTypeOf(type) = WireTypeOf(type.of) /\ PartData(type, value) = ItemData(type.of, value)
      BY <1>2, FieldWireType DEF PartData
  <2>2. IsItemValue(type.of, value)
      BY <1>2 DEF IsFieldValue
  <2> QED  BY <1>1, <1>2, <2>1, <2>2, ItemReads
<1>3. CASE type.kind = "optional"
  <2>1. InnerReads(type.of, DefVal(type.of), value)
      BY <1>3 DEF FieldReads
  <2>2. ReadItem(type.of, bytes, from, WireTypeOf(type), DefVal(type.of))
          = Value(CombineItem(type.of, DefVal(type.of), value), next)
      BY <1>2, <1>3, <2>1
  <2>3. CombineItem(type.of, DefVal(type.of), value) = value
      BY <1>3, FieldWireType DEF CombineItem
  <2>4. Combine(type, number, old, value, type) = value
      BY <1>3 DEF Combine
  <2>5. Read(type, bytes, from, WireTypeOf(type), number, old)
          = ReadItem(type.of, bytes, from, WireTypeOf(type), DefVal(type.of))
      BY <1>3 DEF Read
  <2> QED  BY <1>1, <2>2, <2>3, <2>4, <2>5
<1>4. CASE type.kind = "repeated"
  <2>1. InnerReads(type.of, DefVal(type.of), value)
      BY <1>4 DEF FieldReads
  <2>2. ReadItem(type.of, bytes, from, WireTypeOf(type), DefVal(type.of))
          = Value(CombineItem(type.of, DefVal(type.of), value), next)
      BY <1>2, <1>4, <2>1
  <2>3. Combine(type, number, old, value, type)
          = Append(old, CombineItem(type.of, DefVal(type.of), value))
      BY <1>4 DEF Combine
  <2>4. ~(WireTypeOf(type) = DelimType /\ WireTypeOf(type.of) # DelimType)
      BY <1>4, FieldWireType
  <2>5. PICK item, new : /\ item = Value(new, next)
                         /\ new = CombineItem(type.of, DefVal(type.of), value)
                         /\ item = ReadItem(type.of, bytes, from, WireTypeOf(type),
                                            DefVal(type.of))
      BY <2>2
  <2>6. item.is = "value" /\ item.is # "error" /\ item.value = new /\ item.at = next
      BY <2>5, ValueIs
  <2>7. Read(type, bytes, from, WireTypeOf(type), number, old) = Value(Append(old, new), next)
      BY <1>4, <2>4, <2>5, <2>6, Zenon DEF Read, Then
  <2> QED  BY <1>1, <2>3, <2>5, <2>7
<1>5. CASE type.kind = "oneof"
  <2>1. PICK before : /\ before = IF old # Undefined /\ old[1] = number
                                  THEN old[2] ELSE DefVal(type.of)
                      /\ before = Previous(old, number, type.of)
      BY DEF Previous
  <2>2. InnerReads(type.of, before, value)
      BY <1>5, <2>1 DEF FieldReads
  <2>3. ReadItem(type.of, bytes, from, WireTypeOf(type), before)
          = Value(CombineItem(type.of, before, value), next)
      BY <1>2, <1>5, <2>2
  <2>4. Combine(type, number, old, value, type)
          = <<number, CombineItem(type.of, before, value)>>
      BY <1>5, <2>1 DEF Combine
  <2>5. PICK member, new : /\ member = Value(new, next)
                           /\ new = CombineItem(type.of, before, value)
                           /\ member = ReadItem(type.of, bytes, from, WireTypeOf(type), before)
      BY <2>3
  <2>6. member.is = "value" /\ member.is # "error" /\ member.value = new /\ member.at = next
      BY <2>5, ValueIs
  <2>7. Read(type, bytes, from, WireTypeOf(type), number, old) = Value(<<number, new>>, next)
      BY <1>5, <2>1, <2>5, <2>6, Zenon DEF Read, Then
  <2> QED  BY <1>1, <2>4, <2>5, <2>7
<1>6. CASE type.kind = "map"
  <2>1. WireTypeOf(type) = DelimType
      BY <1>6, FieldWireType
  <2>2. PICK fields, start : /\ fields = <<type.key, type.value>>
                             /\ start = Template(fields)
      OBVIOUS
  <2>3. PICK content : /\ content = PartData(type, value)
                       /\ content = WriteItem(type.key, 1, value[1], FALSE)
                                    \o WriteItem(type.value, 2, value[2], FALSE)
      BY <1>6 DEF PartData
  <2>4. PICK result : result = ReadContents(fields, content, start)
      OBVIOUS
  <2>5. PICK key, new : /\ key = CombineItem(type.key, DefVal(type.key), value[1])
                        /\ new = CombineItem(type.value, DefVal(type.value), value[2])
      BY SMTT(40)
  <2>6. result.is = "value" /\ result.value.vtable[1] = key /\ result.value.vtable[2] = new
    <3>1. EntryReads(type.key, type.value, value)
        BY <1>6 DEF FieldReads
    <3> QED  BY <2>2, <2>3, <2>4, <2>5, <3>1 DEF EntryReads
  <2>7. Delimiter(bytes, from) = Value(content, next)
    <3>1. content \in Seq(Nat) /\ Fits(Len(content))
        BY <2>1, <2>3, DataForm
    <3>2. Data(DelimType, content) = Delimited(content)
        BY WireTypesDiffer DEF Data
    <3> QED  BY <1>1, <2>1, <2>3, <3>1, <3>2, DelimiterReads, ZenonT(60)
  <2>8. ReadItem(Message(fields), bytes, from, DelimType, Undefined)
          = Value(<<result.value>>, next)
    <3>0. Message(fields).kind = "message" /\ Message(fields).fields = fields
        BY DEF Message
    <3>1. PICK m : m = Message(fields) /\ m.kind = "message" /\ m.fields = fields
        BY <3>0
    <3>2. ReadItem(m, bytes, from, DelimType, Undefined) = Value(<<result.value>>, next)
        BY <2>2, <2>4, <2>6, <2>7, <3>1, ValueIs DEF ReadItem, Then
    <3> QED  BY <3>1, <3>2
  <2>9. Read(type, bytes, from, DelimType, number, old) = Value(Put(old, key, new), next)
    <3>0. <<result.value>>[1] = result.value
        OBVIOUS
    <3>1. PICK entry : entry = <<result.value>> /\ entry[1] = result.value
        BY <3>0
    <3>2. ReadItem(Message(<<type.key, type.value>>), bytes, from, DelimType, Undefined)
            = Value(entry, next)
        BY <2>2, <2>8, <3>1
    <3>3. Read(type, bytes, from, DelimType, number, old)
            = Value(Put(old, entry[1].vtable[1], entry[1].vtable[2]), next)
        BY <1>6, <3>2, ValueIs DEF Read, Then
    <3> QED  BY <2>6, <3>1, <3>3
  <2>10. Combine(type, number, old, value, type) = Put(old, key, new)
      BY <1>6, <2>5 DEF Combine
  <2> QED  BY <1>1, <2>1, <2>9, <2>10
<1>7. CASE type.kind \in {"primitive", "maybe", "message"}
  <2>1. IsItemValue(type, value) /\ PartData(type, value) = ItemData(type, value)
      BY <1>7 DEF IsFieldValue, PartData
  <2>2. InnerReads(type, old, value)
      BY <1>7 DEF FieldReads
  <2>3. ReadItem(type, bytes, from, WireTypeOf(type), old)
          = Value(CombineItem(type, old, value), next)
      BY <1>1, <2>1, <2>2, ItemReads
  <2>4. Read(type, bytes, from, WireTypeOf(type), number, old)
          = ReadItem(type, bytes, from, WireTypeOf(type), old)
      BY <1>7 DEF Read
  <2>5. Combine(type, number, old, value, type) = CombineItem(type, old, value)
      BY <1>7 DEF Combine
  <2> QED  BY <1>1, <2>3, <2>4, <2>5
<1> QED  BY <1>3, <1>4, <1>5, <1>6, <1>7, FieldWireType

(* A packed chunk, the first of its field. *)
LEMMA PackedRead ==
    ASSUME NEW type, type.kind = "repeated", IsFieldType(type), WireTypeOf(type) # DelimType,
           NEW packed, packed = Packed(type.of),
           NEW value, IsFieldValue(packed, value), NEW number, NEW old, old = Undefined,
           NEW bytes, NEW from,
           Placed(bytes, from, Data(DelimType, PartData(packed, value)))
    PROVE  Read(type, bytes, from, DelimType, number, old)
           = Value(Combine(type, number, old, value, packed),
                   from + Len(Data(DelimType, PartData(packed, value))))
<1>1. PICK chunk, next, wt : /\ wt = type.of.wt
                             /\ chunk = FlattenSeq([i \in DOMAIN value |-> Data(wt, value[i])])
                             /\ next = from + Len(Data(DelimType, chunk))
    OBVIOUS
<1>2. packed.kind = "packed" /\ packed.of = type.of
    BY DEF Packed
<1>3. /\ value \in Seq(Seq(Nat)) /\ IsData(DelimType, chunk)
      /\ \A i \in DOMAIN value : IsData(wt, value[i])
      /\ PartData(packed, value) = chunk
    BY <1>1, <1>2 DEF IsFieldValue, PartData
<1>4. PICK end : Items(wt, chunk) = Value(value, end)
    BY <1>1, <1>3, ItemsRead
<1>5. Delimiter(bytes, from) = Value(chunk, next)
  <2>1. chunk \in Seq(Nat) /\ Fits(Len(chunk))
      BY <1>3, DataForm
  <2>2. Data(DelimType, chunk) = Delimited(chunk)
      BY WireTypesDiffer DEF Data
  <2> QED  BY <1>1, <1>3, <2>1, <2>2, DelimiterReads
<1>6. WireTypeOf(type.of) # DelimType
    BY FieldWireType
<1>7. Read(type, bytes, from, DelimType, number, old) = Value(value, next)
    BY <1>1, <1>4, <1>5, <1>6, ValueIs DEF Read, Then
<1>8. Combine(type, number, old, value, packed) = old \o value
    BY <1>2 DEF Combine
<1>9. old \o value = value
    BY <1>3, ConcatEmptySeq DEF Undefined
<1> QED  BY <1>1, <1>3, <1>7, <1>8, <1>9

(* A field with another wire type than the reader expects: a repeated one  *)
(* goes on behind it.                                                      *)
LEMMA OtherRead ==
    ASSUME NEW type, IsFieldType(type), type.kind # "oneof",
           NEW wt, wt # WireTypeOf(type),
           type.kind = "repeated" => wt # DelimType /\ type.of.kind # "message",
           NEW value, IsData(wt, value), NEW number, NEW old, NEW bytes, NEW from,
           Placed(bytes, from, Data(wt, value))
    PROVE  /\ type.kind = "repeated" =>
                 Read(type, bytes, from, wt, number, old)
                     = Value(old, from + Len(Data(wt, value)))
           /\ type.kind # "repeated" =>
                 \E next : Read(type, bytes, from, wt, number, old) = Failed(next)
<1>1. CASE type.kind = "repeated"
  <2>1. IsItemType(type.of) /\ wt # WireTypeOf(type.of)
      BY <1>1, FieldWireType
  <2>2. PICK item, next : /\ item = ReadItem(type.of, bytes, from, wt, DefVal(type.of))
                          /\ item = Failed(next) /\ next = from + Len(Data(wt, value))
      BY <1>1, <2>1, ItemFails
  <2>3. item.is = "error" /\ item.at = next
      BY <2>2, FailedIs
  <2>4. Read(type, bytes, from, wt, number, old) = Value(old, next)
      BY <1>1, <2>2, <2>3 DEF Read
  <2> QED  BY <1>1, <2>2, <2>4
<1>2. CASE type.kind = "optional"
  <2>1. IsItemType(type.of) /\ wt # WireTypeOf(type.of)
      BY <1>2, FieldWireType
  <2>2. Read(type, bytes, from, wt, number, old)
          = ReadItem(type.of, bytes, from, wt, DefVal(type.of))
      BY <1>2 DEF Read
  <2> QED  BY <1>2, <2>1, <2>2, ItemFails
<1>3. CASE type.kind = "map"
  <2>1. wt # DelimType
      BY <1>3, FieldWireType
  <2>0. Message(<<type.key, type.value>>).kind = "message"
      BY DEF Message
  <2>2. PICK m : m = Message(<<type.key, type.value>>) /\ m.kind = "message"
      BY <2>0
  <2>3. ReadItem(m, bytes, from, wt, Undefined) = Failed(from)
      BY <2>1, <2>2 DEF ReadItem
  <2>4. Read(type, bytes, from, wt, number, old) = Failed(from)
      BY <1>3, <2>2, <2>3, FailedIs DEF Read, Then
  <2> QED  BY <1>3, <2>4
<1>4. CASE type.kind \in {"primitive", "maybe", "message"}
  <2>1. IsItemType(type)
      BY <1>4, FieldWireType
  <2>2. Read(type, bytes, from, wt, number, old) = ReadItem(type, bytes, from, wt, old)
      BY <1>4 DEF Read
  <2> QED  BY <1>4, <2>1, <2>2, ItemFails
<1> QED  BY <1>1, <1>2, <1>3, <1>4, FieldWireType

-----------------------------------------------------------------------------
(* One turn of the loop of the message reader                              *)

LEMMA TailOf ==
    ASSUME NEW s \in Seq(Nat), NEW t \in Seq(Nat)
    PROVE  SubSeq(s \o t, Len(s) + 1, Len(s \o t)) = t
<1> DEFINE tail == SubSeq(s \o t, Len(s) + 1, Len(s \o t))
<1>1. s \o t \in Seq(Nat) /\ Len(s \o t) = Len(s) + Len(t) /\ Len(s) \in Nat /\ Len(t) \in Nat
    OBVIOUS
<1>2. tail \in Seq(Nat) /\ Len(tail) = Len(t)
    BY <1>1, SMTT(40)
<1>3. ASSUME NEW i \in 1 .. Len(t) PROVE tail[i] = t[i]
  <2>1. tail[i] = (s \o t)[Len(s) + i]
      BY <1>1
  <2>2. (s \o t)[Len(s) + i] = t[i]
      BY <1>1
  <2> QED  BY <2>1, <2>2
<1> HIDE DEF tail
<1>4. tail = t
    BY <1>2, <1>3, SameSequence
<1> QED  BY <1>4 DEF tail

LEMMA ContentsOfOne ==
    ASSUME NEW part, WrittenOf(part) \in Seq(Nat)
    PROVE  Contents(<<part>>) = WrittenOf(part)
<1>1. PICK seqs : seqs = <<WrittenOf(part)>> /\ DOMAIN seqs = {1} /\ Len(seqs) = 1
                  /\ seqs[1] = WrittenOf(part) /\ seqs \in Seq(Seq(Nat))
  <2>1. /\ DOMAIN <<WrittenOf(part)>> = {1} /\ Len(<<WrittenOf(part)>>) = 1
        /\ <<WrittenOf(part)>>[1] = WrittenOf(part) /\ <<WrittenOf(part)>> \in Seq(Seq(Nat))
      OBVIOUS
  <2> QED  BY <2>1
<1>2. PICK g : Flattened(g, seqs)
    BY <1>1, FlattenedExists
<1>3. FlattenSeq(seqs) = g[1]
    BY <1>1, <1>2, FlattenIs
<1>4. g[1] = g[0] \o seqs[1] /\ g[0] = << >>
  <2>1. 1 \in 1 .. Len(seqs) /\ 1 - 1 = 0
      BY <1>1
  <2> QED  BY <1>2, <2>1 DEF Flattened
<1>5. g[1] = WrittenOf(part)
    BY <1>1, <1>4
<1>6. Contents(<<part>>) = FlattenSeq(seqs)
  <2>1. [i \in DOMAIN <<part>> |->
            Write(<<part>>[i].type, <<part>>[i].number, <<part>>[i].value)] = seqs
      BY <1>1 DEF WrittenOf
  <2> QED  BY <2>1 DEF Contents
<1> QED  BY <1>3, <1>5, <1>6

(* A part that writes something is its tag and its data.                   *)
LEMMA PartSplits ==
    ASSUME NEW part, Writable(part), WrittenOf(part) # << >>
    PROVE  LET wt == WireTypeOf(part.type)
               data == PartData(part.type, part.value)
           IN  /\ WrittenOf(part) = Tag(part.number, wt) \o Data(wt, data)
               /\ Tag(part.number, wt) \in Seq(Nat)
               /\ Data(wt, data) \in Seq(Nat)
               /\ WrittenOf(part) \in Seq(Nat)
               /\ wt \in WireTypes /\ IsData(wt, data)
<1>1. PICK wt, data : /\ wt = WireTypeOf(part.type)
                      /\ data = PartData(part.type, part.value)
    OBVIOUS
<1>2. IsData(wt, data) /\ WrittenOf(part) = Tag(part.number, wt) \o Data(wt, data)
    BY <1>1, PartForm
<1>3. wt \in WireTypes
    BY <1>2 DEF IsData
<1>4. Data(wt, data) \in Seq(Nat)
    BY <1>2, DataTyped
<1>5. Tag(part.number, wt) \in Seq(Nat)
  <2>1. 8 * part.number + wt \in Nat
      BY <1>3 DEF Writable, Fits
  <2> QED  BY <2>1, VarintTyped DEF Tag
<1>6. WrittenOf(part) \in Seq(Nat)
    BY <1>2, <1>4, <1>5
<1> QED  BY <1>1, <1>2, <1>3, <1>4, <1>5, <1>6

(* A packed chunk is read into a field that holds nothing yet. *)
PackedFits(fields, msg, part) ==
    part.type.kind = "packed" /\ part.number \in DOMAIN fields
        /\ fields[part.number].kind = "repeated" => msg.vtable[part.number] = << >>

(* A turn on a field that was written: it is merged into the message and   *)
(* the reader is behind it, or the reader throws.                          *)
LEMMA TurnReads ==
    ASSUME NEW fields, NEW part, Writable(part), WrittenOf(part) # << >>,
           part.number \in DOMAIN fields => IsFieldType(fields[part.number]),
           Fit(fields, part), NEW msg, PartReads(fields, msg, part),
           PackedFits(fields, msg, part),
           NEW bytes, NEW from, Placed(bytes, from, WrittenOf(part))
    PROVE  /\ Readable(fields, part) =>
                 ReadField(fields, bytes, from, msg)
                     = Value(Merge(fields, msg, part), from + Len(WrittenOf(part)))
           /\ ~Readable(fields, part) => ReadField(fields, bytes, from, msg) = Thrown
<1>1. PICK number, wt, data : /\ number = part.number
                              /\ wt = WireTypeOf(part.type)
                              /\ data = PartData(part.type, part.value)
    OBVIOUS
<1>2. PICK tag, body : tag = Tag(number, wt) /\ body = Data(wt, data)
    OBVIOUS
<1>3. /\ WrittenOf(part) = tag \o body
      /\ tag \in Seq(Nat) /\ body \in Seq(Nat) /\ WrittenOf(part) \in Seq(Nat)
      /\ wt \in WireTypes /\ IsData(wt, data)
    BY <1>1, <1>2, PartSplits
<1>4. PICK next : next = from + Len(tag)
    OBVIOUS
<1>5. Placed(bytes, from, tag) /\ Placed(bytes, next, body)
  <2>1. Placed(bytes, from, tag \o body)
      BY <1>3
  <2> QED  BY <1>3, <1>4, <2>1, PlacedParts
<1>6. PICK t : Varint(bytes, from) = Value(<<t>>, next) /\ t \div 8 = number /\ t % 8 = wt
  <2>1. number \in Nat /\ wt \in WireTypes /\ Fits(8 * number + wt)
      BY <1>1, <1>3 DEF Writable
  <2>2. Placed(bytes, from, Tag(number, wt)) /\ next = from + Len(Tag(number, wt))
      BY <1>2, <1>4, <1>5
  <2>3. /\ Varint(bytes, from) = Value(<<8 * number + wt>>, next)
        /\ (8 * number + wt) \div 8 = number /\ (8 * number + wt) % 8 = wt
      BY <2>1, <2>2, TagReads
  <2> QED  BY <2>3
<1>7. PICK end : end = next + Len(body) /\ end = from + Len(WrittenOf(part))
  <2>1. from \in Nat
      BY <1>5 DEF Placed
  <2>2. Len(tag) \in Nat /\ Len(body) \in Nat /\ Len(tag \o body) = Len(tag) + Len(body)
      BY <1>3
  <2>3. next + Len(body) = from + Len(tag \o body)
      BY <1>4, <2>1, <2>2
  <2> QED  BY <1>3, <2>3
<1>8. Contents(<<part>>) = tag \o body /\ Contents(<<part>>) # << >>
    BY <1>3, ContentsOfOne
<1>a. <<t>>[1] = t
    OBVIOUS
<1>9. CASE number \notin DOMAIN fields
  <2>1. Short(wt, data)
    <3> SUFFICES ASSUME wt = DelimType PROVE Len(data) < Base
        BY DEF Short
    <3>1. Len(tag \o body) <= Len(tag) + Base
        BY <1>1, <1>2, <1>8, <1>9 DEF Fit, ShortBlock
    <3>2. data \in Seq(Nat) /\ body = VarintOf[Len(data)] \o data
        BY <1>2, <1>3, DataForm, WireTypesDiffer DEF Data, Delimited
    <3>3. VarintOf[Len(data)] \in Seq(Nat) /\ Len(VarintOf[Len(data)]) > 0
      <4>1. Len(data) \in Nat
          BY <3>2
      <4> QED  BY <4>1, VarintTyped, VarintFormed DEF VarintForm
    <3>4. Len(body) = Len(VarintOf[Len(data)]) + Len(data)
        BY <3>2, <3>3
    <3>5. Len(tag \o body) = Len(tag) + Len(body) /\ Len(tag) \in Nat /\ Len(body) \in Nat
          /\ Len(data) \in Nat /\ Len(VarintOf[Len(data)]) \in Nat /\ Base \in Nat
        BY <1>3, <3>2, <3>3, BaseAssumption, SMTT(40)
    <3> QED  BY <3>1, <3>3, <3>4, <3>5
  <2>2. Skip(bytes, next, wt) = Value(body, end)
      BY <1>2, <1>3, <1>5, <1>7, <2>1, SkipReads
  <2>3. ReadField(fields, bytes, from, msg)
          = Value(Keep(msg, number, body), end)
    <3>1. t \div 8 \notin DOMAIN fields /\ Skip(bytes, next, t % 8) = Value(body, end)
        BY <1>6, <1>9, <2>2
    <3>2. ReadField(fields, bytes, from, msg)
            = Value(Keep(msg, t \div 8, body), end)
        BY <1>6, <1>a, <3>1, ValueIs DEF ReadField, Then
    <3> QED  BY <1>6, <3>2
  <2>4. SubSeq(tag \o body, Len(tag) + 1, Len(tag \o body)) = body
      BY <1>3, TailOf
  <2>5. Merge(fields, msg, part)
          = Keep(msg, number, body)
      BY <1>1, <1>2, <1>8, <1>9, <2>4 DEF Merge
  <2>6. Readable(fields, part)
      BY <1>1, <1>9 DEF Readable
  <2> QED  BY <1>7, <2>3, <2>5, <2>6
<1>b. CASE number \in DOMAIN fields
  <2>1. PICK type, slot : type = fields[number] /\ slot = Slot(fields, number)
      OBVIOUS
  <2>2. PICK old : old = msg.vtable[slot]
      OBVIOUS
  <2>3. IsFieldType(type)
      BY <1>1, <1>b, <2>1, SMTT(40)
  <2>4. ReadField(fields, bytes, from, msg)
          = Then(Raise(Read(type, bytes, next, wt, number, old)),
                 LAMBDA value, after : Value([msg EXCEPT !.vtable[slot] = value], after))
      BY <1>6, <1>a, <1>b, <2>1, <2>2, ValueIs DEF ReadField, Then
  <2>5. Merge(fields, msg, part)
          = [msg EXCEPT !.vtable[slot] = Combine(type, number, old, part.value, part.type)]
      BY <1>1, <1>8, <1>b, <2>1, <2>2 DEF Merge
  <2>6. ASSUME Read(type, bytes, next, wt, number, old)
                 = Value(Combine(type, number, old, part.value, part.type), end)
        PROVE  ReadField(fields, bytes, from, msg) = Value(Merge(fields, msg, part), end)
    <3>1. PICK new : new = Combine(type, number, old, part.value, part.type)
        OBVIOUS
    <3>2. Raise(Read(type, bytes, next, wt, number, old)) = Value(new, end)
        BY <2>6, <3>1, ValueIs DEF Raise
    <3>3. ReadField(fields, bytes, from, msg) = Value([msg EXCEPT !.vtable[slot] = new], end)
        BY <2>4, <3>2, ValueIs DEF Then
    <3> QED  BY <2>5, <3>1, <3>3
  <2>7. ASSUME NEW a, Read(type, bytes, next, wt, number, old) = Failed(a)
        PROVE  ReadField(fields, bytes, from, msg) = Thrown
    <3>1. Raise(Read(type, bytes, next, wt, number, old)) = Thrown
        BY <2>7, FailedIs DEF Raise
    <3> QED  BY <2>4, <3>1, ThrownIs DEF Then
  <2>8. CASE part.type = type
    <3>1. FieldReads(type, number, old, part.value)
        BY <1>1, <1>b, <2>1, <2>2, <2>8 DEF PartReads
    <3>2. IsFieldValue(type, part.value)
        BY <2>8 DEF Writable
    <3>3. Placed(bytes, next, Data(WireTypeOf(type), PartData(type, part.value)))
          /\ IsData(WireTypeOf(type), PartData(type, part.value))
        BY <1>1, <1>2, <1>3, <1>5, <2>8
    <3>4. Read(type, bytes, next, WireTypeOf(type), number, old)
            = Value(Combine(type, number, old, part.value, type),
                    next + Len(Data(WireTypeOf(type), PartData(type, part.value))))
        BY <2>3, <3>1, <3>2, <3>3, SameRead
    <3>5. Read(type, bytes, next, wt, number, old)
            = Value(Combine(type, number, old, part.value, part.type), end)
        BY <1>1, <1>2, <1>7, <2>8, <3>4
    <3>6. Readable(fields, part)
        BY <1>1, <2>1, <2>8 DEF Readable
    <3> QED  BY <1>7, <2>6, <3>5, <3>6
  <2>9. CASE type.kind = "repeated" /\ WireTypeOf(type) # DelimType
             /\ part.type = Packed(type.of)
    <3>1. part.type.kind = "packed" /\ wt = DelimType
        BY <1>1, <2>9 DEF Packed, WireTypeOf
    <3>2. old = Undefined
      <4>1. slot = number
          BY <2>1, <2>9 DEF Slot
      <4>2. msg.vtable[number] = << >>
          BY <1>1, <1>b, <2>1, <2>9, <3>1 DEF PackedFits
      <4> QED  BY <2>2, <4>1, <4>2 DEF Undefined
    <3>3. IsFieldValue(part.type, part.value)
        BY DEF Writable
    <3>4. Placed(bytes, next, Data(DelimType, PartData(part.type, part.value)))
        BY <1>1, <1>2, <1>5, <3>1
    <3>5. Read(type, bytes, next, DelimType, number, old)
            = Value(Combine(type, number, old, part.value, part.type),
                    next + Len(Data(DelimType, PartData(part.type, part.value))))
        BY <2>3, <2>9, <3>2, <3>3, <3>4, PackedRead
    <3>6. Read(type, bytes, next, wt, number, old)
            = Value(Combine(type, number, old, part.value, part.type), end)
        BY <1>1, <1>2, <1>7, <3>1, <3>5
    <3>7. Readable(fields, part)
        BY <1>1, <2>1, <2>9 DEF Readable
    <3> QED  BY <1>7, <2>6, <3>6, <3>7
  <2>10. CASE /\ WireTypeOf(part.type) # WireTypeOf(type)
              /\ type.kind # "oneof"
              /\ type.kind = "repeated" => wt # DelimType /\ type.of.kind # "message"
    <3>1. /\ type.kind = "repeated" =>
                Read(type, bytes, next, wt, number, old) = Value(old, end)
          /\ type.kind # "repeated" =>
                \E a : Read(type, bytes, next, wt, number, old) = Failed(a)
      <4>1. wt # WireTypeOf(type) /\ type.kind # "oneof"
            /\ (type.kind = "repeated" => wt # DelimType /\ type.of.kind # "message")
          BY <1>1, <2>10
      <4>2. IsData(wt, data) /\ Placed(bytes, next, Data(wt, data))
            /\ end = next + Len(Data(wt, data))
          BY <1>2, <1>3, <1>5, <1>7
      <4> QED  BY <2>3, <4>1, <4>2, OtherRead
    <3>2. CASE type.kind = "repeated"
      <4>1. part.type.kind # "packed"
          BY <1>1, <2>10, <3>2 DEF WireTypeOf
      <4>2. WireTypeOf(part.type) # WireTypeOf(type)
          BY <2>10
      <4>3. Combine(type, number, old, part.value, part.type) = old
          BY <3>2, <4>1, <4>2 DEF Combine
      <4>4. Readable(fields, part)
          BY <1>1, <2>1, <3>2 DEF Readable
      <4> QED  BY <1>7, <2>6, <3>1, <3>2, <4>3, <4>4
    <3>3. CASE type.kind # "repeated"
      <4>1. ~Readable(fields, part)
          BY <1>1, <1>b, <2>1, <2>10, <3>3 DEF Readable
      <4> QED  BY <2>7, <3>1, <3>3, <4>1
    <3> QED  BY <3>2, <3>3
  <2>11. \/ part.type = type
         \/ type.kind = "repeated" /\ WireTypeOf(type) # DelimType /\ part.type = Packed(type.of)
         \/ /\ WireTypeOf(part.type) # WireTypeOf(type)
            /\ type.kind # "oneof"
            /\ type.kind = "repeated" => wt # DelimType /\ type.of.kind # "message"
      BY <1>1, <1>b, <2>1 DEF Fit
  <2> QED  BY <2>8, <2>9, <2>10, <2>11
<1> QED  BY <1>9, <1>b

-----------------------------------------------------------------------------
(* The pieces of a message, one behind the other                           *)

(* What the first n of the pieces make together. *)
LEMMA FirstIs ==
    ASSUME NEW pieces, NEW m \in Nat, DOMAIN pieces = 1 .. m, NEW n \in 0 .. m
    PROVE  /\ DOMAIN First(pieces, n) = 1 .. n /\ Len(First(pieces, n)) = n
           /\ \A i \in 1 .. n : First(pieces, n)[i] = pieces[i]
<1>1. First(pieces, n) \in Seq({pieces[i] : i \in 1 .. m})
    BY DEF First
<1>2. DOMAIN First(pieces, n) = 1 .. n
    BY DEF First
<1>3. Len(First(pieces, n)) = n
    BY <1>1, <1>2
<1> QED  BY <1>2, <1>3 DEF First

LEMMA ContentsOfFirst ==
    ASSUME NEW pieces, NEW m \in Nat, DOMAIN pieces = 1 .. m,
           \A i \in 1 .. m : WrittenOf(pieces[i]) \in Seq(Nat)
    PROVE  \E g \in [0 .. m -> Seq(Nat)] :
              /\ g[0] = << >> /\ g[m] = Contents(pieces)
              /\ \A n \in 0 .. m : Contents(First(pieces, n)) = g[n]
              /\ \A n \in 0 .. m - 1 :
                    /\ Placed(g[m], Len(g[n]), WrittenOf(pieces[n + 1]))
                    /\ Len(g[n + 1]) = Len(g[n]) + Len(WrittenOf(pieces[n + 1]))
<1>1. PICK seqs : seqs = [i \in 1 .. m |-> WrittenOf(pieces[i])]
    OBVIOUS
<1>2. /\ seqs \in Seq(Seq(Nat)) /\ Len(seqs) = m
      /\ \A i \in 1 .. m : seqs[i] = WrittenOf(pieces[i])
  <2>1. [i \in 1 .. m |-> WrittenOf(pieces[i])] \in Seq(Seq(Nat))
      OBVIOUS
  <2>2. seqs \in Seq(Seq(Nat)) /\ DOMAIN seqs = 1 .. m
      BY <1>1, <2>1
  <2>3. Len(seqs) = m
      BY <2>2
  <2> QED  BY <1>1, <2>2, <2>3
<1>3. PICK g : Flattened(g, seqs)
    BY <1>2, FlattenedExists
<1>4. g \in [0 .. m -> Seq(Nat)] /\ g[0] = << >>
    BY <1>2, <1>3 DEF Flattened
<1>5. ASSUME NEW n \in 0 .. m PROVE Contents(First(pieces, n)) = g[n]
  <2>1. /\ DOMAIN First(pieces, n) = 1 .. n
        /\ \A i \in 1 .. n : First(pieces, n)[i] = pieces[i]
      BY FirstIs
  <2>2. Contents(First(pieces, n)) = FlattenSeq([i \in 1 .. n |-> WrittenOf(pieces[i])])
    <3>1. [i \in DOMAIN First(pieces, n) |->
              Write(First(pieces, n)[i].type, First(pieces, n)[i].number,
                    First(pieces, n)[i].value)]
            = [i \in 1 .. n |-> WrittenOf(pieces[i])]
        BY <2>1 DEF WrittenOf
    <3> QED  BY <3>1 DEF Contents
  <2>3. First(seqs, n) = [i \in 1 .. n |-> WrittenOf(pieces[i])]
      BY <1>2 DEF First
  <2>4. FlattenSeq(First(seqs, n)) = g[n]
      BY <1>2, <1>3, FlattenFirst
  <2> QED  BY <2>2, <2>3, <2>4
<1>6. g[m] = Contents(pieces)
  <2>1. FlattenSeq(seqs) = g[m]
      BY <1>2, <1>3, FlattenIs
  <2>2. [i \in DOMAIN pieces |-> Write(pieces[i].type, pieces[i].number, pieces[i].value)]
            = seqs
      BY <1>1 DEF WrittenOf
  <2> QED  BY <2>1, <2>2 DEF Contents
<1>7. ASSUME NEW n \in 0 .. m - 1
      PROVE  /\ Placed(g[m], Len(g[n]), WrittenOf(pieces[n + 1]))
             /\ Len(g[n + 1]) = Len(g[n]) + Len(WrittenOf(pieces[n + 1]))
  <2>1. seqs[n + 1] = WrittenOf(pieces[n + 1])
    <3>1. n + 1 \in 1 .. m
        OBVIOUS
    <3> QED  BY <1>2, <3>1
  <2>2. /\ Placed(g[Len(seqs)], Len(g[n]), seqs[n + 1])
        /\ Len(g[n + 1]) = Len(g[n]) + Len(seqs[n + 1])
      BY <1>2, <1>3, FlattenPlaces
  <2> QED  BY <1>2, <2>1, <2>2
<1> QED  BY <1>4, <1>5, <1>6, <1>7

LEMMA ContentsTyped ==
    ASSUME NEW pieces, NEW m \in Nat, DOMAIN pieces = 1 .. m,
           \A i \in 1 .. m : WrittenOf(pieces[i]) \in Seq(Nat), NEW n \in 0 .. m
    PROVE  Contents(First(pieces, n)) \in Seq(Nat) /\ Contents(pieces) \in Seq(Nat)
<1>1. PICK g \in [0 .. m -> Seq(Nat)] :
              /\ g[0] = << >> /\ g[m] = Contents(pieces)
              /\ \A i \in 0 .. m : Contents(First(pieces, i)) = g[i]
    BY ContentsOfFirst, ZenonT(60)
<1> QED  BY <1>1

(* The messages after each of the first pieces *)
Merged(fields, msg, pieces, n, f) ==
    f = [k \in 0 .. n |-> IF k = 0 THEN msg ELSE Merge(fields, f[k - 1], pieces[k])]

LEMMA MergedIs ==
    ASSUME NEW fields, NEW msg, NEW pieces, NEW n \in Nat, NEW f,
           Merged(fields, msg, pieces, n, f), NEW k \in 0 .. n
    PROVE  f[k] = IF k = 0 THEN msg ELSE Merge(fields, f[k - 1], pieces[k])
<1> DEFINE h == [i \in 0 .. n |-> IF i = 0 THEN msg ELSE Merge(fields, f[i - 1], pieces[i])]
<1>1. f = h
    BY DEF Merged
<1>2. h[k] = IF k = 0 THEN msg ELSE Merge(fields, f[k - 1], pieces[k])
    OBVIOUS
<1> HIDE DEF h
<1> QED  BY <1>1, <1>2

LEMMA MergedStart ==
    ASSUME NEW fields, NEW msg, NEW pieces, NEW n \in Nat, NEW f,
           Merged(fields, msg, pieces, n, f)
    PROVE  f[0] = msg
<1>1. 0 \in 0 .. n
    OBVIOUS
<1> QED  BY <1>1, MergedIs

LEMMA MergedStep ==
    ASSUME NEW fields, NEW msg, NEW pieces, NEW n \in Nat, NEW f,
           Merged(fields, msg, pieces, n, f), NEW k \in 1 .. n
    PROVE  f[k] = Merge(fields, f[k - 1], pieces[k])
<1>1. k \in 0 .. n /\ k # 0
    OBVIOUS
<1> QED  BY <1>1, MergedIs

LEMMA MergedExists ==
    ASSUME NEW fields, NEW msg, NEW pieces, NEW m \in Nat
    PROVE  \E f : Merged(fields, msg, pieces, m, f)
<1> DEFINE S == {n \in Nat : \E f : Merged(fields, msg, pieces, n, f)}
<1>1. 0 \in S
  <2> DEFINE f == [k \in 0 .. 0 |-> msg]
  <2>1. f = [k \in 0 .. 0 |-> IF k = 0 THEN msg ELSE Merge(fields, f[k - 1], pieces[k])]
      OBVIOUS
  <2>2. Merged(fields, msg, pieces, 0, f)
      BY <2>1 DEF Merged
  <2> QED  BY <2>2
<1>2. ASSUME NEW n \in S PROVE n + 1 \in S
  <2>0. n \in Nat
      OBVIOUS
  <2>1. PICK f : Merged(fields, msg, pieces, n, f)
      OBVIOUS
  <2>2. PICK last : last = Merge(fields, f[n], pieces[n + 1])
      OBVIOUS
  <2> DEFINE h == [k \in 0 .. n + 1 |-> IF k = n + 1 THEN last ELSE f[k]]
  <2>3. ASSUME NEW k \in 0 .. n + 1
        PROVE  h[k] = IF k = 0 THEN msg ELSE Merge(fields, h[k - 1], pieces[k])
    <3>1. CASE k = n + 1
      <4>1. h[k] = last /\ h[k - 1] = f[n] /\ k # 0
          BY <3>1
      <4> HIDE DEF h
      <4> QED  BY <2>2, <3>1, <4>1
    <3>2. CASE k = 0
      <4>1. h[k] = f[0]
          BY <3>2
      <4>2. f[0] = msg
          BY <2>0, <2>1, MergedStart
      <4> HIDE DEF h
      <4> QED  BY <3>2, <4>1, <4>2
    <3>3. CASE k \in 1 .. n
      <4>1. h[k] = f[k] /\ h[k - 1] = f[k - 1] /\ k # 0
          BY <3>3
      <4>2. f[k] = Merge(fields, f[k - 1], pieces[k])
          BY <2>0, <2>1, <3>3, MergedStep
      <4> HIDE DEF h
      <4> QED  BY <4>1, <4>2
    <3> QED  BY <3>1, <3>2, <3>3
  <2>4. DOMAIN h = 0 .. n + 1 /\ h = [k \in 0 .. n + 1 |-> h[k]]
      OBVIOUS
  <2> HIDE DEF h
  <2>5. h = [k \in 0 .. n + 1 |-> IF k = 0 THEN msg ELSE Merge(fields, h[k - 1], pieces[k])]
      BY <2>3, <2>4
  <2>6. Merged(fields, msg, pieces, n + 1, h)
      BY <2>5 DEF Merged
  <2> QED  BY <2>6
<1> HIDE DEF S
<1>3. m \in S
    BY <1>1, <1>2, Induction DEF S
<1> QED  BY <1>3 DEF S

(* Merging the first pieces ends where the merging of all of them has come *)
(* to.                                                                     *)
LEMMA MergeAllIs ==
    ASSUME NEW fields, NEW msg, NEW pieces, NEW m \in Nat, DOMAIN pieces = 1 .. m,
           NEW f, Merged(fields, msg, pieces, m, f), NEW n \in 0 .. m
    PROVE  MergeAll(fields, msg, First(pieces, n)) = f[n]
<1>1. PICK first : first = First(pieces, n)
    OBVIOUS
<1>2. Len(first) = n /\ \A i \in 1 .. n : first[i] = pieces[i]
    BY <1>1, FirstIs
<1>3. PICK h : h = CHOOSE g : Merged(fields, msg, first, n, g)
    OBVIOUS
<1>4. Merged(fields, msg, first, n, h)
    BY <1>3, MergedExists
<1>5. MergeAll(fields, msg, first) = h[n]
    BY <1>2, <1>3 DEF MergeAll, Merged
<1>6. h[0] = f[0]
  <2>0. n \in Nat
      OBVIOUS
  <2>1. h[0] = msg
      BY <1>4, <2>0, MergedStart
  <2>2. f[0] = msg
      BY MergedStart
  <2> QED  BY <2>1, <2>2
<1>7. ASSUME NEW k \in 1 .. n, h[k - 1] = f[k - 1] PROVE h[k] = f[k]
  <2>1. h[k] = Merge(fields, h[k - 1], first[k])
      BY <1>4, MergedStep
  <2>2. f[k] = Merge(fields, f[k - 1], pieces[k])
    <3>1. k \in 1 .. m
        OBVIOUS
    <3> QED  BY <3>1, MergedStep
  <2> QED  BY <1>2, <1>7, <2>1, <2>2
<1>8. h[n] = f[n]
    BY <1>6, <1>7, Alike
<1> QED  BY <1>1, <1>5, <1>8

(* A part that writes nothing changes nothing. *)
LEMMA MergeNothing ==
    ASSUME NEW fields, NEW msg, NEW part, WrittenOf(part) = << >>
    PROVE  Merge(fields, msg, part) = msg
<1>1. WrittenOf(part) \in Seq(Nat)
    OBVIOUS
<1>2. Contents(<<part>>) = << >>
    BY <1>1, ContentsOfOne
<1> QED  BY <1>2 DEF Merge

-----------------------------------------------------------------------------
(* Where a repeated field is kept                                          *)

LEMMA SlotIs ==
    ASSUME NEW fields, AreFields(fields), NEW number \in DOMAIN fields
    PROVE  /\ Slot(fields, number) \in DOMAIN fields
           /\ fields[number].kind # "oneof" => Slot(fields, number) = number
           /\ fields[number].kind = "oneof" =>
                 /\ fields[Slot(fields, number)].kind = "oneof"
                 /\ fields[Slot(fields, number)].name = fields[number].name
<1>1. CASE fields[number].kind # "oneof"
    BY <1>1 DEF Slot
<1>2. CASE fields[number].kind = "oneof"
  <2>1. PICK members : members = {n \in DOMAIN fields :
                                     fields[n].kind = "oneof"
                                     /\ fields[n].name = fields[number].name}
      OBVIOUS
  <2>2. members \in SUBSET Nat /\ number \in members
      BY <1>2, <2>1 DEF AreFields
  <2>3. PICK x \in members : \A y \in members : x <= y
      BY <2>2, Least
  <2>4. Min(members) = x
      BY <2>2, <2>3, MinIs
  <2>5. Slot(fields, number) = x
      BY <1>2, <2>1, <2>4 DEF Slot
  <2> QED  BY <1>2, <2>1, <2>3, <2>5
<1> QED  BY <1>1, <1>2

(* What merging a part does to the places of a message. *)
Filled(fields, msg, part) ==
    /\ part.number \in DOMAIN fields
    /\ DOMAIN Merge(fields, msg, part) = DOMAIN msg
    /\ \E new : Merge(fields, msg, part).vtable
                = [msg.vtable EXCEPT ![Slot(fields, part.number)] = new]

LEMMA MergePlaces ==
    ASSUME NEW fields, NEW msg, Shaped(fields, msg), NEW part
    PROVE  \/ Merge(fields, msg, part) = msg
           \/ /\ DOMAIN Merge(fields, msg, part) = DOMAIN msg
              /\ Merge(fields, msg, part).vtable = msg.vtable
           \/ Filled(fields, msg, part)
<1>1. CASE \E number, raw : Merge(fields, msg, part) = Keep(msg, number, raw)
  <2>1. PICK number, raw : Merge(fields, msg, part) = Keep(msg, number, raw)
      BY <1>1
  <2>2. DOMAIN Keep(msg, number, raw) = DOMAIN msg /\ Keep(msg, number, raw).vtable = msg.vtable
      BY DEF Keep, Shaped
  <2> QED  BY <2>1, <2>2
<1>2. CASE part.number \in DOMAIN fields
           /\ \E new : Merge(fields, msg, part)
                       = [msg EXCEPT !.vtable[Slot(fields, part.number)] = new]
  <2>1. PICK slot : slot = Slot(fields, part.number)
      OBVIOUS
  <2>2. PICK new : Merge(fields, msg, part) = [msg EXCEPT !.vtable[slot] = new]
      BY <1>2, <2>1
  <2>3. PICK after : after = [msg EXCEPT !.vtable[slot] = new]
      OBVIOUS
  <2>4. DOMAIN after = DOMAIN msg /\ after.vtable = [msg.vtable EXCEPT ![slot] = new]
      BY <2>3 DEF Shaped
  <2> QED  BY <1>2, <2>1, <2>2, <2>3, <2>4 DEF Filled
<1>3. \/ Merge(fields, msg, part) = msg
      \/ \E number, raw : Merge(fields, msg, part) = Keep(msg, number, raw)
      \/ part.number \in DOMAIN fields
         /\ \E new : Merge(fields, msg, part)
                     = [msg EXCEPT !.vtable[Slot(fields, part.number)] = new]
    BY DEF Merge
<1> QED  BY <1>1, <1>2, <1>3

LEMMA MergeShaped ==
    ASSUME NEW fields, NEW msg, Shaped(fields, msg), NEW part
    PROVE  Shaped(fields, Merge(fields, msg, part))
<1>1. DOMAIN Merge(fields, msg, part) = DOMAIN msg
      /\ DOMAIN Merge(fields, msg, part).vtable = DOMAIN msg.vtable
  <2>1. CASE Filled(fields, msg, part)
      BY <2>1 DEF Filled
  <2> QED  BY <2>1, MergePlaces
<1> QED  BY <1>1 DEF Shaped

LEMMA MergeKeeps ==
    ASSUME NEW fields, AreFields(fields), NEW msg, Shaped(fields, msg), NEW part,
           NEW number \in DOMAIN fields, fields[number].kind = "repeated",
           part.number # number
    PROVE  Merge(fields, msg, part).vtable[number] = msg.vtable[number]
<1>1. number \in DOMAIN msg.vtable
  <2>1. Slot(fields, number) = number
      BY DEF Slot
  <2> QED  BY <2>1 DEF Shaped, Slots
<1>2. CASE Filled(fields, msg, part)
  <2>1. PICK slot : slot = Slot(fields, part.number)
      OBVIOUS
  <2>2. PICK new : Merge(fields, msg, part).vtable = [msg.vtable EXCEPT ![slot] = new]
      BY <1>2, <2>1 DEF Filled
  <2>3. slot # number
    <3>1. part.number \in DOMAIN fields
        BY <1>2 DEF Filled
    <3> QED  BY <2>1, <3>1, SlotIs
  <2> QED  BY <1>1, <2>2, <2>3
<1> QED  BY <1>2, MergePlaces

-----------------------------------------------------------------------------
(* Reading the pieces of a message                                         *)

At(pieces, n) == Len(Contents(First(pieces, n)))

(* The pieces can be read into the message, as far as they are readable.   *)
Decodable(fields, msg, pieces, m) ==
    /\ AreFields(fields) /\ Shaped(fields, msg)
    /\ pieces = [i \in 1 .. m |-> pieces[i]]
    /\ \A i \in 1 .. m : Writable(pieces[i])
    /\ PiecesFit(fields, msg, pieces)
    /\ PackedFirst(fields, msg, pieces)

LEMMA PieceWritten ==
    ASSUME NEW part, Writable(part)
    PROVE  WrittenOf(part) \in Seq(Nat)
<1>1. CASE WrittenOf(part) = << >>
    BY <1>1
<1>2. CASE WrittenOf(part) # << >>
    BY <1>2, PartSplits
<1> QED  BY <1>1, <1>2

LEMMA AfterStart ==
    ASSUME NEW fields, NEW msg, NEW pieces, NEW m \in Nat, DOMAIN pieces = 1 .. m
    PROVE  After(fields, msg, pieces, 0) = msg
<1>1. PICK f : Merged(fields, msg, pieces, m, f)
    BY MergedExists
<1>2. 0 \in 0 .. m
    OBVIOUS
<1>3. After(fields, msg, pieces, 0) = f[0]
    BY <1>1, <1>2, MergeAllIs DEF After
<1> QED  BY <1>1, <1>3, MergedStart

LEMMA AfterStep ==
    ASSUME NEW fields, NEW msg, NEW pieces, NEW m \in Nat, DOMAIN pieces = 1 .. m,
           NEW n \in 0 .. m - 1
    PROVE  After(fields, msg, pieces, n + 1)
           = Merge(fields, After(fields, msg, pieces, n), pieces[n + 1])
<1>1. PICK f : Merged(fields, msg, pieces, m, f)
    BY MergedExists
<1>2. n + 1 \in 1 .. m /\ n + 1 \in 0 .. m /\ n \in 0 .. m /\ (n + 1) - 1 = n
    OBVIOUS
<1>3. f[n + 1] = Merge(fields, f[(n + 1) - 1], pieces[n + 1])
    BY <1>1, <1>2, MergedStep
<1>4. After(fields, msg, pieces, n + 1) = f[n + 1] /\ After(fields, msg, pieces, n) = f[n]
    BY <1>1, <1>2, MergeAllIs DEF After
<1> QED  BY <1>2, <1>3, <1>4

LEMMA AfterShaped ==
    ASSUME NEW fields, NEW msg, Shaped(fields, msg),
           NEW pieces, NEW m \in Nat, DOMAIN pieces = 1 .. m, NEW n \in 0 .. m
    PROVE  Shaped(fields, After(fields, msg, pieces, n))
<1> DEFINE S == {k \in Nat : k <= m => Shaped(fields, After(fields, msg, pieces, k))}
<1>1. 0 \in S
    BY AfterStart
<1>2. ASSUME NEW k \in S PROVE k + 1 \in S
  <2>1. SUFFICES ASSUME k + 1 <= m PROVE Shaped(fields, After(fields, msg, pieces, k + 1))
      OBVIOUS
  <2>2. Shaped(fields, After(fields, msg, pieces, k)) /\ k \in 0 .. m - 1
      BY <2>1
  <2> HIDE DEF S
  <2>3. Shaped(fields, Merge(fields, After(fields, msg, pieces, k), pieces[k + 1]))
      BY <2>2, MergeShaped
  <2> QED  BY <2>2, <2>3, AfterStep
<1> HIDE DEF S
<1>3. S = Nat
    BY <1>1, <1>2, Induction DEF S
<1>4. n \in S /\ n <= m
    BY <1>3
<1> QED  BY <1>4 DEF S

(* A repeated field holds what it held until a piece has its number.       *)
LEMMA Untouched ==
    ASSUME NEW fields, AreFields(fields), NEW msg, Shaped(fields, msg),
           NEW pieces, NEW m \in Nat, DOMAIN pieces = 1 .. m, NEW n \in 0 .. m,
           NEW number \in DOMAIN fields, fields[number].kind = "repeated",
           \A i \in 1 .. n : pieces[i].number # number
    PROVE  After(fields, msg, pieces, n).vtable[number] = msg.vtable[number]
<1> DEFINE S == {k \in Nat : k <= n => After(fields, msg, pieces, k).vtable[number]
                                       = msg.vtable[number]}
<1>1. 0 \in S
    BY AfterStart
<1>2. ASSUME NEW k \in S PROVE k + 1 \in S
  <2>1. SUFFICES ASSUME k + 1 <= n
                 PROVE  After(fields, msg, pieces, k + 1).vtable[number] = msg.vtable[number]
      OBVIOUS
  <2>2. /\ After(fields, msg, pieces, k).vtable[number] = msg.vtable[number]
        /\ k \in 0 .. m - 1 /\ k \in 0 .. m /\ k + 1 \in 1 .. n
      BY <2>1
  <2> HIDE DEF S
  <2>3. PICK part : part = pieces[k + 1] /\ part.number # number
      BY <2>2
  <2>4. PICK before : before = After(fields, msg, pieces, k) /\ Shaped(fields, before)
      BY <2>2, AfterShaped
  <2>5. Merge(fields, before, part).vtable[number] = before.vtable[number]
      BY <2>3, <2>4, MergeKeeps
  <2>6. After(fields, msg, pieces, k + 1) = Merge(fields, before, part)
      BY <2>2, <2>3, <2>4, AfterStep
  <2> QED  BY <2>2, <2>4, <2>5, <2>6
<1> HIDE DEF S
<1>3. S = Nat
    BY <1>1, <1>2, Induction DEF S
<1>4. n \in S /\ n <= n
    BY <1>3
<1> QED  BY <1>4 DEF S

(* A turn on the next piece. *)
LEMMA PieceReads ==
    ASSUME NEW fields, NEW msg, NEW pieces, NEW m \in Nat,
           Decodable(fields, msg, pieces, m),
           NEW n \in 0 .. m - 1, \A i \in 1 .. n : Readable(fields, pieces[i]),
           WrittenOf(pieces[n + 1]) # << >>
    PROVE  /\ At(pieces, n) < Len(Contents(pieces))
           /\ Readable(fields, pieces[n + 1]) =>
                 ReadField(fields, Contents(pieces), At(pieces, n),
                           After(fields, msg, pieces, n))
                     = Value(After(fields, msg, pieces, n + 1), At(pieces, n + 1))
           /\ ~Readable(fields, pieces[n + 1]) =>
                 ReadField(fields, Contents(pieces), At(pieces, n),
                           After(fields, msg, pieces, n)) = Thrown
<1>1. DOMAIN pieces = 1 .. m /\ n + 1 \in 1 .. m
    BY DEF Decodable
<1>2. PICK part, before : part = pieces[n + 1] /\ before = After(fields, msg, pieces, n)
    OBVIOUS
<1>3. Writable(part) /\ WrittenOf(part) # << >> /\ WrittenOf(part) \in Seq(Nat)
    BY <1>1, <1>2, PieceWritten DEF Decodable
<1>4. PICK bytes, from : bytes = Contents(pieces) /\ from = At(pieces, n)
    OBVIOUS
<1>5. /\ Placed(bytes, from, WrittenOf(part))
      /\ At(pieces, n + 1) = from + Len(WrittenOf(part))
  <2>1. \A i \in 1 .. m : WrittenOf(pieces[i]) \in Seq(Nat)
      BY PieceWritten DEF Decodable
  <2>2. PICK g \in [0 .. m -> Seq(Nat)] :
              /\ g[m] = Contents(pieces)
              /\ \A i \in 0 .. m : Contents(First(pieces, i)) = g[i]
              /\ \A i \in 0 .. m - 1 :
                    /\ Placed(g[m], Len(g[i]), WrittenOf(pieces[i + 1]))
                    /\ Len(g[i + 1]) = Len(g[i]) + Len(WrittenOf(pieces[i + 1]))
      BY <1>1, <2>1, ContentsOfFirst
  <2>3. At(pieces, n) = Len(g[n]) /\ At(pieces, n + 1) = Len(g[n + 1])
    <3>1. n \in 0 .. m /\ n + 1 \in 0 .. m
        OBVIOUS
    <3> QED  BY <2>2, <3>1 DEF At
  <2> QED  BY <1>2, <1>4, <2>2, <2>3
<1>6. from < Len(bytes)
  <2>1. Len(WrittenOf(part)) \in Nat /\ Len(WrittenOf(part)) # 0
      BY <1>3, EmptySeq
  <2>2. from \in Nat /\ Len(bytes) \in Nat /\ from + Len(WrittenOf(part)) <= Len(bytes)
      BY <1>5 DEF Placed
  <2> QED  BY <2>1, <2>2
<1>7. AreFields(fields)
    BY DEF Decodable
<1>8. Fit(fields, part) /\ PartReads(fields, before, part)
  <2>1. n = (n + 1) - 1
      OBVIOUS
  <2>2. First(pieces, n) = [i \in 1 .. (n + 1) - 1 |-> pieces[i]]
      BY <2>1 DEF First
  <2>3. PiecesFit(fields, msg, pieces)
      BY DEF Decodable
  <2>4. \A i \in 1 .. (n + 1) - 1 : Readable(fields, pieces[i])
      BY <2>1
  <2>5. before = MergeAll(fields, msg, [i \in 1 .. (n + 1) - 1 |-> pieces[i]])
      BY <1>2, <2>2 DEF After
  <2> QED  BY <1>1, <1>2, <2>3, <2>4, <2>5 DEF PiecesFit
<1>9. PackedFits(fields, before, part)
  <2>0. SUFFICES ASSUME part.type.kind = "packed", part.number \in DOMAIN fields,
                      fields[part.number].kind = "repeated"
               PROVE  before.vtable[part.number] = << >>
      BY DEF PackedFits
  <2>1. n = (n + 1) - 1
      OBVIOUS
  <2>2. /\ msg.vtable[part.number] = << >>
        /\ \A i \in 1 .. (n + 1) - 1 : pieces[i].number # part.number
    <3>1. PackedFirst(fields, msg, pieces)
        BY DEF Decodable
    <3> QED  BY <1>1, <1>2, <2>0, <3>1 DEF PackedFirst
  <2>3. Shaped(fields, msg) /\ AreFields(fields) /\ n \in 0 .. m
      BY DEF Decodable
  <2>4. \A i \in 1 .. n : pieces[i].number # part.number
      BY <2>1, <2>2
  <2>5. before.vtable[part.number] = msg.vtable[part.number]
    <3>1. PICK number \in DOMAIN fields : number = part.number /\ fields[number].kind = "repeated"
        BY <2>0
    <3>2. \A i \in 1 .. n : pieces[i].number # number
        BY <2>4, <3>1
    <3>3. After(fields, msg, pieces, n).vtable[number] = msg.vtable[number]
        BY <1>1, <2>3, <3>1, <3>2, Untouched
    <3> QED  BY <1>2, <3>1, <3>3
  <2> QED  BY <2>2, <2>5
<1>10. After(fields, msg, pieces, n + 1) = Merge(fields, before, part)
    BY <1>1, <1>2, AfterStep
<1>11. part.number \in DOMAIN fields => IsFieldType(fields[part.number])
    BY <1>7 DEF AreFields
<1>12. /\ Readable(fields, part) =>
              ReadField(fields, bytes, from, before)
                  = Value(Merge(fields, before, part), from + Len(WrittenOf(part)))
       /\ ~Readable(fields, part) => ReadField(fields, bytes, from, before) = Thrown
    BY <1>3, <1>5, <1>8, <1>9, <1>11, TurnReads
<1> QED  BY <1>2, <1>4, <1>5, <1>6, <1>10, <1>12

-----------------------------------------------------------------------------
(* An input                                                                *)

LEMMA InputIs ==
    ASSUME NEW length \in 0 .. MaxParts, NEW input \in Inputs(length)
    PROVE  Len(input) = length /\ IsInput(input)
<1>1. length \in Nat
    BY PartsAssumption
<1>2. input \in [1 .. length -> DOMAIN PartList]
    BY DEF Inputs
<1>3. input \in Seq(DOMAIN PartList) /\ DOMAIN input = 1 .. length
    BY <1>1, <1>2
<1>4. Len(input) = length
    BY <1>1, <1>3
<1> QED  BY <1>4 DEF IsInput

LEMMA PiecesAre ==
    ASSUME NEW input, IsInput(input)
    PROVE  /\ Len(input) \in Nat
           /\ DOMAIN InputPieces(input) = 1 .. Len(input)
           /\ \A i \in 1 .. Len(input) :
                 /\ i \in DOMAIN input /\ InputPieces(input)[i] = PartList[input[i]]
                 /\ Writable(InputPieces(input)[i])
                 /\ WrittenOf(InputPieces(input)[i]) # << >>
<1>1. Len(input) \in Nat /\ input \in [1 .. Len(input) -> DOMAIN PartList] /\ Whole(input)
    BY PartsAssumption DEF IsInput, Inputs
<1>2. DOMAIN InputPieces(input) = 1 .. Len(input)
    BY DEF InputPieces
<1>3. ASSUME NEW i \in 1 .. Len(input)
      PROVE  /\ i \in DOMAIN input /\ InputPieces(input)[i] = PartList[input[i]]
             /\ Writable(InputPieces(input)[i])
             /\ WrittenOf(InputPieces(input)[i]) # << >>
  <2>1. i \in DOMAIN input /\ input[i] \in DOMAIN PartList
      BY <1>1
  <2>2. PICK part : part = PartList[input[i]] /\ Writable(part)
      BY <2>1, PartsAssumption
  <2>3. InputPieces(input)[i] = part
      BY <2>2 DEF InputPieces
  <2>4. Contents(<<part>>) # << >>
      BY <1>1, <2>1, <2>2 DEF Whole
  <2>5. WrittenOf(part) # << >>
      BY <2>2, <2>4, PieceWritten, ContentsOfOne
  <2> QED  BY <2>1, <2>2, <2>3, <2>5
<1> QED  BY <1>1, <1>2, <1>3

LEMMA TemplateShaped ==
    /\ Shaped(Fields, Template(Fields))
    /\ \A number \in DOMAIN Fields :
          Fields[number].kind = "repeated" => Template(Fields).vtable[number] = << >>
<1>1. "vtable" \in DOMAIN Template(Fields) /\ DOMAIN Template(Fields).vtable = Slots(Fields)
    BY DEF Template
<1>2. ASSUME NEW number \in DOMAIN Fields, Fields[number].kind = "repeated"
      PROVE  Template(Fields).vtable[number] = << >>
  <2>1. Slot(Fields, number) = number
      BY <1>2 DEF Slot
  <2>2. number \in Slots(Fields)
      BY <2>1 DEF Slots
  <2>3. Template(Fields).vtable[number] = DefVal(Fields[number])
      BY <2>2 DEF Template
  <2> QED  BY <1>2, <2>3 DEF DefVal
<1> QED  BY <1>1, <1>2 DEF Shaped

LEMMA InputDecodable ==
    ASSUME InputsFit, NEW input, IsInput(input)
    PROVE  Decodable(Fields, Template(Fields), InputPieces(input), Len(input))
<1>1. PICK pieces, m : /\ pieces = InputPieces(input) /\ m = Len(input) /\ m \in Nat
                        /\ DOMAIN pieces = 1 .. m
  <2>1. Len(input) \in Nat /\ DOMAIN InputPieces(input) = 1 .. Len(input)
      BY PiecesAre
  <2> QED  BY <2>1
<1>2. \A i \in 1 .. m : Writable(pieces[i]) /\ pieces[i] = PartList[input[i]] /\ i \in DOMAIN input
    BY <1>1, PiecesAre
<1>3. AreFields(Fields) /\ Shaped(Fields, Template(Fields))
    BY FieldsAssumption, TemplateShaped DEF AreFields
<1>4. pieces = [i \in 1 .. m |-> pieces[i]]
  <2>1. pieces = [i \in 1 .. m |-> PartList[input[i]]]
      BY <1>1 DEF InputPieces
  <2> QED  BY <1>2, <2>1
<1>5. PiecesFit(Fields, Template(Fields), pieces)
  <2>1. m \in 0 .. MaxParts /\ input \in Inputs(m)
      BY <1>1 DEF IsInput
  <2>2. pieces = [i \in 1 .. m |-> PartList[input[i]]]
      BY <1>1 DEF InputPieces
  <2> QED  BY <2>1, <2>2 DEF InputsFit
<1>6. PackedFirst(Fields, Template(Fields), pieces)
  <2> SUFFICES ASSUME NEW n \in 1 .. m, pieces[n].type.kind = "packed",
                      pieces[n].number \in DOMAIN Fields,
                      Fields[pieces[n].number].kind = "repeated"
               PROVE  /\ Template(Fields).vtable[pieces[n].number] = << >>
                      /\ \A i \in 1 .. n - 1 : pieces[i].number # pieces[n].number
      BY <1>1 DEF PackedFirst
  <2>1. Template(Fields).vtable[pieces[n].number] = << >>
      BY TemplateShaped
  <2>2. ASSUME NEW i \in 1 .. n - 1, pieces[i].number = pieces[n].number
        PROVE  FALSE
    <3>1. i \in 1 .. m /\ n \in 1 .. m /\ i < n
        BY <1>1
    <3>2. i \in DOMAIN input /\ n \in DOMAIN input
          /\ PartList[input[i]] = pieces[i] /\ PartList[input[n]] = pieces[n]
        BY <1>2, <3>1
    <3>3. Whole(input)
        BY DEF IsInput, Inputs
    <3>4. PartList[input[i]].number = PartList[input[n]].number
        BY <2>2, <3>2
    <3>5. PartList[input[n]].type.kind # "packed"
        BY <3>1, <3>2, <3>3, <3>4 DEF Whole
    <3> QED  BY <3>2, <3>5
  <2> QED  BY <2>1, <2>2
<1> QED  BY <1>1, <1>2, <1>3, <1>4, <1>5, <1>6 DEF Decodable

(* The reader of an input when n of its pieces are read.                   *)
Reading(input, n, cursor, msg, result) ==
    LET pieces == InputPieces(input) IN
    /\ n \in 0 .. Len(input)
    /\ cursor = At(pieces, n)
    /\ msg = After(Fields, Template(Fields), pieces, n)
    /\ \A i \in 1 .. n : Readable(Fields, pieces[i])
    /\ result \in {"reading", "done", "throw"}
    /\ result = "done" => n = Len(input)
    /\ result = "throw" => n < Len(input) /\ ~Readable(Fields, pieces[n + 1])

(* The inductive invariant *)
IInv == IsInput(parts) /\ Reading(parts, read, at, message, outcome)

(* The parts so far, as the specification names them. *)
LEMMA FirstPartsAre ==
    ASSUME NEW n \in 0 .. Len(parts), IsInput(parts)
    PROVE  /\ FirstParts(n) = First(InputPieces(parts), n)
           /\ \A i \in 1 .. Len(parts) : Part(i) = InputPieces(parts)[i]
           /\ Bytes = Contents(InputPieces(parts))
<1>1. Len(parts) \in Nat
    BY PiecesAre
<1>2. \A i \in 1 .. Len(parts) : Part(i) = InputPieces(parts)[i]
    BY DEF Part, InputPieces
<1>3. FirstParts(n) = First(InputPieces(parts), n)
    BY <1>1, <1>2 DEF FirstParts, First
<1>4. FirstParts(Len(parts)) = InputPieces(parts)
    BY DEF FirstParts, Part, InputPieces
<1> QED  BY <1>2, <1>3, <1>4 DEF Bytes

LEMMA Starts ==
    ASSUME Init
    PROVE  IInv
<1>1. IsInput(parts) /\ Len(parts) \in Nat
    BY InputIs, PiecesAre DEF Init
<1>2. PICK pieces : pieces = InputPieces(parts) /\ DOMAIN pieces = 1 .. Len(parts)
    BY <1>1, PiecesAre
<1>3. After(Fields, Template(Fields), pieces, 0) = Template(Fields)
    BY <1>1, <1>2, AfterStart
<1>4. At(pieces, 0) = 0
  <2>1. First(pieces, 0) = << >>
      BY DEF First
  <2>2. Contents(<< >>) = << >>
    <3>1. [i \in DOMAIN << >> |-> Write(<< >>[i].type, << >>[i].number, << >>[i].value)] = << >>
        OBVIOUS
    <3>2. FlattenSeq(<< >>) = << >>
        BY DEF FlattenSeq
    <3> QED  BY <3>1, <3>2 DEF Contents
  <2> QED  BY <2>1, <2>2 DEF At
<1>5. at = 0 /\ message = Template(Fields) /\ read = 0 /\ outcome = "reading"
    BY DEF Init
<1>6. Reading(parts, read, at, message, outcome)
    BY <1>1, <1>2, <1>3, <1>4, <1>5 DEF Reading
<1> QED  BY <1>1, <1>6 DEF IInv

(* At the end of the bytes all parts are read, and before it there is one  *)
(* to read.                                                                *)
LEMMA EndIs ==
    ASSUME InputsFit, NEW input, IsInput(input), NEW n \in 0 .. Len(input),
           \A i \in 1 .. n : Readable(Fields, InputPieces(input)[i])
    PROVE  At(InputPieces(input), n) < Len(Contents(InputPieces(input))) <=> n < Len(input)
<1>1. PICK pieces, m : /\ pieces = InputPieces(input) /\ m = Len(input) /\ m \in Nat
                        /\ DOMAIN pieces = 1 .. m
  <2>1. Len(input) \in Nat /\ DOMAIN InputPieces(input) = 1 .. Len(input)
      BY PiecesAre
  <2> QED  BY <2>1
<1>2. CASE n < m
  <2>1. n \in 0 .. m - 1 /\ n + 1 \in 1 .. m
      BY <1>1, <1>2
  <2>2. WrittenOf(pieces[n + 1]) # << >>
      BY <1>1, <2>1, PiecesAre
  <2>3. Decodable(Fields, Template(Fields), pieces, m)
      BY <1>1, InputDecodable
  <2>4. \A i \in 1 .. n : Readable(Fields, pieces[i])
      BY <1>1
  <2>5. At(pieces, n) < Len(Contents(pieces))
      BY <1>1, <2>1, <2>2, <2>3, <2>4, PieceReads
  <2> QED  BY <1>1, <1>2, <2>5
<1>3. CASE n = m
  <2>1. First(pieces, m) = pieces
      BY <1>1 DEF First, InputPieces
  <2>2. At(pieces, n) = Len(Contents(pieces))
      BY <1>3, <2>1 DEF At
  <2>3. Contents(pieces) \in Seq(Nat)
    <3>1. \A i \in 1 .. m : WrittenOf(pieces[i]) \in Seq(Nat)
        BY <1>1, PiecesAre, PieceWritten
    <3> QED  BY <1>1, <3>1, ContentsTyped
  <2> QED  BY <1>1, <1>3, <2>2, <2>3
<1> QED  BY <1>1, <1>2, <1>3

LEMMA TakeFieldKeeps ==
    ASSUME InputsFit, IInv, TakeField
    PROVE  IInv'
<1>1. PICK pieces, m : /\ pieces = InputPieces(parts) /\ m = Len(parts) /\ m \in Nat
                        /\ DOMAIN pieces = 1 .. m /\ IsInput(parts)
  <2>1. IsInput(parts)
      BY DEF IInv
  <2>2. Len(parts) \in Nat /\ DOMAIN InputPieces(parts) = 1 .. Len(parts)
      BY <2>1, PiecesAre
  <2> QED  BY <2>1, <2>2
<1>2. /\ read \in 0 .. m /\ at = At(pieces, read)
      /\ message = After(Fields, Template(Fields), pieces, read)
      /\ \A i \in 1 .. read : Readable(Fields, pieces[i])
    BY <1>1 DEF IInv, Reading
<1>3. Bytes = Contents(pieces)
    BY <1>1, <1>2, FirstPartsAre
<1>4. outcome = "reading" /\ at < Len(Bytes) /\ parts' = parts
    BY DEF TakeField
<1>5. read < m
    BY <1>1, <1>2, <1>3, <1>4, EndIs
<1>6. PICK n \in 0 .. m - 1 : n = read /\ n + 1 \in 1 .. m /\ n + 1 \in 0 .. m
    BY <1>1, <1>2, <1>5
<1>7. Decodable(Fields, Template(Fields), pieces, m)
    BY <1>1, InputDecodable
<1>8. WrittenOf(pieces[n + 1]) # << >>
    BY <1>1, <1>6, PiecesAre
<1>9. PICK result : result = ReadField(Fields, Bytes, at, message)
    OBVIOUS
<1>10. /\ Readable(Fields, pieces[n + 1]) =>
             result = Value(After(Fields, Template(Fields), pieces, n + 1), At(pieces, n + 1))
       /\ ~Readable(Fields, pieces[n + 1]) => result = Thrown
  <2>1. \A i \in 1 .. n : Readable(Fields, pieces[i])
      BY <1>2, <1>6
  <2>2. result = ReadField(Fields, Contents(pieces), At(pieces, n),
                           After(Fields, Template(Fields), pieces, n))
      BY <1>2, <1>3, <1>6, <1>9
  <2> QED  BY <1>1, <1>6, <1>7, <1>8, <2>1, <2>2, PieceReads
<1>11. CASE Readable(Fields, pieces[n + 1])
  <2>1. result.is = "value" /\ result.at = At(pieces, n + 1)
        /\ result.value = After(Fields, Template(Fields), pieces, n + 1)
      BY <1>10, <1>11, ValueIs
  <2>2. /\ message' = After(Fields, Template(Fields), pieces, n + 1)
        /\ at' = At(pieces, n + 1) /\ read' = n + 1 /\ outcome' = "reading"
      BY <1>4, <1>6, <1>9, <2>1 DEF TakeField
  <2>3. \A i \in 1 .. n + 1 : Readable(Fields, pieces[i])
    <3>1. \A i \in 1 .. n + 1 : i \in 1 .. n \/ i = n + 1
        OBVIOUS
    <3> QED  BY <1>2, <1>6, <1>11, <3>1
  <2>4. Reading(parts, n + 1, At(pieces, n + 1),
                After(Fields, Template(Fields), pieces, n + 1), "reading")
      BY <1>1, <1>6, <2>3 DEF Reading
  <2> QED  BY <1>1, <1>4, <2>2, <2>4 DEF IInv
<1>12. CASE ~Readable(Fields, pieces[n + 1])
  <2>1. result.is = "throw"
      BY <1>10, <1>12, ThrownIs
  <2>2. message' = message /\ at' = at /\ read' = read /\ outcome' = "throw"
      BY <1>9, <2>1 DEF TakeField
  <2>3. Reading(parts, read, at, message, "throw")
      BY <1>1, <1>2, <1>5, <1>6, <1>12 DEF Reading
  <2> QED  BY <1>1, <1>4, <2>2, <2>3 DEF IInv
<1> QED  BY <1>11, <1>12

LEMMA FinishKeeps ==
    ASSUME InputsFit, IInv, Finish
    PROVE  IInv'
<1>1. PICK pieces, m : /\ pieces = InputPieces(parts) /\ m = Len(parts) /\ m \in Nat
                        /\ DOMAIN pieces = 1 .. m /\ IsInput(parts)
  <2>1. IsInput(parts)
      BY DEF IInv
  <2>2. Len(parts) \in Nat /\ DOMAIN InputPieces(parts) = 1 .. Len(parts)
      BY <2>1, PiecesAre
  <2> QED  BY <2>1, <2>2
<1>2. /\ read \in 0 .. m /\ at = At(pieces, read)
      /\ message = After(Fields, Template(Fields), pieces, read)
      /\ \A i \in 1 .. read : Readable(Fields, pieces[i])
    BY <1>1 DEF IInv, Reading
<1>3. Bytes = Contents(pieces)
    BY <1>1, <1>2, FirstPartsAre
<1>4. ~(at < Len(Bytes))
  <2>1. at \in Nat /\ Len(Bytes) \in Nat
    <3>1. \A i \in 1 .. m : WrittenOf(pieces[i]) \in Seq(Nat)
        BY <1>1, PiecesAre, PieceWritten
    <3>2. Contents(First(pieces, read)) \in Seq(Nat) /\ Contents(pieces) \in Seq(Nat)
        BY <1>1, <1>2, <3>1, ContentsTyped
    <3> QED  BY <1>2, <1>3, <3>2 DEF At
  <2> QED  BY <2>1 DEF Finish
<1>5. read = m
    BY <1>1, <1>2, <1>3, <1>4, EndIs
<1>6. parts' = parts /\ message' = message /\ at' = at /\ read' = read /\ outcome' = "done"
    BY DEF Finish
<1>7. Reading(parts, read, at, message, "done")
    BY <1>1, <1>2, <1>5 DEF Reading
<1> QED  BY <1>1, <1>6, <1>7 DEF IInv

LEMMA IInvHolds ==
    ASSUME InputsFit
    PROVE  Spec => []IInv
<1>1. Init => IInv
    BY Starts
<1>2. IInv /\ [Next]_vars => IInv'
  <2> SUFFICES ASSUME IInv, [Next]_vars PROVE IInv'
      OBVIOUS
  <2>1. CASE TakeField
      BY <2>1, TakeFieldKeeps
  <2>2. CASE Finish
      BY <2>2, FinishKeeps
  <2>3. CASE UNCHANGED vars
      BY <2>3 DEF IInv, vars
  <2> QED  BY <2>1, <2>2, <2>3 DEF Next
<1> QED  BY <1>1, <1>2, PTL DEF Spec

(* What the invariant says in the words of the specification. *)
LEMMA IInvMeans ==
    ASSUME IInv
    PROVE  InStep /\ DecodesParts /\ ThrowsOnMismatch
<1>1. PICK pieces, m : /\ pieces = InputPieces(parts) /\ m = Len(parts) /\ m \in Nat
                        /\ DOMAIN pieces = 1 .. m /\ IsInput(parts)
  <2>1. IsInput(parts)
      BY DEF IInv
  <2>2. Len(parts) \in Nat /\ DOMAIN InputPieces(parts) = 1 .. Len(parts)
      BY <2>1, PiecesAre
  <2> QED  BY <2>1, <2>2
<1>2. /\ read \in 0 .. m /\ at = At(pieces, read)
      /\ message = After(Fields, Template(Fields), pieces, read)
      /\ \A i \in 1 .. read : Readable(Fields, pieces[i])
      /\ outcome \in {"reading", "done", "throw"}
      /\ outcome = "throw" => read < m /\ ~Readable(Fields, pieces[read + 1])
    BY <1>1 DEF IInv, Reading
<1>3. FirstParts(read) = First(pieces, read)
      /\ \A i \in 1 .. m : Part(i) = pieces[i]
    BY <1>1, <1>2, FirstPartsAre
<1>4. InStep
    BY <1>2, <1>3 DEF InStep, At
<1>5. DecodesParts
    BY <1>2, <1>3 DEF DecodesParts, After
<1>6. ThrowsOnMismatch
  <2>1. \A i \in 1 .. read : i \in 1 .. m
      BY <1>1, <1>2
  <2>2. \A i \in 1 .. read : Readable(Fields, Part(i))
      BY <1>2, <1>3, <2>1
  <2>3. ASSUME outcome = "throw" PROVE read < m /\ ~Readable(Fields, Part(read + 1))
    <3>1. read < m /\ ~Readable(Fields, pieces[read + 1])
        BY <1>2, <2>3
    <3>2. read + 1 \in 1 .. m
        BY <1>1, <1>2, <3>1
    <3> QED  BY <1>3, <3>1, <3>2
  <2> QED  BY <1>1, <1>2, <2>2, <2>3 DEF ThrowsOnMismatch
<1> QED  BY <1>4, <1>5, <1>6

(* Before each turn of its loop the reader of a message is at the start of *)
(* a field: whatever it skipped, or did not know, it passed over as a      *)
(* whole.                                                                  *)
THEOREM StaysInStep ==
    ASSUME InputsFit
    PROVE  Spec => []InStep
<1>1. Spec => []IInv
    BY IInvHolds
<1>2. IInv => InStep
    BY IInvMeans
<1> QED  BY <1>1, <1>2, PTL

(* The message so far is what the parts so far make by the rules of the    *)
(* protobuf encoding.                                                      *)
THEOREM DecodesWhatWasWritten ==
    ASSUME InputsFit
    PROVE  Spec => []DecodesParts
<1>1. Spec => []IInv
    BY IInvHolds
<1>2. IInv => DecodesParts
    BY IInvMeans
<1> QED  BY <1>1, <1>2, PTL

(* Decoding throws on the first field whose wire type does not fit, and on *)
(* nothing else.                                                           *)
THEOREM ThrowsOnlyOnMismatch ==
    ASSUME InputsFit
    PROVE  Spec => []ThrowsOnMismatch
<1>1. Spec => []IInv
    BY IInvHolds
<1>2. IInv => ThrowsOnMismatch
    BY IInvMeans
<1> QED  BY <1>1, <1>2, PTL

(* When decoding is done, every part of the input is in the message.       *)
THEOREM DoneIsAll ==
    ASSUME InputsFit
    PROVE  Spec => [](outcome = "done" => message = MergeAll(Fields, Template(Fields),
                                                             FirstParts(Len(parts))))
<1>1. Spec => []IInv
    BY IInvHolds
<1>2. IInv => (outcome = "done" => message = MergeAll(Fields, Template(Fields),
                                                      FirstParts(Len(parts))))
  <2> SUFFICES ASSUME IInv, outcome = "done"
               PROVE  message = MergeAll(Fields, Template(Fields), FirstParts(Len(parts)))
      OBVIOUS
  <2>1. read = Len(parts)
      BY DEF IInv, Reading
  <2>2. message = MergeAll(Fields, Template(Fields), FirstParts(read))
      BY IInvMeans DEF DecodesParts
  <2> QED  BY <2>1, <2>2
<1> QED  BY <1>1, <1>2, PTL

-----------------------------------------------------------------------------
(* The message inside a field                                              *)

FieldsNext(fields, bytes, before) ==
    IF before.at < Len(bytes) /\ before.is = "value"
    THEN ReadField(fields, bytes, before.at, before.value)
    ELSE before

FieldsAfter(fields, bytes, msg, n, f) ==
    f = [k \in 0 .. n |-> IF k = 0 THEN Value(msg, 0) ELSE FieldsNext(fields, bytes, f[k - 1])]

LEMMA ReadFieldsIs ==
    ASSUME NEW fields, NEW bytes, NEW msg
    PROVE  ReadFields(fields, bytes, msg)
           = (CHOOSE f : FieldsAfter(fields, bytes, msg, Len(bytes), f))[Len(bytes)]
    BY DEF ReadFields, Loop, Then, FieldsAfter, FieldsNext

LEMMA FieldsAfterIs ==
    ASSUME NEW fields, NEW bytes, NEW msg, NEW n \in Nat, NEW f,
           FieldsAfter(fields, bytes, msg, n, f), NEW k \in 0 .. n
    PROVE  f[k] = IF k = 0 THEN Value(msg, 0) ELSE FieldsNext(fields, bytes, f[k - 1])
<1> DEFINE h == [i \in 0 .. n |-> IF i = 0 THEN Value(msg, 0)
                                  ELSE FieldsNext(fields, bytes, f[i - 1])]
<1>1. f = h
    BY DEF FieldsAfter
<1>2. h[k] = IF k = 0 THEN Value(msg, 0) ELSE FieldsNext(fields, bytes, f[k - 1])
    OBVIOUS
<1> HIDE DEF h
<1> QED  BY <1>1, <1>2

LEMMA FieldsStart ==
    ASSUME NEW fields, NEW bytes, NEW msg, NEW n \in Nat, NEW f,
           FieldsAfter(fields, bytes, msg, n, f)
    PROVE  f[0] = Value(msg, 0)
<1> DEFINE h == [i \in 0 .. n |-> IF i = 0 THEN Value(msg, 0)
                                  ELSE FieldsNext(fields, bytes, f[i - 1])]
<1>1. f = h
    BY DEF FieldsAfter
<1>2. h[0] = Value(msg, 0)
    OBVIOUS
<1> HIDE DEF h
<1> QED  BY <1>1, <1>2

LEMMA FieldsStep ==
    ASSUME NEW fields, NEW bytes, NEW msg, NEW n \in Nat, NEW f,
           FieldsAfter(fields, bytes, msg, n, f), NEW k \in 1 .. n
    PROVE  f[k] = FieldsNext(fields, bytes, f[k - 1])
<1>1. k \in 0 .. n /\ k # 0
    OBVIOUS
<1> QED  BY <1>1, FieldsAfterIs

LEMMA FieldsExists ==
    ASSUME NEW fields, NEW bytes, NEW msg, NEW m \in Nat
    PROVE  \E f : FieldsAfter(fields, bytes, msg, m, f)
<1> DEFINE S == {n \in Nat : \E f : FieldsAfter(fields, bytes, msg, n, f)}
<1>1. 0 \in S
  <2> DEFINE f == [k \in 0 .. 0 |-> Value(msg, 0)]
  <2>1. f = [k \in 0 .. 0 |-> IF k = 0 THEN Value(msg, 0) ELSE FieldsNext(fields, bytes, f[k - 1])]
      OBVIOUS
  <2>2. FieldsAfter(fields, bytes, msg, 0, f)
      BY <2>1 DEF FieldsAfter
  <2> QED  BY <2>2
<1>2. ASSUME NEW n \in S PROVE n + 1 \in S
  <2>0. n \in Nat
      OBVIOUS
  <2>1. PICK f : FieldsAfter(fields, bytes, msg, n, f)
      OBVIOUS
  <2>2. PICK last : last = FieldsNext(fields, bytes, f[n])
      OBVIOUS
  <2> DEFINE h == [k \in 0 .. n + 1 |-> IF k = n + 1 THEN last ELSE f[k]]
  <2>3. ASSUME NEW k \in 0 .. n + 1
        PROVE  h[k] = IF k = 0 THEN Value(msg, 0) ELSE FieldsNext(fields, bytes, h[k - 1])
    <3>1. CASE k = n + 1
      <4>1. h[k] = last /\ h[k - 1] = f[n] /\ k # 0
          BY <3>1
      <4> HIDE DEF h
      <4> QED  BY <2>2, <3>1, <4>1
    <3>2. CASE k = 0
      <4>1. h[k] = f[0]
          BY <3>2
      <4>2. f[0] = Value(msg, 0)
          BY <2>0, <2>1, FieldsStart
      <4> HIDE DEF h
      <4> QED  BY <3>2, <4>1, <4>2
    <3>3. CASE k \in 1 .. n
      <4>1. h[k] = f[k] /\ h[k - 1] = f[k - 1] /\ k # 0
          BY <3>3
      <4>2. f[k] = FieldsNext(fields, bytes, f[k - 1])
          BY <2>0, <2>1, <3>3, FieldsStep
      <4> HIDE DEF h
      <4> QED  BY <4>1, <4>2
    <3> QED  BY <3>1, <3>2, <3>3
  <2>4. DOMAIN h = 0 .. n + 1 /\ h = [k \in 0 .. n + 1 |-> h[k]]
      OBVIOUS
  <2> HIDE DEF h
  <2>5. h = [k \in 0 .. n + 1 |-> IF k = 0 THEN Value(msg, 0)
                                  ELSE FieldsNext(fields, bytes, h[k - 1])]
      BY <2>3, <2>4
  <2>6. FieldsAfter(fields, bytes, msg, n + 1, h)
      BY <2>5 DEF FieldsAfter
  <2> QED  BY <2>6
<1> HIDE DEF S
<1>3. m \in S
    BY <1>1, <1>2, Induction DEF S
<1> QED  BY <1>3 DEF S

(* The loop reads all the pieces of a message: each that writes something  *)
(* takes a turn.                                                           *)
LEMMA ContentsRead ==
    ASSUME NEW fields, NEW msg, NEW pieces, NEW m \in Nat,
           Decodable(fields, msg, pieces, m),
           \A i \in 1 .. m : Readable(fields, pieces[i])
    PROVE  ReadFields(fields, Contents(pieces), msg)
           = Value(MergeAll(fields, msg, pieces), Len(Contents(pieces)))
<1>1. DOMAIN pieces = 1 .. m /\ pieces = First(pieces, m)
    BY DEF Decodable, First
<1>2. \A i \in 1 .. m : WrittenOf(pieces[i]) \in Seq(Nat)
    BY PieceWritten DEF Decodable
<1>3. PICK bytes, size : bytes = Contents(pieces) /\ bytes \in Seq(Nat)
                         /\ size = Len(bytes) /\ size \in Nat
  <2>1. 0 \in 0 .. m
      OBVIOUS
  <2>2. Contents(pieces) \in Seq(Nat)
      BY <1>1, <1>2, <2>1, ContentsTyped
  <2> QED  BY <2>2
<1>4. PICK f : f = CHOOSE after : FieldsAfter(fields, bytes, msg, size, after)
    OBVIOUS
<1>5. FieldsAfter(fields, bytes, msg, size, f)
    BY <1>3, <1>4, FieldsExists
<1>6. ReadFields(fields, Contents(pieces), msg) = f[size]
    BY <1>3, <1>4, ReadFieldsIs
<1> DEFINE Came(n) == \E k \in 0 .. At(pieces, n) :
                        f[k] = Value(After(fields, msg, pieces, n), At(pieces, n))
           S == {n \in Nat : n <= m => At(pieces, n) \in 0 .. size /\ Came(n)}
<1> HIDE DEF Came
<1>7. 0 \in S
  <2>1. At(pieces, 0) = 0
    <3>1. PICK g \in [0 .. m -> Seq(Nat)] :
              /\ g[0] = << >> /\ g[m] = Contents(pieces)
              /\ \A n \in 0 .. m : Contents(First(pieces, n)) = g[n]
        BY <1>1, <1>2, ContentsOfFirst
    <3>2. Contents(First(pieces, 0)) = << >>
        BY <3>1
    <3> QED  BY <3>2 DEF At
  <2>2. f[0] = Value(After(fields, msg, pieces, 0), 0)
    <3>1. f[0] = Value(msg, 0)
        BY <1>3, <1>5, FieldsStart
    <3> QED  BY <1>1, <3>1, AfterStart
  <2>3. 0 \in 0 .. 0
      OBVIOUS
  <2> QED  BY <1>3, <2>1, <2>2, <2>3 DEF Came
<1>8. ASSUME NEW n \in S PROVE n + 1 \in S
  <2>0. n \in Nat
      OBVIOUS
  <2>1. SUFFICES ASSUME n + 1 <= m PROVE At(pieces, n + 1) \in 0 .. size /\ Came(n + 1)
      BY <2>0
  <2>2. n \in 0 .. m - 1 /\ n + 1 \in 1 .. m
      BY <2>0, <2>1
  <2>3. At(pieces, n) \in 0 .. size /\ Came(n)
      BY <2>2
  <2> HIDE DEF S
  <2>4. PICK k \in 0 .. At(pieces, n) :
            f[k] = Value(After(fields, msg, pieces, n), At(pieces, n))
      BY <2>3 DEF Came
  <2>5. PICK part : part = pieces[n + 1] /\ WrittenOf(part) \in Seq(Nat)
                    /\ Readable(fields, part)
      BY <1>2, <2>2
  <2>6. After(fields, msg, pieces, n + 1) = Merge(fields, After(fields, msg, pieces, n), part)
      BY <1>1, <2>2, <2>5, AfterStep
  <2>7. /\ At(pieces, n + 1) = At(pieces, n) + Len(WrittenOf(part))
        /\ At(pieces, n + 1) <= size
    <3>1. PICK g \in [0 .. m -> Seq(Nat)] :
              /\ g[0] = << >> /\ g[m] = Contents(pieces)
              /\ \A i \in 0 .. m : Contents(First(pieces, i)) = g[i]
              /\ \A i \in 0 .. m - 1 :
                    /\ Placed(g[m], Len(g[i]), WrittenOf(pieces[i + 1]))
                    /\ Len(g[i + 1]) = Len(g[i]) + Len(WrittenOf(pieces[i + 1]))
        BY <1>1, <1>2, ContentsOfFirst
    <3>2. At(pieces, n) = Len(g[n]) /\ At(pieces, n + 1) = Len(g[n + 1])
      <4>1. n \in 0 .. m /\ n + 1 \in 0 .. m
          BY <2>2
      <4> QED  BY <3>1, <4>1 DEF At
    <3>3. Placed(bytes, Len(g[n]), WrittenOf(part))
          /\ Len(g[n + 1]) = Len(g[n]) + Len(WrittenOf(part))
        BY <1>3, <2>2, <2>5, <3>1
    <3>4. Len(g[n]) + Len(WrittenOf(part)) <= Len(bytes)
        BY <3>3 DEF Placed
    <3> QED  BY <1>3, <3>2, <3>3, <3>4
  <2>8. Len(WrittenOf(part)) \in Nat
      BY <2>5
  <2>9. At(pieces, n + 1) \in 0 .. size
      BY <1>3, <2>3, <2>7, <2>8
  <2>10. CASE WrittenOf(part) = << >>
    <3>1. Len(WrittenOf(part)) = 0
        BY <2>10
    <3>2. At(pieces, n + 1) = At(pieces, n)
        BY <1>3, <2>3, <2>7, <3>1
    <3>3. After(fields, msg, pieces, n + 1) = After(fields, msg, pieces, n)
        BY <2>6, <2>10, MergeNothing
    <3> QED  BY <2>4, <2>9, <3>2, <3>3 DEF Came
  <2>11. CASE WrittenOf(part) # << >>
    <3>1. /\ At(pieces, n) < Len(bytes)
          /\ ReadField(fields, bytes, At(pieces, n), After(fields, msg, pieces, n))
                = Value(After(fields, msg, pieces, n + 1), At(pieces, n + 1))
      <4>1. \A i \in 1 .. n : Readable(fields, pieces[i])
          BY <2>2
      <4>2. WrittenOf(pieces[n + 1]) # << >> /\ Readable(fields, pieces[n + 1])
          BY <2>5, <2>11
      <4> QED  BY <1>3, <2>2, <4>1, <4>2, PieceReads
    <3>2. Len(WrittenOf(part)) # 0
        BY <2>5, <2>11, EmptySeq
    <3>3. PICK j \in 1 .. size : j = k + 1 /\ j - 1 = k /\ j \in 0 .. At(pieces, n + 1)
      <4>1. k + 1 \in 1 .. size /\ (k + 1) - 1 = k /\ k + 1 \in 0 .. At(pieces, n + 1)
          BY <1>3, <2>3, <2>4, <2>7, <2>8, <3>1, <3>2
      <4> QED  BY <4>1
    <3>4. f[j] = FieldsNext(fields, bytes, f[k])
      <4>1. f[j] = FieldsNext(fields, bytes, f[j - 1])
          BY <1>3, <1>5, FieldsStep
      <4> QED  BY <3>3, <4>1
    <3>5. FieldsNext(fields, bytes, f[k])
            = Value(After(fields, msg, pieces, n + 1), At(pieces, n + 1))
        BY <2>4, <3>1, ValueIs DEF FieldsNext
    <3> QED  BY <2>9, <3>3, <3>4, <3>5 DEF Came
  <2> QED  BY <2>10, <2>11
<1> HIDE DEF S
<1>9. S = Nat
    BY <1>7, <1>8, Induction DEF S
<1>10. m \in S /\ m <= m
    BY <1>9
<1>11. Came(m)
    BY <1>10 DEF S
<1>12. At(pieces, m) = size /\ After(fields, msg, pieces, m) = MergeAll(fields, msg, pieces)
    BY <1>1, <1>3 DEF At, After
<1>13. PICK last : last = Value(MergeAll(fields, msg, pieces), size) /\ ~(last.at < size)
  <2>1. Value(MergeAll(fields, msg, pieces), size).at = size
      BY ValueIs
  <2>2. ~(Value(MergeAll(fields, msg, pieces), size).at < size)
      BY <1>3, <2>1
  <2> QED  BY <2>2
<1>14. PICK k \in 0 .. size : f[k] = last
    BY <1>11, <1>12, <1>13 DEF Came
<1>15. ASSUME NEW n \in 1 .. size, f[n - 1] = last PROVE f[n] = last
  <2>1. f[n] = FieldsNext(fields, bytes, f[n - 1])
      BY <1>3, <1>5, FieldsStep
  <2>2. FieldsNext(fields, bytes, last) = last
      BY <1>3, <1>13 DEF FieldsNext
  <2> QED  BY <1>15, <2>1, <2>2
<1>16. \A n \in 1 .. size : f[n - 1] = last => f[n] = last
    BY <1>15
<1>17. f[size] = last
  <2>1. size \in Nat /\ k \in 0 .. size /\ f[k] = last
      BY <1>3, <1>14
  <2> QED  BY <1>16, <2>1, Settled
<1> QED  BY <1>3, <1>6, <1>13, <1>17

-----------------------------------------------------------------------------
(* The values of a message are of the types of its fields                  *)

LEMMA DefaultTyped ==
    ASSUME NEW fields, NEW type, IsFieldType(type)
    PROVE  IsOf(fields, type, DefVal(type))
<1>1. ASSUME NEW wt \in WireTypes PROVE IsPrimitive(wt, Zero(wt))
    BY <1>1, WireTypesDiffer DEF WireTypes, IsPrimitive, Zero
<1>2. CASE type.kind = "primitive"
  <2>1. type.wt \in WireTypes
      BY <1>2 DEF IsFieldType, IsItemType
  <2>2. IsPrimitive(type.wt, DefVal(type))
      BY <1>1, <1>2, <2>1 DEF DefVal
  <2> QED  BY <1>2, <2>2 DEF IsOf, IsItem
<1>3. CASE type.kind = "repeated"
  <2>1. << >> \in Seq(Range(<< >>)) /\ DOMAIN << >> = {}
      OBVIOUS
  <2>2. DefVal(type) = << >>
      BY <1>3 DEF DefVal
  <2> QED  BY <1>3, <2>1, <2>2 DEF IsOf
<1>4. CASE type.kind = "map"
  <2>1. DefVal(type) = << >> /\ DOMAIN << >> = {}
      BY <1>4 DEF DefVal
  <2> QED  BY <1>4, <2>1 DEF IsOf
<1>5. CASE type.kind \in {"optional", "oneof", "maybe", "message"}
    BY <1>5 DEF DefVal, IsOf, IsItem, Undefined
<1> QED  BY <1>2, <1>3, <1>4, <1>5 DEF IsFieldType, IsItemType

LEMMA TemplateTyped ==
    ASSUME NEW fields, AreFields(fields)
    PROVE  IsMessage(fields, Template(fields))
<1>1. PICK table : /\ table = [slot \in Slots(fields) |-> DefVal(fields[slot])]
                   /\ Template(fields).vtable = table
    BY DEF Template
<1>2. ASSUME NEW slot \in Slots(fields) PROVE IsOf(fields, fields[slot], table[slot])
  <2>1. slot \in DOMAIN fields
      BY SlotIs DEF Slots
  <2>2. IsFieldType(fields[slot])
      BY <2>1 DEF AreFields
  <2>3. table[slot] = DefVal(fields[slot])
      BY <1>1
  <2> QED  BY <2>2, <2>3, DefaultTyped
<1> QED  BY <1>1, <1>2 DEF IsMessage

(* An item, or the default in its place, combined with what is read.       *)
LEMMA ItemCombined ==
    ASSUME NEW type, NEW value, IsItemValue(type, value), NEW old, IsItem(type, old),
           InnerReads(type, old, value)
    PROVE  IsItem(type, CombineItem(type, old, value))
<1>1. CASE type.kind = "primitive"
  <2>1. IsPrimitive(type.wt, value)
      BY <1>1 DEF IsItemValue, IsData
  <2> QED  BY <1>1, <2>1 DEF IsItem, CombineItem
<1>2. CASE type.kind = "maybe"
  <2>1. IsPrimitive(type.of.wt, value)
      BY <1>2 DEF IsItemValue, IsData
  <2> QED  BY <1>2, <2>1 DEF IsItem, CombineItem
<1>3. CASE type.kind = "message"
  <2>1. PICK into : into = IF old = Undefined THEN Template(type.fields) ELSE old[1]
      OBVIOUS
  <2>2. PICK new : new = MergeContents(type.fields, into, value)
                   /\ IsContents(type.fields, new)
      BY <1>3, <2>1 DEF InnerReads
  <2>3. CombineItem(type, old, value) = <<new>>
      BY <1>3, <2>1, <2>2 DEF CombineItem
  <2>4. <<new>>[1] = new
      OBVIOUS
  <2> QED  BY <1>3, <2>2, <2>3, <2>4 DEF IsItem
<1> QED  BY <1>1, <1>2, <1>3 DEF IsItemValue, IsItemType

LEMMA ItemDefault ==
    ASSUME NEW type, IsItemType(type)
    PROVE  IsItem(type, DefVal(type))
<1>1. IsOf(type, type, DefVal(type))
    BY DefaultTyped DEF IsFieldType
<1>2. type.kind \in {"primitive", "maybe", "message"}
    BY ItemWireType
<1> QED  BY <1>1, <1>2 DEF IsOf

LEMMA SequenceOf ==
    ASSUME NEW S, NEW s \in Seq(S)
    PROVE  s \in Seq(Range(s)) /\ \A i \in DOMAIN s : s[i] \in S
<1>1. DOMAIN s = 1 .. Len(s) /\ Len(s) \in Nat /\ s = [i \in 1 .. Len(s) |-> s[i]]
    OBVIOUS
<1>2. \A i \in 1 .. Len(s) : s[i] \in Range(s)
    BY <1>1 DEF Range
<1> QED  BY <1>1, <1>2

(* The items of a repeated field, and some more.                           *)
LEMMA ItemsJoined ==
    ASSUME NEW type, NEW old, old \in Seq(Range(old)),
           \A i \in DOMAIN old : IsItem(type, old[i]),
           NEW more, more \in Seq(Range(more)),
           \A i \in DOMAIN more : IsItem(type, more[i])
    PROVE  /\ old \o more \in Seq(Range(old \o more))
           /\ \A i \in DOMAIN (old \o more) : IsItem(type, (old \o more)[i])
<1>1. PICK S : S = Range(old) \cup Range(more)
    OBVIOUS
<1>2. \A x \in S : IsItem(type, x)
    BY <1>1 DEF Range
<1>3. old \in Seq(S) /\ more \in Seq(S)
    BY <1>1
<1>4. old \o more \in Seq(S)
    BY <1>3
<1> QED  BY <1>2, <1>4, SequenceOf

LEMMA ItemAppended ==
    ASSUME NEW type, NEW old, old \in Seq(Range(old)),
           \A i \in DOMAIN old : IsItem(type, old[i]), NEW new, IsItem(type, new)
    PROVE  /\ Append(old, new) \in Seq(Range(Append(old, new)))
           /\ \A i \in DOMAIN Append(old, new) : IsItem(type, Append(old, new)[i])
<1>1. PICK S : S = Range(old) \cup {new}
    OBVIOUS
<1>2. \A x \in S : IsItem(type, x)
    BY <1>1 DEF Range
<1>3. old \in Seq(S) /\ new \in S
    BY <1>1
<1>4. Append(old, new) \in Seq(S)
    BY <1>3
<1> QED  BY <1>2, <1>4, SequenceOf

(* A part of the type the reader knows.                                    *)
LEMMA FieldCombined ==
    ASSUME NEW fields, NEW number \in DOMAIN fields, NEW type, type = fields[number],
           IsFieldType(type), NEW place, IsFieldType(place),
           type.kind # "oneof" => place = type,
           type.kind = "oneof" => place.kind = "oneof",
           NEW old, IsOf(fields, place, old),
           NEW value, IsFieldValue(type, value), FieldReads(type, number, old, value)
    PROVE  IsOf(fields, place, Combine(type, number, old, value, type))
<1>1. PICK new : new = Combine(type, number, old, value, type)
    OBVIOUS
<1>2. CASE type.kind = "optional"
  <2>1. IsItemValue(type.of, value) /\ type.of.kind = "primitive"
      BY <1>2 DEF IsFieldValue, IsFieldType, IsItemType
  <2>2. IsPrimitive(type.of.wt, value)
      BY <2>1 DEF IsItemValue, IsData
  <2>3. new = value
      BY <1>1, <1>2 DEF Combine
  <2> QED  BY <1>1, <1>2, <2>1, <2>2, <2>3 DEF IsOf, IsItem
<1>3. CASE type.kind = "repeated"
  <2>1. PICK item : item = CombineItem(type.of, DefVal(type.of), value)
      OBVIOUS
  <2>2. IsItemValue(type.of, value) /\ IsItemType(type.of)
      BY <1>3 DEF IsFieldValue, IsItemValue
  <2>3. IsItem(type.of, item)
    <3>1. IsItem(type.of, DefVal(type.of))
        BY <2>2, ItemDefault
    <3>2. InnerReads(type.of, DefVal(type.of), value)
        BY <1>3 DEF FieldReads
    <3> QED  BY <2>1, <2>2, <3>1, <3>2, ItemCombined
  <2>4. new = Append(old, item)
      BY <1>1, <1>3, <2>1 DEF Combine
  <2>5. old \in Seq(Range(old)) /\ \A i \in DOMAIN old : IsItem(type.of, old[i])
      BY <1>3 DEF IsOf
  <2>6. new \in Seq(Range(new)) /\ \A i \in DOMAIN new : IsItem(type.of, new[i])
      BY <2>3, <2>4, <2>5, ItemAppended
  <2> QED  BY <1>1, <1>3, <2>6 DEF IsOf
<1>4. CASE type.kind = "oneof"
  <2>1. PICK prev : prev = IF old # Undefined /\ old[1] = number
                           THEN old[2] ELSE DefVal(type.of)
      OBVIOUS
  <2>2. IsItemValue(type.of, value) /\ IsItemType(type.of)
      BY <1>4 DEF IsFieldValue, IsItemValue
  <2>3. IsItem(type.of, prev)
    <3>1. CASE old # Undefined /\ old[1] = number
      <4>1. IsItem(fields[old[1]].of, old[2])
          BY <1>4, <3>1 DEF IsOf
      <4> QED  BY <2>1, <3>1, <4>1
    <3>2. CASE ~(old # Undefined /\ old[1] = number)
        BY <2>1, <2>2, <3>2, ItemDefault
    <3> QED  BY <3>1, <3>2
  <2>4. PICK item : item = CombineItem(type.of, prev, value)
      OBVIOUS
  <2>5. IsItem(type.of, item)
    <3>1. InnerReads(type.of, prev, value)
        BY <1>4, <2>1 DEF FieldReads
    <3> QED  BY <2>2, <2>3, <2>4, <3>1, ItemCombined
  <2>6. new = <<number, item>>
      BY <1>1, <1>4, <2>1, <2>4 DEF Combine
  <2>7. new[1] = number /\ new[2] = item
      BY <2>6
  <2> QED  BY <1>1, <1>4, <2>5, <2>7 DEF IsOf
<1>5. CASE type.kind = "map"
  <2>1. PICK key, item : /\ key = CombineItem(type.key, DefVal(type.key), value[1])
                         /\ item = CombineItem(type.value, DefVal(type.value), value[2])
      BY SMTT(40)
  <2>2. IsItem(type.key, key) /\ IsItem(type.value, item)
      BY <1>5, <2>1 DEF FieldReads, EntryReads
  <2>3. new = Put(old, key, item)
      BY <1>1, <1>5, <2>1 DEF Combine
  <2>4. \A k \in DOMAIN old : IsItem(type.key, k) /\ IsItem(type.value, old[k])
      BY <1>5 DEF IsOf
  <2>5. ASSUME NEW k \in DOMAIN new
        PROVE  IsItem(type.key, k) /\ IsItem(type.value, new[k])
    <3>1. DOMAIN new = {key} \cup DOMAIN old
        BY <2>3 DEF Put
    <3>2. new[k] = IF k = key THEN item ELSE old[k]
        BY <2>3, <3>1 DEF Put
    <3> QED  BY <2>2, <2>4, <3>1, <3>2
  <2> QED  BY <1>1, <1>5, <2>5 DEF IsOf
<1>6. CASE IsItemType(type)
  <2>1. type.kind \in {"primitive", "maybe", "message"}
      BY <1>6, ItemWireType
  <2>2. IsItemValue(type, value) /\ InnerReads(type, old, value) /\ IsItem(type, old)
      BY <2>1 DEF IsFieldValue, FieldReads, IsOf
  <2>3. new = CombineItem(type, old, value)
      BY <1>1, <2>1 DEF Combine
  <2>4. IsItem(type, new)
      BY <2>2, <2>3, ItemCombined
  <2> QED  BY <1>1, <2>1, <2>4 DEF IsOf
<1> QED  BY <1>2, <1>3, <1>4, <1>5, <1>6 DEF IsFieldType

(* A packed chunk of a repeated field.                                     *)
LEMMA PackedCombined ==
    ASSUME NEW type, type.kind = "repeated", IsItemType(type.of), NEW fields, NEW number,
           WireTypeOf(type) # DelimType,
           NEW old, IsOf(fields, type, old),
           NEW value, IsFieldValue(Packed(type.of), value)
    PROVE  IsOf(fields, type, Combine(type, number, old, value, Packed(type.of)))
<1>1. Packed(type.of).kind = "packed" /\ Packed(type.of).of = type.of
    BY DEF Packed
<1>2. type.of.kind = "primitive"
    BY <1>1 DEF IsFieldValue
<1>3. value \in Seq(Seq(Nat)) /\ \A i \in DOMAIN value : IsData(type.of.wt, value[i])
    BY <1>1 DEF IsFieldValue
<1>4. value \in Seq(Range(value)) /\ \A i \in DOMAIN value : IsItem(type.of, value[i])
  <2>1. value \in Seq(Range(value))
      BY <1>3, SequenceOf
  <2>2. \A i \in DOMAIN value : IsPrimitive(type.of.wt, value[i])
      BY <1>3 DEF IsData
  <2> QED  BY <1>2, <2>1, <2>2 DEF IsItem
<1>5. old \in Seq(Range(old)) /\ \A i \in DOMAIN old : IsItem(type.of, old[i])
    BY DEF IsOf
<1>6. PICK new : /\ new = old \o value
                 /\ new \in Seq(Range(new))
                 /\ \A i \in DOMAIN new : IsItem(type.of, new[i])
    BY <1>4, <1>5, ItemsJoined
<1>7. Combine(type, number, old, value, Packed(type.of)) = new
    BY <1>1, <1>6 DEF Combine
<1> QED  BY <1>6, <1>7 DEF IsOf

LEMMA PieceTyped ==
    ASSUME NEW fields, AreFields(fields), NEW msg, Shaped(fields, msg), IsMessage(fields, msg),
           NEW part, Writable(part), Fit(fields, part), Readable(fields, part),
           PartReads(fields, msg, part)
    PROVE  IsMessage(fields, Merge(fields, msg, part))
<1>1. CASE Merge(fields, msg, part) = msg
    BY <1>1
<1>2. CASE Merge(fields, msg, part).vtable = msg.vtable
    BY <1>2 DEF IsMessage
<1>3. ASSUME Contents(<<part>>) # << >>, part.number \in DOMAIN fields
      PROVE  IsMessage(fields, Merge(fields, msg, part))
  <2>1. PICK number, type : /\ number = part.number /\ number \in DOMAIN fields
                            /\ type = fields[number]
      BY <1>3
  <2>2. PICK slot, place :
            /\ slot \in DOMAIN fields /\ slot = Slot(fields, number) /\ place = fields[slot]
            /\ IsFieldType(type) /\ IsFieldType(place)
            /\ type.kind # "oneof" => place = type
            /\ type.kind = "oneof" => place.kind = "oneof"
    <3>1. PICK slot : slot = Slot(fields, number)
        OBVIOUS
    <3>2. /\ slot \in DOMAIN fields
          /\ type.kind # "oneof" => slot = number
          /\ type.kind = "oneof" => fields[slot].kind = "oneof"
        BY <2>1, <3>1, SlotIs
    <3>3. IsFieldType(type) /\ IsFieldType(fields[slot])
        BY <2>1, <3>2 DEF AreFields
    <3> QED  BY <2>1, <3>1, <3>2, <3>3
  <2>3. slot \in Slots(fields)
      BY <2>1, <2>2 DEF Slots
  <2>4. PICK old : old = msg.vtable[slot] /\ IsOf(fields, place, old)
      BY <2>2, <2>3 DEF IsMessage
  <2>5. PICK new : new = Combine(type, number, old, part.value, part.type)
      OBVIOUS
  <2>6. Merge(fields, msg, part) = [msg EXCEPT !.vtable[slot] = new]
      BY <1>3, <2>1, <2>2, <2>4, <2>5 DEF Merge
  <2>7. IsOf(fields, place, new)
    <3>1. CASE part.type = type
      <4>1. IsFieldValue(type, part.value)
          BY <3>1 DEF Writable
      <4>2. FieldReads(type, number, old, part.value)
          BY <2>1, <2>2, <2>4, <3>1 DEF PartReads
      <4>3. new = Combine(type, number, old, part.value, type)
          BY <2>5, <3>1
      <4> QED  BY <2>1, <2>2, <2>4, <4>1, <4>2, <4>3, FieldCombined
    <3>2. CASE type.kind = "repeated" /\ WireTypeOf(type) # DelimType
               /\ part.type = Packed(type.of)
      <4>1. IsFieldValue(Packed(type.of), part.value)
          BY <3>2 DEF Writable
      <4>2. IsItemType(type.of)
          BY <2>2, <3>2 DEF IsFieldType, IsItemType
      <4>3. place = type
          BY <2>2, <3>2
      <4> QED  BY <2>4, <2>5, <3>2, <4>1, <4>2, <4>3, PackedCombined
    <3>3. CASE /\ WireTypeOf(part.type) # WireTypeOf(type)
               /\ type.kind = "repeated" => WireTypeOf(part.type) # DelimType
      <4>1. type.kind = "repeated"
          BY <2>1, <3>3 DEF Readable
      <4>2. part.type.kind # "packed"
          BY <3>3, <4>1 DEF WireTypeOf
      <4>3. new = old
          BY <2>5, <3>3, <4>1, <4>2 DEF Combine
      <4> QED  BY <2>4, <4>3
    <3> QED  BY <2>1, <3>1, <3>2, <3>3 DEF Fit
  <2>8. PICK after : after = [msg EXCEPT !.vtable[slot] = new]
      OBVIOUS
  <2>9. after.vtable = [msg.vtable EXCEPT ![slot] = new]
      BY <2>8 DEF Shaped
  <2>10. DOMAIN after.vtable = Slots(fields)
      BY <2>9 DEF IsMessage
  <2>11. ASSUME NEW other \in Slots(fields)
         PROVE  IsOf(fields, fields[other], after.vtable[other])
    <3>1. other \in DOMAIN msg.vtable /\ IsOf(fields, fields[other], msg.vtable[other])
        BY DEF IsMessage
    <3>2. CASE other = slot
      <4>1. after.vtable[other] = new
          BY <2>9, <3>1, <3>2
      <4> QED  BY <2>2, <2>7, <3>2, <4>1
    <3>3. CASE other # slot
      <4>1. after.vtable[other] = msg.vtable[other]
          BY <2>9, <3>1, <3>3
      <4> QED  BY <3>1, <4>1
    <3> QED  BY <3>2, <3>3
  <2>12. IsMessage(fields, after)
      BY <2>10, <2>11 DEF IsMessage
  <2> QED  BY <2>6, <2>8, <2>12
<1>4. CASE Contents(<<part>>) = << >>
    BY <1>1, <1>4 DEF Merge
<1>5. CASE part.number \notin DOMAIN fields
  <2>1. \/ Merge(fields, msg, part) = msg
        \/ Merge(fields, msg, part).vtable = msg.vtable
      BY <1>5, MergePlaces DEF Filled
  <2> QED  BY <1>1, <1>2, <2>1
<1> QED  BY <1>3, <1>4, <1>5

(* The message is of its type after each piece that the reader takes.      *)
LEMMA AfterTyped ==
    ASSUME NEW fields, NEW msg, NEW pieces, NEW m \in Nat, Decodable(fields, msg, pieces, m),
           IsMessage(fields, msg), NEW n \in 0 .. m,
           \A i \in 1 .. n : Readable(fields, pieces[i])
    PROVE  IsMessage(fields, After(fields, msg, pieces, n))
<1> DEFINE S == {k \in Nat : k <= n => IsMessage(fields, After(fields, msg, pieces, k))}
<1>1. DOMAIN pieces = 1 .. m /\ AreFields(fields) /\ Shaped(fields, msg)
    BY DEF Decodable
<1>2. 0 \in S
  <2>1. IsMessage(fields, After(fields, msg, pieces, 0))
      BY <1>1, AfterStart
  <2> QED  BY <2>1
<1>3. ASSUME NEW k \in S PROVE k + 1 \in S
  <2>1. SUFFICES ASSUME k + 1 <= n PROVE IsMessage(fields, After(fields, msg, pieces, k + 1))
      OBVIOUS
  <2>2. IsMessage(fields, After(fields, msg, pieces, k)) /\ k \in 0 .. m - 1 /\ k \in 0 .. m
      BY <2>1
  <2> HIDE DEF S
  <2>3. PICK now, part : now = After(fields, msg, pieces, k) /\ part = pieces[k + 1]
      OBVIOUS
  <2>4. Shaped(fields, now)
      BY <1>1, <2>2, <2>3, AfterShaped
  <2>5. Readable(fields, part)
    <3>1. k + 1 \in 1 .. n
        BY <2>1, <2>2
    <3> QED  BY <2>3, <3>1
  <2>6. Writable(part) /\ Fit(fields, part) /\ PartReads(fields, now, part)
    <3>1. k + 1 \in 1 .. m /\ k + 1 \in DOMAIN pieces /\ (k + 1) - 1 = k
        BY <1>1, <2>2
    <3>2. Writable(part)
        BY <2>3, <3>1 DEF Decodable
    <3>3. \A i \in 1 .. k : Readable(fields, pieces[i])
        BY <2>1, <2>2
    <3>4. PICK j \in DOMAIN pieces : j = k + 1 /\ j - 1 = k
        BY <3>1
    <3>5. PICK before : /\ before = [i \in 1 .. j - 1 |-> pieces[i]]
                        /\ now = MergeAll(fields, msg, before)
        BY <2>3, <3>4 DEF After, First
    <3>6. Fit(fields, pieces[j]) /\ PartReads(fields, MergeAll(fields, msg, before), pieces[j])
        BY <3>3, <3>4, <3>5 DEF Decodable, PiecesFit
    <3> QED  BY <2>3, <3>2, <3>4, <3>5, <3>6
  <2>7. IsMessage(fields, Merge(fields, now, part))
      BY <1>1, <2>2, <2>3, <2>4, <2>5, <2>6, PieceTyped
  <2>8. After(fields, msg, pieces, k + 1) = Merge(fields, now, part)
      BY <1>1, <2>2, <2>3, AfterStep
  <2> QED  BY <2>7, <2>8
<1> HIDE DEF S
<1>4. S = Nat
    BY <1>2, <1>3, Induction DEF S
<1> QED  BY <1>4 DEF S

(* Every variable holds values of its type, in the middle of decoding too. *)
THEOREM TypeCorrect ==
    ASSUME InputsFit
    PROVE  Spec => []TypeOK
<1>1. IInv => TypeOK
  <2> SUFFICES ASSUME IInv PROVE TypeOK
      OBVIOUS
  <2>1. PICK pieces : pieces = InputPieces(parts)
      OBVIOUS
  <2>2. IsInput(parts) /\ Reading(parts, read, at, message, outcome)
      BY DEF IInv
  <2>3. Len(parts) \in Nat /\ DOMAIN pieces = 1 .. Len(parts)
        /\ \A i \in 1 .. Len(parts) : WrittenOf(pieces[i]) \in Seq(Nat)
    <3>1. \A i \in 1 .. Len(parts) : Writable(pieces[i])
        BY <2>1, <2>2, PiecesAre
    <3> QED  BY <2>1, <2>2, <3>1, PiecesAre, PieceWritten
  <2>4. parts \in Seq(DOMAIN PartList)
    <3>1. parts \in [1 .. Len(parts) -> DOMAIN PartList]
        BY <2>2 DEF IsInput, Inputs
    <3> QED  BY <2>3, <3>1
  <2>5. /\ read \in 0 .. Len(parts) /\ outcome \in {"reading", "done", "throw", "hang"}
        /\ at = At(pieces, read) /\ message = After(Fields, Template(Fields), pieces, read)
        /\ \A i \in 1 .. read : Readable(Fields, pieces[i])
      BY <2>1, <2>2 DEF Reading
  <2>6. at \in Nat
    <3>1. PICK g \in [0 .. Len(parts) -> Seq(Nat)] :
              \A n \in 0 .. Len(parts) : Contents(First(pieces, n)) = g[n]
        BY <2>3, ContentsOfFirst, ZenonT(60)
    <3>2. at = Len(g[read]) /\ g[read] \in Seq(Nat)
        BY <2>5, <3>1 DEF At
    <3> QED  BY <3>2
  <2>7. IsMessage(Fields, message)
    <3>1. Decodable(Fields, Template(Fields), pieces, Len(parts))
        BY <2>1, <2>2, InputDecodable
    <3>2. IsMessage(Fields, Template(Fields))
        BY FieldsAssumption, TemplateTyped DEF AreFields
    <3> QED  BY <2>3, <2>5, <3>1, <3>2, AfterTyped
  <2> QED  BY <2>4, <2>5, <2>6, <2>7 DEF TypeOK
<1>2. Spec => []IInv
    BY IInvHolds
<1> QED  BY <1>1, <1>2, PTL

-----------------------------------------------------------------------------
(* Messages inside messages                                                *)

LEMMA PairDomain ==
    ASSUME NEW a, NEW b
    PROVE  /\ DOMAIN <<a, b>> = 1 .. 2 /\ Len(<<a, b>>) = 2
           /\ <<a, b>>[1] = a /\ <<a, b>>[2] = b
    OBVIOUS

LEMMA TagNotEmpty ==
    ASSUME NEW number, NEW wt, 8 * number + wt \in Nat
    PROVE  Tag(number, wt) \in Seq(Nat) /\ Len(Tag(number, wt)) > 0
    BY VarintTyped, VarintFormed DEF Tag, VarintForm

(* What merging an item into its place makes of it. *)
LEMMA ItemMerged ==
    ASSUME NEW fields, NEW msg, Shaped(fields, msg), NEW number \in DOMAIN fields,
           number \in Nat, NEW part, part.number = number, part.type = fields[number],
           IsItemValue(part.type, part.value), WrittenOf(part) \in Seq(Nat),
           msg.vtable[number] = DefVal(part.type)
    PROVE  Merge(fields, msg, part).vtable[number]
           = CombineItem(part.type, DefVal(part.type), part.value)
<1>1. PICK type, new : /\ type = part.type
                       /\ new = CombineItem(type, DefVal(type), part.value)
    OBVIOUS
<1>2. IsItemType(type) /\ type.kind \in {"primitive", "maybe", "message"}
    BY <1>1, ItemWireType DEF IsItemValue
<1>3. Slot(fields, number) = number /\ number \in DOMAIN msg.vtable
  <2>1. Slot(fields, number) = number
      BY <1>1, <1>2 DEF Slot
  <2> QED  BY <2>1 DEF Shaped, Slots
<1>4. WrittenOf(part) = WriteItem(type, number, part.value, FALSE)
  <2>1. WrittenOf(part) = Write(type, number, part.value)
      BY <1>1 DEF WrittenOf
  <2> QED  BY <1>2, <2>1 DEF Write
<1>5. Contents(<<part>>) = WrittenOf(part)
    BY ContentsOfOne
<1>6. CASE WrittenOf(part) = << >>
  <2>1. type.kind = "primitive" /\ part.value = Zero(type.wt)
    <3>1. PICK written : written = WriteItem(type, number, part.value, FALSE) /\ written = << >>
        BY <1>4, <1>6
    <3>2. \/ type.kind = "primitive" /\ part.value = Zero(type.wt)
          \/ written = Tag(number, WireTypeOf(type))
                       \o Data(WireTypeOf(type), ItemData(type, part.value))
        BY <1>1, <3>1, ItemForm
    <3>3. Tag(number, WireTypeOf(type)) \o Data(WireTypeOf(type), ItemData(type, part.value))
            # << >>
      <4>1. IsData(WireTypeOf(type), ItemData(type, part.value))
          BY <1>1, ItemForm
      <4>2. PICK data \in Seq(Nat) : /\ data = Data(WireTypeOf(type), ItemData(type, part.value))
          BY <4>1, DataTyped
      <4>3. PICK tag \in Seq(Nat) : tag = Tag(number, WireTypeOf(type)) /\ Len(tag) > 0
        <5>1. WireTypeOf(type) \in Nat
            BY <4>1 DEF IsData, WireTypes, VarintType, DelimType, SingleType, DoubleType
        <5>2. 8 * number + WireTypeOf(type) \in Nat
            BY <5>1
        <5> QED  BY <5>2, TagNotEmpty
      <4>4. Len(tag \o data) > 0
          BY <4>3
      <4> QED  BY <4>2, <4>3, <4>4
    <3> QED  BY <3>1, <3>2, <3>3
  <2>2. new = DefVal(type)
      BY <1>1, <2>1 DEF CombineItem, DefVal
  <2>3. Merge(fields, msg, part) = msg
      BY <1>6, MergeNothing
  <2> QED  BY <1>1, <2>2, <2>3
<1>7. CASE WrittenOf(part) # << >>
  <2>1. Merge(fields, msg, part)
          = [msg EXCEPT !.vtable[number] =
                Combine(type, number, msg.vtable[number], part.value, type)]
      BY <1>1, <1>3, <1>5, <1>7 DEF Merge
  <2>2. Combine(type, number, msg.vtable[number], part.value, type) = new
      BY <1>1, <1>2 DEF Combine
  <2>3. Merge(fields, msg, part) = [msg EXCEPT !.vtable[number] = new]
      BY <2>1, <2>2
  <2>4. PICK after : after = [msg EXCEPT !.vtable[number] = new]
      OBVIOUS
  <2>5. after.vtable = [msg.vtable EXCEPT ![number] = new]
      BY <2>4 DEF Shaped
  <2>6. after.vtable[number] = new
      BY <1>3, <2>5
  <2> QED  BY <1>1, <2>3, <2>4, <2>6
<1> QED  BY <1>6, <1>7

LEMMA ContentsOfTwo ==
    ASSUME NEW a, NEW b, WrittenOf(a) \in Seq(Nat), WrittenOf(b) \in Seq(Nat)
    PROVE  Contents(<<a, b>>) = WrittenOf(a) \o WrittenOf(b)
<1>1. PICK seqs \in Seq(Seq(Nat)) : /\ seqs = <<WrittenOf(a), WrittenOf(b)>>
                                    /\ Len(seqs) = 2
                                    /\ seqs[1] = WrittenOf(a) /\ seqs[2] = WrittenOf(b)
  <2>1. ASSUME NEW x \in Seq(Nat), NEW y \in Seq(Nat)
        PROVE  /\ <<x, y>> \in Seq(Seq(Nat)) /\ Len(<<x, y>>) = 2
               /\ <<x, y>>[1] = x /\ <<x, y>>[2] = y
    <3>1. DOMAIN <<x, y>> = 1 .. 2
        OBVIOUS
    <3> QED  OBVIOUS
  <2> QED  BY <2>1, ZenonT(60)
<1>2. PICK g : Flattened(g, seqs)
    BY FlattenedExists
<1>3. FlattenSeq(seqs) = g[2]
    BY <1>1, <1>2, FlattenIs
<1>4. /\ g[0] = << >>
      /\ 1 \in 1 .. 2 /\ 2 \in 1 .. 2
      /\ g[1] = g[0] \o seqs[1] /\ g[2] = g[1] \o seqs[2]
  <2>1. 1 \in 1 .. Len(seqs) /\ 2 \in 1 .. Len(seqs) /\ 1 - 1 = 0 /\ 2 - 1 = 1
      BY <1>1
  <2>2. g[0] = << >> /\ \A i \in 1 .. Len(seqs) : g[i] = g[i - 1] \o seqs[i]
      BY <1>2 DEF Flattened
  <2>3. g[1] = g[1 - 1] \o seqs[1] /\ g[2] = g[2 - 1] \o seqs[2]
      BY <2>1, <2>2
  <2>4. 1 \in 1 .. 2 /\ 2 \in 1 .. 2
      OBVIOUS
  <2>5. g[0] = << >>
      BY <1>2 DEF Flattened
  <2> QED  BY <2>1, <2>3, <2>4, <2>5
<1>5. g[2] = WrittenOf(a) \o WrittenOf(b)
    BY <1>1, <1>4
<1>6. PICK pieces : /\ pieces = <<a, b>> /\ DOMAIN pieces = 1 .. 2
                    /\ pieces[1] = a /\ pieces[2] = b
  <2>1. /\ DOMAIN <<a, b>> = 1 .. 2
        /\ <<a, b>>[1] = a /\ <<a, b>>[2] = b
      BY PairDomain
  <2> QED  BY <2>1
<1>7. [i \in DOMAIN pieces |-> Write(pieces[i].type, pieces[i].number, pieces[i].value)] = seqs
  <2>1. PICK made : made = [i \in 1 .. 2 |-> Write(pieces[i].type, pieces[i].number,
                                                  pieces[i].value)]
      OBVIOUS
  <2>2. made[1] = seqs[1] /\ made[2] = seqs[2]
      BY <1>1, <1>6, <2>1 DEF WrittenOf
  <2>3. DOMAIN made = 1 .. 2 /\ made = [i \in 1 .. 2 |-> made[i]]
      BY <2>1
  <2>4. seqs = [i \in 1 .. 2 |-> seqs[i]]
      BY <1>1
  <2>5. \A i \in 1 .. 2 : i = 1 \/ i = 2
      OBVIOUS
  <2>6. made = seqs
      BY <2>2, <2>3, <2>4, <2>5
  <2> QED  BY <1>6, <2>1, <2>6
<1>8. Contents(pieces) = FlattenSeq(seqs)
    BY <1>7 DEF Contents
<1> QED  BY <1>3, <1>5, <1>6, <1>8

LEMMA ItemElsewhere ==
    ASSUME NEW fields, NEW msg, Shaped(fields, msg), NEW number \in DOMAIN fields,
           IsItemType(fields[number]), NEW part, part.number = number,
           NEW other \in DOMAIN msg.vtable, other # number
    PROVE  Merge(fields, msg, part).vtable[other] = msg.vtable[other]
<1>1. fields[number].kind # "oneof"
    BY ItemWireType
<1>2. Slot(fields, part.number) = number
    BY <1>1 DEF Slot
<1>3. CASE Filled(fields, msg, part)
    BY <1>2, <1>3 DEF Filled
<1> QED  BY <1>3, MergePlaces

(* Two items with places of their own are both there in the end. *)
LEMMA TwoMerged ==
    ASSUME NEW fields, NEW msg, Shaped(fields, msg),
           NEW a, NEW one \in DOMAIN fields, one \in Nat, a.number = one,
           a.type = fields[one], IsItemValue(a.type, a.value), WrittenOf(a) \in Seq(Nat),
           msg.vtable[one] = DefVal(a.type),
           NEW b, NEW two \in DOMAIN fields, two \in Nat, b.number = two,
           b.type = fields[two], IsItemValue(b.type, b.value), WrittenOf(b) \in Seq(Nat),
           msg.vtable[two] = DefVal(b.type),
           one # two
    PROVE  /\ Merge(fields, Merge(fields, msg, a), b).vtable[one]
                 = CombineItem(a.type, DefVal(a.type), a.value)
           /\ Merge(fields, Merge(fields, msg, a), b).vtable[two]
                 = CombineItem(b.type, DefVal(b.type), b.value)
<1>1. IsItemType(fields[one]) /\ IsItemType(fields[two])
    BY DEF IsItemValue
<1>2. Slot(fields, one) = one /\ Slot(fields, two) = two
  <2>1. fields[one].kind # "oneof" /\ fields[two].kind # "oneof"
      BY <1>1, ItemWireType
  <2> QED  BY <2>1 DEF Slot
<1>3. one \in Slots(fields) /\ two \in Slots(fields)
    BY <1>2 DEF Slots
<1>4. one \in DOMAIN msg.vtable /\ two \in DOMAIN msg.vtable
    BY <1>3 DEF Shaped
<1>5. PICK once : once = Merge(fields, msg, a)
    OBVIOUS
<1>6. once.vtable[one] = CombineItem(a.type, DefVal(a.type), a.value)
  <2>1. Merge(fields, msg, a).vtable[one] = CombineItem(a.type, DefVal(a.type), a.value)
      BY ItemMerged
  <2> QED  BY <1>5, <2>1
<1>7. once.vtable[two] = DefVal(b.type)
  <2>1. Merge(fields, msg, a).vtable[two] = msg.vtable[two]
      BY <1>1, <1>4, ItemElsewhere
  <2> QED  BY <1>5, <2>1
<1>8. Shaped(fields, once)
    BY <1>5, MergeShaped
<1>9. one \in DOMAIN once.vtable
    BY <1>3, <1>8 DEF Shaped
<1>10. Merge(fields, once, b).vtable[two] = CombineItem(b.type, DefVal(b.type), b.value)
    BY <1>7, <1>8, ItemMerged
<1>11. Merge(fields, once, b).vtable[one] = once.vtable[one]
    BY <1>1, <1>8, <1>9, ItemElsewhere
<1> QED  BY <1>5, <1>6, <1>10, <1>11

(* The reader of the entry finds the key and the value. *)
IsEntry(fields, a, b, pieces) ==
    /\ fields = <<a.type, b.type>>
    /\ a.number = 1 /\ IsItemValue(a.type, a.value) /\ WrittenOf(a) \in Seq(Nat)
    /\ b.number = 2 /\ IsItemValue(b.type, b.value) /\ WrittenOf(b) \in Seq(Nat)
    /\ pieces = <<a, b>>

LEMMA EntryMerged ==
    ASSUME NEW fields, NEW a, NEW b, NEW pieces, IsEntry(fields, a, b, pieces)
    PROVE  /\ MergeAll(fields, Template(fields), pieces).vtable[1]
                 = CombineItem(a.type, DefVal(a.type), a.value)
           /\ MergeAll(fields, Template(fields), pieces).vtable[2]
                 = CombineItem(b.type, DefVal(b.type), b.value)
<1>0. /\ DOMAIN fields = 1 .. 2 /\ fields[1] = a.type /\ fields[2] = b.type
      /\ DOMAIN pieces = 1 .. 2 /\ pieces[1] = a /\ pieces[2] = b /\ Len(pieces) = 2
  <2>1. fields = <<a.type, b.type>> /\ pieces = <<a, b>>
      BY DEF IsEntry
  <2> QED  BY <2>1, PairDomain
<1>1. PICK msg : msg = Template(fields)
    OBVIOUS
<1>2. /\ Shaped(fields, msg)
      /\ msg.vtable[1] = DefVal(a.type) /\ msg.vtable[2] = DefVal(b.type)
  <2>1. a.type.kind # "oneof" /\ b.type.kind # "oneof"
    <3>1. IsItemType(a.type) /\ IsItemType(b.type)
        BY DEF IsEntry, IsItemValue
    <3> QED  BY <3>1, ItemWireType
  <2>2. 1 \in DOMAIN fields /\ 2 \in DOMAIN fields
      BY <1>0
  <2>3. Slot(fields, 1) = 1 /\ Slot(fields, 2) = 2
      BY <1>0, <2>1 DEF Slot
  <2>4. 1 \in Slots(fields) /\ 2 \in Slots(fields)
      BY <2>2, <2>3 DEF Slots
  <2>5. "vtable" \in DOMAIN msg /\ msg.vtable = [slot \in Slots(fields) |-> DefVal(fields[slot])]
      BY <1>1 DEF Template
  <2> QED  BY <1>0, <2>4, <2>5 DEF Shaped
<1>3. PICK twice : twice = Merge(fields, Merge(fields, msg, a), b)
    OBVIOUS
<1>4. /\ twice.vtable[1] = CombineItem(a.type, DefVal(a.type), a.value)
      /\ twice.vtable[2] = CombineItem(b.type, DefVal(b.type), b.value)
  <2>1. PICK one \in DOMAIN fields, two \in DOMAIN fields : one = 1 /\ two = 2
      BY <1>0
  <2>2. /\ Merge(fields, Merge(fields, msg, a), b).vtable[one]
              = CombineItem(a.type, DefVal(a.type), a.value)
        /\ Merge(fields, Merge(fields, msg, a), b).vtable[two]
              = CombineItem(b.type, DefVal(b.type), b.value)
    <3>1. /\ one \in Nat /\ a.number = one /\ a.type = fields[one]
          /\ IsItemValue(a.type, a.value) /\ WrittenOf(a) \in Seq(Nat)
          /\ msg.vtable[one] = DefVal(a.type)
        BY <1>0, <1>2, <2>1 DEF IsEntry
    <3>2. /\ two \in Nat /\ b.number = two /\ b.type = fields[two]
          /\ IsItemValue(b.type, b.value) /\ WrittenOf(b) \in Seq(Nat)
          /\ msg.vtable[two] = DefVal(b.type)
        BY <1>0, <1>2, <2>1 DEF IsEntry
    <3>3. one # two
        BY <2>1
    <3> QED  BY <1>2, <3>1, <3>2, <3>3, TwoMerged
  <2> QED  BY <1>3, <2>1, <2>2
<1>5. MergeAll(fields, msg, pieces) = twice
  <2>1. ASSUME NEW n \in 0 .. 2 - 1
        PROVE  After(fields, msg, pieces, n + 1)
               = Merge(fields, After(fields, msg, pieces, n), pieces[n + 1])
    <3>1. 2 \in Nat /\ DOMAIN pieces = 1 .. 2
        BY <1>0
    <3> QED  BY <3>1, AfterStep
  <2>2. 0 \in 0 .. 2 - 1 /\ 1 \in 0 .. 2 - 1 /\ 0 + 1 = 1 /\ 1 + 1 = 2 /\ 2 \in Nat
      OBVIOUS
  <2>3. /\ After(fields, msg, pieces, 1) = Merge(fields, After(fields, msg, pieces, 0), pieces[1])
        /\ After(fields, msg, pieces, 2) = Merge(fields, After(fields, msg, pieces, 1), pieces[2])
      BY <2>1, <2>2
  <2>4. After(fields, msg, pieces, 0) = msg
      BY <1>0, <2>2, AfterStart
  <2>5. After(fields, msg, pieces, 2) = twice
      BY <1>0, <1>3, <2>3, <2>4
  <2>6. First(pieces, 2) = pieces
    <3>1. pieces = [i \in 1 .. 2 |-> pieces[i]]
        BY DEF IsEntry
    <3> QED  BY <3>1 DEF First
  <2> QED  BY <2>5, <2>6 DEF After
<1> QED  BY <1>1, <1>4, <1>5

LEMMA InnerRead ==
    ASSUME NEW tasks, \A task \in tasks : Tied(task) /\ Done(task),
           NEW type, NEW old, NEW value, ItemTasks(type, old, value) \subseteq tasks
    PROVE  InnerReads(type, old, value)
<1> SUFFICES ASSUME type.kind = "message"
             PROVE  InnerReads(type, old, value)
    BY DEF InnerReads
<1>1. PICK into : into = IF old = Undefined THEN Template(type.fields) ELSE old[1]
    OBVIOUS
<1>2. PICK task \in tasks : /\ task.fields = type.fields /\ task.into = into
                            /\ task.pieces = value
  <2>1. InnerTask(type, old, value) \in tasks
      BY DEF ItemTasks
  <2>2. PICK task : task = InnerTask(type, old, value)
      OBVIOUS
  <2>3. /\ task.fields = type.fields /\ task.into = into /\ task.pieces = value
      BY <1>1, <2>2 DEF InnerTask, Task
  <2> QED  BY <2>1, <2>2, <2>3
<1>3. Tied(task) /\ Done(task)
    OBVIOUS
<1>4. PICK result : result = ReadContents(type.fields, WriteContents(value), into)
    OBVIOUS
<1>5. result = Value(MergeContents(type.fields, into, value), Len(Contents(value)))
  <2>1. WriteContents(value) = Contents(value)
      BY <1>2, <1>3 DEF Tied
  <2>2. ReadContents(type.fields, Contents(value), into)
          = ReadFields(type.fields, Contents(value), into)
      BY <1>2, <1>3 DEF Tied
  <2>3. MergeContents(type.fields, into, value) = MergeAll(type.fields, into, value)
      BY <1>2, <1>3 DEF Tied
  <2>4. ReadFields(type.fields, Contents(value), into)
          = Value(MergeAll(type.fields, into, value), Len(Contents(value)))
      BY <1>2, <1>3 DEF Done
  <2> QED  BY <1>4, <2>1, <2>2, <2>3, <2>4
<1>6. result.is = "value" /\ result.value = MergeContents(type.fields, into, value)
    BY <1>5, ValueIs
<1>7. IsContents(type.fields, result.value)
  <2>1. PICK new : new = MergeAll(type.fields, into, value)
      OBVIOUS
  <2>2. result.value = new
      BY <1>2, <1>3, <1>6, <2>1 DEF Tied
  <2>3. IsMessage(type.fields, new)
      BY <1>2, <1>3, <2>1 DEF Done
  <2>4. IsContents(type.fields, new) <=> IsMessage(type.fields, new)
      BY <1>2, <1>3, <2>1 DEF Tied
  <2> QED  BY <2>2, <2>3, <2>4
<1> QED  BY <1>1, <1>4, <1>6, <1>7 DEF InnerReads

LEMMA EntryRead ==
    ASSUME NEW tasks, \A task \in tasks : Tied(task) /\ WellFormed(task) /\ Done(task),
           NEW key, NEW value, NEW entry,
           IsItemValue(key, entry[1]), IsItemValue(value, entry[2]),
           EntryTask(key, value, entry) \in tasks
    PROVE  EntryReads(key, value, entry)
<1>1. PICK a, b, fields, pieces :
          /\ a = [number |-> 1, type |-> key, value |-> entry[1]]
          /\ b = [number |-> 2, type |-> value, value |-> entry[2]]
          /\ fields = <<key, value>>
          /\ pieces = <<a, b>>
    OBVIOUS
<1>2. /\ a.number = 1 /\ a.type = key /\ a.value = entry[1]
      /\ b.number = 2 /\ b.type = value /\ b.value = entry[2]
    BY <1>1
<1>3. PICK task \in tasks : /\ task.fields = fields /\ task.into = Template(fields)
                            /\ task.pieces = pieces
  <2>1. PICK task : task = EntryTask(key, value, entry)
      OBVIOUS
  <2>2. pieces = EntryPieces(key, value, entry)
      BY <1>1 DEF EntryPieces
  <2>3. /\ task.fields = fields /\ task.into = Template(fields) /\ task.pieces = pieces
      BY <1>1, <2>1, <2>2 DEF EntryTask, Task
  <2> QED  BY <2>1, <2>3
<1>4. Tied(task) /\ WellFormed(task) /\ Done(task)
    OBVIOUS
<1>5. WrittenOf(a) \in Seq(Nat) /\ WrittenOf(b) \in Seq(Nat)
  <2>1. /\ DOMAIN <<a, b>> = 1 .. 2
        /\ <<a, b>>[1] = a /\ <<a, b>>[2] = b
      BY PairDomain
  <2>2. 1 \in DOMAIN pieces /\ 2 \in DOMAIN pieces /\ pieces[1] = a /\ pieces[2] = b
      BY <1>1, <2>1
  <2>3. Writable(pieces[1]) /\ Writable(pieces[2])
      BY <1>3, <1>4, <2>2 DEF WellFormed
  <2> QED  BY <2>2, <2>3, PieceWritten
<1>6. IsEntry(fields, a, b, pieces)
    BY <1>1, <1>2, <1>5 DEF IsEntry
<1>7. PICK merged : /\ merged = MergeAll(fields, Template(fields), pieces)
                    /\ merged.vtable[1] = CombineItem(key, DefVal(key), entry[1])
                    /\ merged.vtable[2] = CombineItem(value, DefVal(value), entry[2])
  <2>1. /\ MergeAll(fields, Template(fields), pieces).vtable[1]
              = CombineItem(a.type, DefVal(a.type), a.value)
        /\ MergeAll(fields, Template(fields), pieces).vtable[2]
              = CombineItem(b.type, DefVal(b.type), b.value)
      BY <1>6, EntryMerged
  <2> QED  BY <1>2, <2>1
<1>8. Contents(pieces) = WriteItem(key, 1, entry[1], FALSE)
                         \o WriteItem(value, 2, entry[2], FALSE)
  <2>1. key.kind \in {"primitive", "maybe", "message"}
        /\ value.kind \in {"primitive", "maybe", "message"}
      BY ItemWireType DEF IsItemValue
  <2>2. WrittenOf(a) = WriteItem(key, 1, entry[1], FALSE)
    <3>1. WrittenOf(a) = Write(key, 1, entry[1])
        BY <1>2 DEF WrittenOf
    <3> QED  BY <2>1, <3>1 DEF Write
  <2>3. WrittenOf(b) = WriteItem(value, 2, entry[2], FALSE)
    <3>1. WrittenOf(b) = Write(value, 2, entry[2])
        BY <1>2 DEF WrittenOf
    <3> QED  BY <2>1, <3>1 DEF Write
  <2>4. Contents(<<a, b>>) = WrittenOf(a) \o WrittenOf(b)
      BY <1>5, ContentsOfTwo
  <2> QED  BY <1>1, <2>2, <2>3, <2>4
<1>9. PICK result : result = ReadContents(fields, Contents(pieces), Template(fields))
    OBVIOUS
<1>10. result = Value(merged, Len(Contents(pieces)))
  <2>1. result = ReadFields(fields, Contents(pieces), Template(fields))
      BY <1>3, <1>4, <1>9 DEF Tied
  <2>2. ReadFields(fields, Contents(pieces), Template(fields))
          = Value(MergeAll(fields, Template(fields), pieces), Len(Contents(pieces)))
      BY <1>3, <1>4 DEF Done
  <2> QED  BY <1>7, <2>1, <2>2
<1>11. result.is = "value" /\ result.value = merged
    BY <1>10, ValueIs
<1>12. IsItem(key, merged.vtable[1]) /\ IsItem(value, merged.vtable[2])
  <2>1. key.kind \in {"primitive", "maybe", "message"}
        /\ value.kind \in {"primitive", "maybe", "message"}
      BY ItemWireType DEF IsItemValue
  <2>2. DOMAIN fields = 1 .. 2 /\ fields[1] = key /\ fields[2] = value
      BY <1>1, PairDomain
  <2>3. 1 \in Slots(fields) /\ 2 \in Slots(fields)
    <3>1. 1 \in DOMAIN fields /\ 2 \in DOMAIN fields
        BY <2>2
    <3>2. Slot(fields, 1) = 1 /\ Slot(fields, 2) = 2
        BY <2>1, <2>2 DEF Slot
    <3> QED  BY <3>1, <3>2 DEF Slots
  <2>4. IsMessage(fields, merged)
      BY <1>3, <1>4, <1>7 DEF Done
  <2>5. IsOf(fields, fields[1], merged.vtable[1]) /\ IsOf(fields, fields[2], merged.vtable[2])
      BY <2>3, <2>4 DEF IsMessage
  <2>6. IsOf(fields, key, merged.vtable[1]) /\ IsOf(fields, value, merged.vtable[2])
      BY <2>2, <2>5
  <2> QED  BY <2>1, <2>6 DEF IsOf
<1> QED  BY <1>1, <1>7, <1>8, <1>9, <1>11, <1>12 DEF EntryReads

LEMMA FieldRead ==
    ASSUME NEW tasks, \A task \in tasks : Tied(task) /\ WellFormed(task) /\ Done(task),
           NEW type, NEW number, NEW old, NEW value, IsFieldValue(type, value),
           FieldTasks(type, number, old, value) \subseteq tasks
    PROVE  FieldReads(type, number, old, value)
<1>1. CASE type.kind = "map"
  <2>1. IsItemValue(type.key, value[1]) /\ IsItemValue(type.value, value[2])
      BY <1>1 DEF IsFieldValue
  <2>2. EntryTask(type.key, type.value, value) \in tasks
      BY <1>1 DEF FieldTasks
  <2>3. EntryReads(type.key, type.value, value)
      BY <2>1, <2>2, EntryRead
  <2> QED  BY <1>1, <2>3 DEF FieldReads
<1>2. CASE type.kind \in {"optional", "repeated"}
  <2>1. ItemTasks(type.of, DefVal(type.of), value) \subseteq tasks
      BY <1>2 DEF FieldTasks
  <2>2. InnerReads(type.of, DefVal(type.of), value)
      BY <2>1, InnerRead
  <2> QED  BY <1>2, <2>2 DEF FieldReads
<1>3. CASE type.kind = "oneof"
  <2>1. PICK prev : prev = IF old # Undefined /\ old[1] = number
                           THEN old[2] ELSE DefVal(type.of)
      OBVIOUS
  <2>2. ItemTasks(type.of, prev, value) \subseteq tasks
      BY <1>3, <2>1 DEF FieldTasks
  <2>3. InnerReads(type.of, prev, value)
      BY <2>2, InnerRead
  <2> QED  BY <1>3, <2>1, <2>3 DEF FieldReads
<1>4. CASE type.kind \notin {"map", "optional", "repeated", "oneof"}
  <2>1. ItemTasks(type, old, value) \subseteq tasks
      BY <1>4 DEF FieldTasks
  <2>2. InnerReads(type, old, value)
      BY <2>1, InnerRead
  <2> QED  BY <1>4, <2>2 DEF FieldReads
<1> QED  BY <1>1, <1>2, <1>3, <1>4

LEMMA PiecesRead ==
    ASSUME NEW tasks, \A task \in tasks : Tied(task) /\ WellFormed(task) /\ Done(task),
           NEW fields, NEW msg, NEW pieces,
           \A i \in DOMAIN pieces : Writable(pieces[i]),
           PiecesIn(tasks, fields, msg, pieces)
    PROVE  PiecesFit(fields, msg, pieces)
<1> SUFFICES ASSUME NEW n \in DOMAIN pieces, NEW before,
                    before = [i \in 1 .. n - 1 |-> pieces[i]],
                    \A i \in 1 .. n - 1 : Readable(fields, pieces[i])
             PROVE  PartReads(fields, MergeAll(fields, msg, before), pieces[n])
    BY DEF PiecesFit, PiecesIn
<1>1. PICK part : part = pieces[n] /\ Writable(part)
    OBVIOUS
<1>2. PICK now : now = MergeAll(fields, msg, before) /\ now = After(fields, msg, pieces, n - 1)
    BY DEF After, First
<1>3. PartTasks(fields, now, part) \subseteq tasks
    BY <1>1, <1>2 DEF PiecesIn
<1>4. PartReads(fields, now, part)
  <2> SUFFICES ASSUME part.number \in DOMAIN fields, part.type = fields[part.number],
                      NEW old, old = now.vtable[Slot(fields, part.number)]
               PROVE  FieldReads(part.type, part.number, old, part.value)
      BY DEF PartReads
  <2>1. FieldTasks(part.type, part.number, old, part.value) \subseteq tasks
      BY <1>3 DEF PartTasks
  <2>2. IsFieldValue(part.type, part.value)
      BY <1>1 DEF Writable
  <2> QED  BY <2>1, <2>2, FieldRead
<1> QED  BY <1>1, <1>2, <1>4

(* Messages inside messages, as deep as they are, are read and merged as   *)
(* the protobuf encoding has it: what the readers of the messages inside   *)
(* are asked for holds, by induction on the depth.                         *)
THEOREM NestedMessagesRead ==
    ASSUME NEW tasks, NEW depth, Nested(tasks, depth)
    PROVE  \A task \in tasks : Done(task)
<1> DEFINE S == {n \in Nat : \A task \in tasks : depth[task] < n => Done(task)}
<1>1. \A task \in tasks : depth[task] \in Nat
    BY DEF Nested
<1>2. 0 \in S
    BY <1>1
<1>3. ASSUME NEW n \in S PROVE n + 1 \in S
  <2>0. n \in Nat /\ \A task \in tasks : depth[task] < n => Done(task)
      OBVIOUS
  <2> HIDE DEF S
  <2>1. SUFFICES ASSUME NEW task \in tasks, depth[task] < n + 1
                 PROVE  Done(task)
      BY <2>0 DEF S
  <2>2. PICK inner : inner = {other \in tasks : depth[other] < depth[task]}
      OBVIOUS
  <2>3. \A other \in inner : Tied(other) /\ WellFormed(other) /\ Done(other)
    <3>1. SUFFICES ASSUME NEW other \in inner
                   PROVE  Tied(other) /\ WellFormed(other) /\ Done(other)
        OBVIOUS
    <3>2. other \in tasks /\ depth[other] < n
        BY <1>1, <2>0, <2>1, <2>2
    <3>3. Done(other)
        BY <2>0, <3>2
    <3> QED  BY <3>2, <3>3 DEF Nested
  <2>4. PICK fields, into, pieces : /\ fields = task.fields /\ into = task.into
                                    /\ pieces = task.pieces
      OBVIOUS
  <2>5. WellFormed(task) /\ PiecesIn(inner, fields, into, pieces)
      BY <2>2, <2>4 DEF Nested
  <2>6. PICK m \in Nat : pieces = [i \in 1 .. m |-> pieces[i]]
    <3>1. Len(pieces) \in Nat /\ pieces = First(pieces, Len(pieces))
        BY <2>4, <2>5 DEF WellFormed
    <3> QED  BY <3>1 DEF First
  <2>7. DOMAIN pieces = 1 .. m
      BY <2>6
  <2>8. \A i \in 1 .. m : Writable(pieces[i]) /\ Readable(fields, pieces[i])
      BY <2>4, <2>5, <2>7 DEF WellFormed
  <2>9. PiecesFit(fields, into, pieces)
    <3>1. \A i \in DOMAIN pieces : Writable(pieces[i])
        BY <2>7, <2>8
    <3> QED  BY <2>3, <2>5, <3>1, PiecesRead
  <2>10. Decodable(fields, into, pieces, m)
    <3>1. AreFields(fields) /\ Shaped(fields, into) /\ PackedFirst(fields, into, pieces)
        BY <2>4, <2>5 DEF WellFormed
    <3> QED  BY <2>6, <2>8, <2>9, <3>1 DEF Decodable
  <2>11. ReadFields(fields, Contents(pieces), into)
            = Value(MergeAll(fields, into, pieces), Len(Contents(pieces)))
      BY <2>8, <2>10, ContentsRead
  <2>12. IsMessage(fields, MergeAll(fields, into, pieces))
    <3>1. IsMessage(fields, into) /\ m \in 0 .. m
        BY <2>4, <2>5 DEF WellFormed
    <3>2. IsMessage(fields, After(fields, into, pieces, m))
        BY <2>8, <2>10, <3>1, AfterTyped
    <3>3. After(fields, into, pieces, m) = MergeAll(fields, into, pieces)
        BY <2>6 DEF After, First
    <3> QED  BY <3>2, <3>3
  <2> QED  BY <2>4, <2>11, <2>12 DEF Done
<1> HIDE DEF S
<1>4. S = Nat
    BY <1>2, <1>3, Induction DEF S
<1>5. ASSUME NEW task \in tasks PROVE Done(task)
  <2>1. depth[task] + 1 \in S /\ depth[task] < depth[task] + 1
      BY <1>1, <1>4
  <2> QED  BY <2>1 DEF S
<1> QED  BY <1>5

LEMMA InputsReadable ==
    ASSUME NEW tasks, NEW depth, Nested(tasks, depth), InputsIn(tasks)
    PROVE  InputsFit
<1>1. \A task \in tasks : Tied(task) /\ WellFormed(task) /\ Done(task)
    BY NestedMessagesRead DEF Nested
<1>2. SUFFICES ASSUME NEW length \in 0 .. MaxParts, NEW input \in Inputs(length)
               PROVE  PiecesFit(Fields, Template(Fields),
                                [i \in 1 .. length |-> PartList[input[i]]])
    BY DEF InputsFit
<1>3. IsInput(input) /\ Len(input) = length
    BY InputIs
<1>4. PICK pieces : /\ pieces = InputPieces(input)
                    /\ pieces = [i \in 1 .. length |-> PartList[input[i]]]
    BY <1>3 DEF InputPieces
<1>5. PiecesIn(tasks, Fields, Template(Fields), pieces)
    BY <1>4 DEF InputsIn
<1>6. \A i \in DOMAIN pieces : Writable(pieces[i])
    BY <1>3, <1>4, PiecesAre
<1> QED  BY <1>1, <1>4, <1>5, <1>6, PiecesRead

(* Decoding an input with messages inside messages keeps the message of    *)
(* its type, stays in step, decodes what was written, and throws on a      *)
(* mismatch only.                                                          *)
THEOREM NestedInputsDecoded ==
    ASSUME NEW tasks, NEW depth, Nested(tasks, depth), InputsIn(tasks)
    PROVE  Spec => [](TypeOK /\ InStep /\ DecodesParts /\ ThrowsOnMismatch)
<1>1. InputsFit
    BY InputsReadable
<1>2. (Spec => []TypeOK) /\ (Spec => []InStep)
    BY <1>1, TypeCorrect, StaysInStep
<1>3. (Spec => []DecodesParts) /\ (Spec => []ThrowsOnMismatch)
    BY <1>1, DecodesWhatWasWritten, ThrowsOnlyOnMismatch
<1> QED  BY <1>2, <1>3, PTL
=============================================================================
