---------------------------- MODULE BootLinkProofs ----------------------------
(***************************************************************************)
(* An upload is proved right for every file that fits in the memory, every *)
(* size of a word and of a chunk, and every number of bytes missed.        *)
(*                                                                         *)
(* The first part is about the data: what the recursive functions of the   *)
(* model compute, by induction over the natural numbers.  The library      *)
(* states induction for an operator, which the provers at hand cannot      *)
(* instantiate; NatInduct states it for a set and follows from             *)
(* WFMin, that every set of numbers has a least one.                       *)
(***************************************************************************)
EXTENDS BootLink, TLAPS, WellFoundedInduction, SequenceTheorems

LEMMA Sizes ==
  /\ Radix \in Nat /\ Radix > 1 /\ WordBytes \in Nat /\ WordBytes > 1
  /\ MemWords \in Nat /\ MemWords > 0
  /\ ChunkSize \in Nat /\ ChunkSize > 0 /\ MaxLost \in Nat /\ MaxLost > 0
  /\ Backlog \in Nat /\ Backlog > 0
  BY BootloaderAssumption, BootLinkAssumption

USE Sizes

LEMMA ByteXorTyped == \A a, b \in Byte : ByteXor(a, b) \in Byte
  BY BootloaderAssumption DEF Byte

LEMMA ZeroIsByte == 0 \in Byte
  BY DEF Byte

-----------------------------------------------------------------------------
(* Induction and recursion. *)
Less == OpToRel(<, Nat)

LEMMA NatInduct ==
  ASSUME NEW S, 0 \in S, \A n \in Nat : n \in S => n + 1 \in S
  PROVE  Nat \subseteq S
<1> DEFINE T == Nat \ S
<1> SUFFICES ASSUME T # {} PROVE FALSE
  OBVIOUS
<1>1. IsWellFoundedOn(Less, Nat)
  BY NatLessThanWellFounded, Zenon DEF Less
<1>2. PICK x \in T : \A y \in T : ~ (<<y, x>> \in Less)
  BY <1>1, WFMin
<1>3. x # 0 /\ x - 1 \in Nat
  BY <1>2
<1>4. <<x - 1, x>> \in Less
  <2>1. x - 1 < x
    BY <1>3
  <2> QED
    BY <1>3, <2>1, Zenon DEF Less, OpToRel
<1>5. x - 1 \notin T
  BY <1>2, <1>4
<1> QED
  BY <1>2, <1>3, <1>5

\* x starts with c and goes on with st, which is given the last value and the
\* number of the next.
Iterates(x, V, c, N, st) ==
  x \in [0..N -> V] /\ x[0] = c /\ \A n \in 1..N : x[n] = st[<<x[n - 1], n>>]

LEMMA Recursion ==
  ASSUME NEW V, NEW c \in V, NEW N \in Nat, NEW st \in [V \X (1..N) -> V]
  PROVE  \E x : Iterates(x, V, c, N, st)
<1> DEFINE Good(f, m) == f[0] = c /\ \A i \in 1..m : f[i] = st[<<f[i - 1], i>>]
           S == {m \in Nat : m <= N => \E f \in [0..m -> V] : Good(f, m)}
<1>1. 0 \in S
  <2>1. Good([n \in 0..0 |-> c], 0)
    OBVIOUS
  <2> QED
    BY <2>1
<1>2. ASSUME NEW m \in Nat, m \in S PROVE m + 1 \in S
  <2> SUFFICES ASSUME m + 1 <= N PROVE \E f \in [0..(m + 1) -> V] : Good(f, m + 1)
    OBVIOUS
  <2>1. PICK f \in [0..m -> V] : Good(f, m)
    BY <1>2
  <2> DEFINE g == [n \in 0..(m + 1) |-> IF n <= m THEN f[n] ELSE st[<<f[m], m + 1>>]]
  <2>2. st[<<f[m], m + 1>>] \in V
    OBVIOUS
  <2>3. g \in [0..(m + 1) -> V]
    BY <2>2
  <2>4. g[0] = c
    BY <2>1
  <2>5. ASSUME NEW i \in 1..(m + 1) PROVE g[i] = st[<<g[i - 1], i>>]
    <3>1. CASE i <= m
      <4>1. g[i] = f[i] /\ g[i - 1] = f[i - 1] /\ i \in 1..m
        BY <3>1
      <4> QED
        BY <4>1, <2>1
    <3>2. CASE i = m + 1
      <4>1. g[i] = st[<<f[m], m + 1>>] /\ g[i - 1] = f[m]
        BY <3>2
      <4> QED
        BY <3>2, <4>1
    <3> QED
      BY <3>1, <3>2
  <2> QED
    BY <2>3, <2>4, <2>5
<1>3. N \in S
  <2> HIDE DEF S
  <2> QED
    BY <1>1, <1>2, NatInduct
<1> QED
  BY <1>3 DEF Iterates

\* Two functions that start alike and go on alike are one.
Follows(x, y, N) == \A n \in 1..N : x[n - 1] = y[n - 1] => x[n] = y[n]

LEMMA SameRun ==
  ASSUME NEW N \in Nat, NEW x, NEW y, x[0] = y[0], Follows(x, y, N)
  PROVE  \A n \in 0..N : x[n] = y[n]
<1> DEFINE S == {n \in Nat : n <= N => x[n] = y[n]}
<1>1. 0 \in S
  OBVIOUS
<1>2. ASSUME NEW n \in Nat, n \in S PROVE n + 1 \in S
  <2> SUFFICES ASSUME n + 1 <= N PROVE x[n + 1] = y[n + 1]
    OBVIOUS
  <2>1. n + 1 \in 1..N /\ (n + 1) - 1 = n /\ x[n] = y[n]
    BY <1>2
  <2> QED
    BY <2>1 DEF Follows
<1>3. Nat \subseteq S
  <2> HIDE DEF S
  <2> QED
    BY <1>1, <1>2, NatInduct
<1> QED
  BY <1>3

-----------------------------------------------------------------------------
(* What the recursive functions compute. *)
LEMMA RunningDef ==
  ASSUME NEW data \in Seq(Byte)
  PROVE  /\ Running(data) \in [0 .. Len(data) -> Byte]
         /\ Running(data)[0] = 0
         /\ \A n \in 1 .. Len(data) : Running(data)[n] = ByteXor(Running(data)[n - 1], data[n])
<1> DEFINE N == Len(data)
           st == [p \in Byte \X (1..N) |-> ByteXor(p[1], data[p[2]])]
           Eq(x) == x = [n \in 0..N |-> IF n = 0 THEN 0 ELSE ByteXor(x[n - 1], data[n])]
<1>1. N \in Nat /\ st \in [Byte \X (1..N) -> Byte]
  <2>1. \A p \in Byte \X (1..N) : p[1] \in Byte /\ data[p[2]] \in Byte
    OBVIOUS
  <2> QED
    BY <2>1, ByteXorTyped
<1>2. PICK x : Iterates(x, Byte, 0, N, st)
  <2> HIDE DEF st, N
  <2> QED
    BY <1>1, ZeroIsByte, Recursion
<1>3. \A n \in 1..N : x[n] = ByteXor(x[n - 1], data[n])
  <2> SUFFICES ASSUME NEW n \in 1..N PROVE x[n] = ByteXor(x[n - 1], data[n])
    OBVIOUS
  <2>1. <<x[n - 1], n>> \in Byte \X (1..N)
    BY <1>1, <1>2 DEF Iterates
  <2>2. st[<<x[n - 1], n>>] = ByteXor(x[n - 1], data[n])
    BY <2>1
  <2> HIDE DEF st
  <2> QED
    BY <1>2, <2>2 DEF Iterates
<1>4. Eq(x)
  <2>1. x \in [0..N -> Byte]
    BY <1>2 DEF Iterates
  <2>2. \A n \in 0..N : x[n] = IF n = 0 THEN 0 ELSE ByteXor(x[n - 1], data[n])
    <3> HIDE DEF N, st
    <3> QED
      BY <1>1, <1>2, <1>3 DEF Iterates
  <2> HIDE DEF N, st
  <2> QED
    BY <2>1, <2>2
<1>5. ASSUME NEW y, Eq(y) PROVE y = x
  <2>1. \A n \in 0..N : y[n] = x[n]
    <3>1. y[0] = x[0] /\ \A n \in 1..N : y[n - 1] = x[n - 1] => y[n] = x[n]
      BY <1>1, <1>4, <1>5
    <3>3. Follows(y, x, N)
      BY <3>1 DEF Follows
    <3> HIDE DEF N, Eq, st
    <3> QED
      BY <1>1, <3>1, <3>3, SameRun
  <2> QED
    BY <1>4, <1>5, <2>1
<1>6. Running(data) = CHOOSE y : Eq(y)
  BY DEF Running
<1>7. Running(data) = x
  BY <1>4, <1>5, <1>6
<1> QED
  BY <1>1, <1>2, <1>3, <1>7 DEF Iterates

LEMMA WeightDef ==
  /\ Weight \in [0..WordBytes -> Nat \ {0}]
  /\ Weight[0] = 1
  /\ \A k \in 1..WordBytes : Weight[k] = Radix * Weight[k - 1]
<1> DEFINE N == WordBytes
           V == Nat \ {0}
           st == [p \in V \X (1..N) |-> Radix * p[1]]
           Eq(x) == x = [k \in 0..N |-> IF k = 0 THEN 1 ELSE Radix * x[k - 1]]
<1>1. N \in Nat /\ 1 \in V /\ st \in [V \X (1..N) -> V]
  <2>1. \A m \in V : Radix * m \in V
    OBVIOUS
  <2>2. \A p \in V \X (1..N) : p[1] \in V
    OBVIOUS
  <2> HIDE DEF V
  <2> QED
    BY <2>1, <2>2 DEF V
<1>2. PICK x : Iterates(x, V, 1, N, st)
  <2> HIDE DEF st, N, V
  <2> QED
    BY <1>1, Recursion
<1>3. \A k \in 1..N : x[k] = Radix * x[k - 1]
  <2> SUFFICES ASSUME NEW k \in 1..N PROVE x[k] = Radix * x[k - 1]
    OBVIOUS
  <2>1. <<x[k - 1], k>> \in V \X (1..N)
    <3> HIDE DEF st, V
    <3> QED
      BY <1>1, <1>2 DEF Iterates
  <2>2. st[<<x[k - 1], k>>] = Radix * x[k - 1]
    BY <2>1
  <2> HIDE DEF st
  <2> QED
    BY <1>2, <2>2 DEF Iterates
<1>4. Eq(x)
  <2>1. x \in [0..N -> V]
    BY <1>2 DEF Iterates
  <2>2. \A k \in 0..N : x[k] = IF k = 0 THEN 1 ELSE Radix * x[k - 1]
    <3> HIDE DEF N, st, V
    <3> QED
      BY <1>1, <1>2, <1>3 DEF Iterates
  <2> HIDE DEF N, st, V
  <2> QED
    BY <2>1, <2>2
<1>5. ASSUME NEW y, Eq(y) PROVE y = x
  <2>1. \A k \in 0..N : y[k] = x[k]
    <3>1. y[0] = x[0]
      BY <1>1, <1>4, <1>5
    <3>2. ASSUME NEW k \in 1..N, y[k - 1] = x[k - 1] PROVE y[k] = x[k]
      <4>1. k \in 0..N /\ k # 0
        BY <1>1
      <4> HIDE DEF N, st
      <4> QED
        BY <4>1, <3>2, <1>4, <1>5
    <3>3. Follows(y, x, N)
      BY <3>2 DEF Follows
    <3> HIDE DEF N, Eq, st
    <3> QED
      BY <1>1, <3>1, <3>3, SameRun
  <2> QED
    BY <1>4, <1>5, <2>1
<1>6. Weight = CHOOSE y : Eq(y)
  BY DEF Weight
<1>7. Weight = x
  BY <1>4, <1>5, <1>6
<1> QED
  BY <1>1, <1>2, <1>3, <1>7 DEF Iterates

LEMMA WeightNext ==
  ASSUME NEW j \in Nat, j + 1 <= WordBytes
  PROVE  Weight[j] \in Nat /\ Weight[j] > 0 /\ Weight[j + 1] = Radix * Weight[j]
<1>1. j \in 0..WordBytes /\ j + 1 \in 1..WordBytes /\ (j + 1) - 1 = j
  OBVIOUS
<1>2. Weight[j] \in Nat \ {0}
  BY <1>1, WeightDef
<1>3. Weight[j + 1] = Radix * Weight[(j + 1) - 1]
  BY <1>1, WeightDef
<1> QED
  BY <1>1, <1>2, <1>3

LEMMA OfLastDef ==
  ASSUME NEW w \in Seq(Byte)
  PROVE  /\ OfLast(w) \in [0 .. Len(w) -> Nat]
         /\ OfLast(w)[0] = 0
         /\ \A k \in 1 .. Len(w) : OfLast(w)[k] = w[Len(w) - k + 1] + Radix * OfLast(w)[k - 1]
<1> DEFINE N == Len(w)
           st == [p \in Nat \X (1..N) |-> w[N - p[2] + 1] + Radix * p[1]]
           Eq(x) == x = [k \in 0..N |-> IF k = 0 THEN 0 ELSE w[N - k + 1] + Radix * x[k - 1]]
<1>1. N \in Nat /\ st \in [Nat \X (1..N) -> Nat]
  <2>1. \A k \in 1..N : w[N - k + 1] \in Nat
    BY DEF Byte
  <2>2. \A m \in Nat : Radix * m \in Nat
    OBVIOUS
  <2>3. \A p \in Nat \X (1..N) : w[N - p[2] + 1] + Radix * p[1] \in Nat
    BY <2>1, <2>2
  <2> QED
    BY <2>3
<1>2. PICK x : Iterates(x, Nat, 0, N, st)
  <2> HIDE DEF st, N
  <2> QED
    BY <1>1, Recursion
<1>3. \A k \in 1..N : x[k] = w[N - k + 1] + Radix * x[k - 1]
  <2> SUFFICES ASSUME NEW k \in 1..N PROVE x[k] = w[N - k + 1] + Radix * x[k - 1]
    OBVIOUS
  <2>1. <<x[k - 1], k>> \in Nat \X (1..N)
    <3> HIDE DEF st, N
    <3> QED
      BY <1>1, <1>2 DEF Iterates
  <2>2. st[<<x[k - 1], k>>] = w[N - k + 1] + Radix * x[k - 1]
    BY <2>1
  <2> HIDE DEF st
  <2> QED
    BY <1>2, <2>2 DEF Iterates
<1>4. Eq(x)
  <2>1. x \in [0..N -> Nat]
    BY <1>2 DEF Iterates
  <2>2. \A k \in 0..N : x[k] = IF k = 0 THEN 0 ELSE w[N - k + 1] + Radix * x[k - 1]
    <3> HIDE DEF N, st
    <3> QED
      BY <1>1, <1>2, <1>3 DEF Iterates
  <2> HIDE DEF N, st
  <2> QED
    BY <2>1, <2>2
<1>5. ASSUME NEW y, Eq(y) PROVE y = x
  <2>1. \A k \in 0..N : y[k] = x[k]
    <3>1. y[0] = x[0]
      BY <1>1, <1>4, <1>5
    <3>2. ASSUME NEW k \in 1..N, y[k - 1] = x[k - 1] PROVE y[k] = x[k]
      <4>1. k \in 0..N /\ k # 0
        BY <1>1
      <4> HIDE DEF N, st
      <4> QED
        BY <4>1, <3>2, <1>4, <1>5
    <3>3. Follows(y, x, N)
      BY <3>2 DEF Follows
    <3> HIDE DEF N, Eq, st
    <3> QED
      BY <1>1, <3>1, <3>3, SameRun
  <2> QED
    BY <1>4, <1>5, <2>1
<1>6. OfLast(w) = CHOOSE y : Eq(y)
  BY DEF OfLast
<1>7. OfLast(w) = x
  BY <1>4, <1>5, <1>6
<1> QED
  BY <1>1, <1>2, <1>3, <1>7 DEF Iterates

-----------------------------------------------------------------------------
(* The size survives the way from struct.pack to x20. *)
LEMMA DivMod ==
  ASSUME NEW q \in Nat, NEW r \in Nat, r > 0
  PROVE  q = (q % r) + r * (q \div r) /\ q \div r \in Nat /\ q % r \in 0 .. r - 1
  OBVIOUS

LEMMA DivDiv ==
  ASSUME NEW n \in Nat, NEW r \in Nat, NEW p \in Nat, r > 0, p > 0
  PROVE  n \div (r * p) = (n \div p) \div r
  BY DivMod

LEMMA NextDigit ==
  ASSUME NEW b \in Nat, NEW v \in Nat, NEW p \in Nat, b < Radix, v < p
  PROVE  b + Radix * v < Radix * p
<1>1. v + 1 <= p
  OBVIOUS
<1>2. Radix * (v + 1) <= Radix * p
  BY <1>1
<1>3. Radix * (v + 1) = Radix * v + Radix
  OBVIOUS
<1> QED
  BY <1>2, <1>3

LEMMA WordMaxTyped == WordMax \in Nat
  BY WeightDef DEF WordMax

LEMMA ValueInRange ==
  ASSUME NEW w \in Seq(Byte), Len(w) = WordBytes
  PROVE  Value(w) \in 0 .. WordMax - 1
<1> DEFINE v == OfLast(w)
           S == {k \in Nat : k <= WordBytes => v[k] < Weight[k]}
<1>1. 0 \in S
  <2>1. v[0] = 0 /\ Weight[0] = 1
    BY OfLastDef, WeightDef
  <2> HIDE DEF v
  <2> QED
    BY <2>1
<1>2. ASSUME NEW k \in Nat, k \in S PROVE k + 1 \in S
  <2> SUFFICES ASSUME k + 1 <= WordBytes PROVE v[k + 1] < Weight[k + 1]
    OBVIOUS
  <2>1. v[k] < Weight[k] /\ v[k] \in Nat /\ Weight[k] \in Nat
    <3>1. k \in 0..WordBytes
      OBVIOUS
    <3>2. v \in [0..WordBytes -> Nat]
      BY OfLastDef
    <3> QED
      BY <1>2, <3>1, <3>2, WeightDef
  <2>2. w[WordBytes - k] \in Nat /\ w[WordBytes - k] < Radix
    BY DEF Byte
  <2>3. v[k + 1] = w[WordBytes - k] + Radix * v[k]
    BY OfLastDef
  <2>4. Weight[k + 1] = Radix * Weight[k]
    BY WeightDef
  <2> HIDE DEF v
  <2> QED
    BY <2>1, <2>2, <2>3, <2>4, NextDigit
<1>3. v[WordBytes] < Weight[WordBytes] /\ v[WordBytes] \in Nat
  <2>1. WordBytes \in S
    <3> HIDE DEF S
    <3> QED
      BY <1>1, <1>2, NatInduct
  <2> QED
    BY <2>1, OfLastDef
<1> QED
  BY <1>3, WordMaxTyped DEF Value, WordMax

LEMMA SizeBytesTyped ==
  ASSUME NEW n \in Nat
  PROVE  SizeBytes(n) \in Seq(Byte) /\ Len(SizeBytes(n)) = WordBytes
<1>1. ASSUME NEW k \in 1..WordBytes PROVE (n \div Weight[k - 1]) % Radix \in Byte
  <2>1. Weight[k - 1] \in Nat /\ Weight[k - 1] > 0
    <3>1. k - 1 \in Nat /\ (k - 1) + 1 <= WordBytes
      OBVIOUS
    <3> QED
      BY <3>1, WeightNext
  <2>2. n \div Weight[k - 1] \in Nat
    BY <2>1, DivMod
  <2> QED
    BY <2>2, DivMod DEF Byte
<1> QED
  BY <1>1 DEF SizeBytes

LEMMA ValueOfSize ==
  ASSUME NEW n \in 0 .. WordMax - 1
  PROVE  Value(SizeBytes(n)) = n
<1> DEFINE w == SizeBytes(n)
           v == OfLast(w)
           S == {k \in Nat : k <= WordBytes => v[k] = n \div Weight[WordBytes - k]}
<1>0. n \in Nat /\ n < WordMax
  BY WordMaxTyped
<1>1. 0 \in S
  <2>1. Weight[WordBytes] \in Nat /\ n < Weight[WordBytes]
    BY <1>0, WeightDef DEF WordMax
  <2>2. n \div Weight[WordBytes] = 0
    BY <1>0, <2>1
  <2> QED
    BY <1>0, <2>2, OfLastDef, SizeBytesTyped
<1>2. ASSUME NEW k \in Nat, k \in S PROVE k + 1 \in S
  <2> DEFINE j == WordBytes - (k + 1)
  <2> SUFFICES ASSUME k + 1 <= WordBytes PROVE v[k + 1] = n \div Weight[j]
    OBVIOUS
  <2>1. j \in Nat /\ j + 1 = WordBytes - k /\ j + 1 \in 1..WordBytes
    OBVIOUS
  <2>2. v[k] = n \div Weight[j + 1]
    BY <1>2, <2>1
  <2>3. Weight[j] \in Nat /\ Weight[j] > 0 /\ Weight[j + 1] = Radix * Weight[j]
    <3>1. j + 1 <= WordBytes
      BY <2>1
    <3> HIDE DEF j
    <3> QED
      BY <2>1, <3>1, WeightNext
  <2>4. v[k + 1] = w[j + 1] + Radix * v[k]
    <3>1. w \in Seq(Byte) /\ Len(w) = WordBytes
      BY <1>0, SizeBytesTyped
    <3>2. k + 1 \in 1..Len(w) /\ Len(w) - (k + 1) + 1 = j + 1 /\ (k + 1) - 1 = k
      BY <3>1
    <3> HIDE DEF w, j
    <3> QED
      BY <3>1, <3>2, OfLastDef
  <2>5. w[j + 1] = (n \div Weight[j]) % Radix
    BY <2>1 DEF SizeBytes
  <2>6. v[k] = (n \div Weight[j]) \div Radix
    BY <1>0, <2>2, <2>3, DivDiv
  <2>7. n \div Weight[j] \in Nat
    BY <1>0, <2>3, DivMod
  <2> DEFINE q == n \div Weight[j]
  <2>8. q = (q % Radix) + Radix * (q \div Radix)
    <3>1. q \in Nat
      BY <2>7
    <3> HIDE DEF q
    <3> QED
      BY <3>1, DivMod
  <2> HIDE DEF v, w, j
  <2> QED
    BY <2>4, <2>5, <2>6, <2>8
<1>3. v[WordBytes] = n \div Weight[0]
  <2>1. WordBytes \in S
    <3> HIDE DEF S
    <3> QED
      BY <1>1, <1>2, NatInduct
  <2> QED
    BY <2>1
<1>4. n \div Weight[0] = n
  BY <1>0, WeightDef
<1> QED
  BY <1>0, <1>3, <1>4, SizeBytesTyped DEF Value

-----------------------------------------------------------------------------
(* The bytes of an upload, and where each of the loader's writes ends in     *)
(* them.                                                                     *)
StreamOf(data) == SizeBytes(Len(data)) \o data \o <<Checksum(data)>>

Ends(data, j) ==
  IF j = 0 THEN 0
  ELSE IF j = Len(Writes(data)) THEN WordBytes + Len(data) + 1
  ELSE WordBytes + Min({ChunkSize * (j - 1), Len(data)})

LEMMA PadTyped ==
  ASSUME NEW b \in Binaries
  PROVE  /\ PadToWord(b) \in Seq(Byte)
         /\ Len(PadToWord(b)) \in 0 .. WordMax - 1
         /\ Len(PadToWord(b)) <= WordBytes * MemWords
         /\ \E m \in Nat : Len(PadToWord(b)) = WordBytes * m
<1> DEFINE L == Len(b)
           r == L % WordBytes
           q == L \div WordBytes
           short == (WordBytes - r) % WordBytes
           pad == [i \in 1..short |-> 0]
<1>1. b \in Seq(Byte) /\ L \in Nat
  BY BootLinkAssumption
<1>2. L = r + WordBytes * q /\ q \in Nat /\ r \in 0 .. WordBytes - 1
  BY <1>1, DivMod
<1>3. short = IF r = 0 THEN 0 ELSE WordBytes - r
  BY <1>2
<1>4. short \in Nat
  BY <1>2, <1>3
<1>5. pad \in Seq(Byte) /\ Len(pad) = short
  <2> HIDE DEF short
  <2> QED
    BY <1>4, ZeroIsByte
<1>6. PadToWord(b) = b \o pad
  BY DEF PadToWord
<1>7. PadToWord(b) \in Seq(Byte) /\ Len(PadToWord(b)) = L + short
  <2>1. b \o pad \in Seq(Byte) /\ Len(b \o pad) = Len(b) + Len(pad)
    <3> HIDE DEF pad
    <3> QED
      BY <1>1, <1>5
  <2> HIDE DEF pad, short
  <2> QED
    BY <2>1, <1>5, <1>6
<1>8. \E m \in Nat : L + short = WordBytes * m
  <2>1. CASE r = 0
    <3>1. L + short = WordBytes * q
      BY <2>1, <1>2, <1>3
    <3> HIDE DEF q, short, L
    <3> QED
      BY <3>1, <1>2
  <2>2. CASE r # 0
    <3>1. L + short = WordBytes * q + WordBytes
      BY <2>2, <1>2, <1>3
    <3>2. WordBytes * q + WordBytes = WordBytes * (q + 1) /\ q + 1 \in Nat
      BY <1>2
    <3> HIDE DEF q, short, L
    <3> QED
      BY <3>1, <3>2
  <2> QED
    BY <2>1, <2>2
<1>9. Len(PadToWord(b)) <= WordBytes * MemWords /\ WordBytes * MemWords < WordMax
  BY BootLinkAssumption
<1>10. Len(PadToWord(b)) \in Nat
  BY <1>7
<1>11. Len(PadToWord(b)) \in 0 .. WordMax - 1
  BY <1>9, <1>10, WordMaxTyped
<1>12. \E m \in Nat : Len(PadToWord(b)) = WordBytes * m
  BY <1>7, <1>8
<1> QED
  BY <1>7, <1>9, <1>11, <1>12

LEMMA ChecksumTyped == ASSUME NEW data \in Seq(Byte) PROVE Checksum(data) \in Byte
  BY RunningDef DEF Checksum

LEMMA StreamAt ==
  ASSUME NEW data \in Seq(Byte)
  PROVE  /\ StreamOf(data) \in Seq(Byte)
         /\ Len(StreamOf(data)) = WordBytes + Len(data) + 1
         /\ \A i \in 1..WordBytes : StreamOf(data)[i] = SizeBytes(Len(data))[i]
         /\ \A i \in 1..Len(data) : StreamOf(data)[WordBytes + i] = data[i]
         /\ StreamOf(data)[WordBytes + Len(data) + 1] = Checksum(data)
<1> DEFINE s == SizeBytes(Len(data))
           c == Checksum(data)
<1>1. s \in Seq(Byte) /\ Len(s) = WordBytes
  BY SizeBytesTyped
<1>2. c \in Byte /\ <<c>> \in Seq(Byte) /\ Len(<<c>>) = 1 /\ <<c>>[1] = c
  BY ChecksumTyped
<1>3. StreamOf(data) = s \o data \o <<c>>
  BY DEF StreamOf
<1> HIDE DEF s, c
<1>4. /\ s \o data \in Seq(Byte) /\ Len(s \o data) = WordBytes + Len(data)
      /\ \A i \in 1..WordBytes : (s \o data)[i] = s[i]
      /\ \A i \in 1..Len(data) : (s \o data)[WordBytes + i] = data[i]
  BY <1>1
<1> DEFINE t == s \o data
<1>5. /\ t \o <<c>> \in Seq(Byte) /\ Len(t \o <<c>>) = Len(t) + 1
      /\ \A i \in 1..Len(t) : (t \o <<c>>)[i] = t[i]
      /\ (t \o <<c>>)[Len(t) + 1] = c
  <2>1. t \in Seq(Byte)
    BY <1>4
  <2> HIDE DEF t
  <2> QED
    BY <2>1, <1>2
<1> QED
  BY <1>3, <1>4, <1>5 DEF s, c

LEMMA MinOfTwo ==
  ASSUME NEW a \in Int, NEW b \in Int
  PROVE  Min({a, b}) = IF a <= b THEN a ELSE b
<1>1. \E x \in {a, b} : \A y \in {a, b} : x <= y
  OBVIOUS
<1> QED
  BY <1>1 DEF Min

\* How many chunks, and that each but the last is full.
LEMMA ChunkCount ==
  ASSUME NEW data \in Seq(Byte), NEW n, n = (Len(data) + ChunkSize - 1) \div ChunkSize
  PROVE  /\ n \in Nat
         /\ ChunkSize * n >= Len(data)
         /\ \A k \in 1..n : ChunkSize * (k - 1) \in Nat /\ ChunkSize * (k - 1) < Len(data)
         /\ \A k \in 1..n : ChunkSize * k \in Nat /\ ChunkSize * k = ChunkSize * (k - 1) + ChunkSize
<1> DEFINE q == Len(data) + ChunkSize - 1
<1>1. q \in Nat /\ n = q \div ChunkSize
  OBVIOUS
<1>2. q = (q % ChunkSize) + ChunkSize * n /\ n \in Nat /\ q % ChunkSize \in 0 .. ChunkSize - 1
  <2> HIDE DEF q
  <2> QED
    BY <1>1, DivMod
<1>3. ChunkSize * n \in Nat /\ ChunkSize * n >= Len(data) /\ ChunkSize * n <= Len(data) + ChunkSize - 1
  BY <1>2
<1>4. ASSUME NEW k \in 1..n
      PROVE  /\ ChunkSize * (k - 1) \in Nat /\ ChunkSize * (k - 1) < Len(data)
             /\ ChunkSize * k \in Nat /\ ChunkSize * k = ChunkSize * (k - 1) + ChunkSize
  <2>1. ChunkSize * k \in Nat /\ ChunkSize * (k - 1) \in Nat /\ ChunkSize * k = ChunkSize * (k - 1) + ChunkSize
    BY <1>2
  <2>2. ChunkSize * k <= ChunkSize * n
    BY <1>2
  <2> QED
    BY <2>1, <2>2, <1>3
<1> QED
  BY <1>2, <1>3, <1>4

LEMMA ChunksTyped ==
  ASSUME NEW data \in Seq(Byte), NEW n, n = (Len(data) + ChunkSize - 1) \div ChunkSize
  PROVE  /\ Chunks(data) \in Seq(Seq(Byte)) /\ Len(Chunks(data)) = n
         /\ \A k \in 1..n : \A last \in Nat :
              last = Min({ChunkSize * k, Len(data)}) =>
                /\ Chunks(data)[k] \in Seq(Byte)
                /\ Len(Chunks(data)[k]) = last - ChunkSize * (k - 1)
                /\ \A i \in 1..Len(Chunks(data)[k]) : Chunks(data)[k][i] = data[ChunkSize * (k - 1) + i]
<1> DEFINE chunk(k) == SubSeq(data, (k - 1) * ChunkSize + 1, Min({k * ChunkSize, Len(data)}))
<1>1. n \in Nat
  BY ChunkCount
<1>2. ASSUME NEW k \in 1..n, NEW last \in Nat, last = Min({ChunkSize * k, Len(data)})
      PROVE  /\ chunk(k) \in Seq(Byte)
             /\ Len(chunk(k)) = last - ChunkSize * (k - 1)
             /\ \A i \in 1..Len(chunk(k)) : chunk(k)[i] = data[ChunkSize * (k - 1) + i]
  <2> DEFINE from == ChunkSize * (k - 1)
  <2>1. from \in Nat /\ from < Len(data) /\ ChunkSize * k \in Nat /\ ChunkSize * k = from + ChunkSize
    BY ChunkCount
  <2>2. last = IF ChunkSize * k <= Len(data) THEN ChunkSize * k ELSE Len(data)
    BY <1>2, <2>1, MinOfTwo
  <2>3. from < last /\ last <= Len(data)
    BY <2>1, <2>2
  <2>4. (k - 1) * ChunkSize + 1 = from + 1 /\ k * ChunkSize = ChunkSize * k
    BY <1>1
  <2>5. chunk(k) = SubSeq(data, from + 1, last)
    BY <1>2, <2>4
  <2>6. \A i \in (from + 1)..last : data[i] \in Byte
    BY <2>1, <2>3
  <2> HIDE DEF from, chunk
  <2>7. /\ SubSeq(data, from + 1, last) \in Seq(Byte)
        /\ Len(SubSeq(data, from + 1, last)) = last - from
        /\ \A i \in 1..(last - from) : SubSeq(data, from + 1, last)[i] = data[from + i]
    BY <2>1, <2>3, <2>6
  <2> QED
    BY <2>5, <2>7 DEF from
<1>3. Chunks(data) = [k \in 1..n |-> chunk(k)]
  BY DEF Chunks
<1>4. \A k \in 1..n : chunk(k) \in Seq(Byte)
  <2> SUFFICES ASSUME NEW k \in 1..n PROVE chunk(k) \in Seq(Byte)
    OBVIOUS
  <2>1. Min({ChunkSize * k, Len(data)}) \in Nat
    <3>1. ChunkSize * k \in Nat /\ Len(data) \in Nat
      BY ChunkCount
    <3> QED
      BY <3>1, MinOfTwo
  <2> HIDE DEF chunk
  <2> QED
    BY <1>2, <2>1
<1>5. Chunks(data) \in Seq(Seq(Byte)) /\ Len(Chunks(data)) = n /\ \A k \in 1..n : Chunks(data)[k] = chunk(k)
  <2> HIDE DEF chunk
  <2> QED
    BY <1>1, <1>3, <1>4
<1> HIDE DEF chunk
<1> QED
  BY <1>2, <1>5

LEMMA WritesTyped ==
  ASSUME NEW data \in Seq(Byte), NEW n, n = (Len(data) + ChunkSize - 1) \div ChunkSize
  PROVE  /\ Writes(data) \in Seq(Seq(Byte)) /\ Len(Writes(data)) = n + 2 /\ n \in Nat
         /\ Writes(data)[1] = SizeBytes(Len(data))
         /\ \A k \in 1..n : Writes(data)[k + 1] = Chunks(data)[k]
         /\ Writes(data)[n + 2] = <<Checksum(data)>>
<1> DEFINE s == <<SizeBytes(Len(data))>>
           c == <<<<Checksum(data)>>>>
           m == Chunks(data)
<1>1. n \in Nat
  BY ChunkCount
<1>2. s \in Seq(Seq(Byte)) /\ Len(s) = 1 /\ s[1] = SizeBytes(Len(data))
  BY SizeBytesTyped
<1>3. c \in Seq(Seq(Byte)) /\ Len(c) = 1 /\ c[1] = <<Checksum(data)>>
  BY ChecksumTyped
<1>4. m \in Seq(Seq(Byte)) /\ Len(m) = n
  BY ChunksTyped
<1>5. Writes(data) = s \o m \o c
  BY DEF Writes
<1> HIDE DEF s, c, m
<1> DEFINE t == s \o m
<1>6. /\ t \in Seq(Seq(Byte)) /\ Len(t) = n + 1 /\ t[1] = s[1]
      /\ \A k \in 1..n : t[k + 1] = m[k]
  <2>1. /\ t \in Seq(Seq(Byte)) /\ Len(t) = Len(s) + Len(m)
        /\ \A i \in 1 .. Len(s) + Len(m) : t[i] = IF i <= Len(s) THEN s[i] ELSE m[i - Len(s)]
    BY <1>2, <1>4, ConcatProperties
  <2> HIDE DEF t
  <2>2. ASSUME NEW k \in 1..n PROVE t[k + 1] = m[k]
    <3>1. k + 1 \in 1 .. Len(s) + Len(m) /\ ~(k + 1 <= Len(s)) /\ (k + 1) - Len(s) = k
      BY <1>1, <1>2, <1>4
    <3> QED
      BY <2>1, <3>1
  <2> QED
    BY <2>1, <2>2, <1>1, <1>2, <1>4
<1>7. Writes(data) = t \o c
  BY <1>5
<1> HIDE DEF t
<1>8. /\ t \o c \in Seq(Seq(Byte)) /\ Len(t \o c) = n + 2
      /\ \A k \in 1..(n + 1) : (t \o c)[k] = t[k]
      /\ (t \o c)[n + 2] = c[1]
  <2> DEFINE u == t \o c
  <2>1. /\ u \in Seq(Seq(Byte)) /\ Len(u) = Len(t) + Len(c)
        /\ \A i \in 1 .. Len(t) + Len(c) : u[i] = IF i <= Len(t) THEN t[i] ELSE c[i - Len(t)]
    BY <1>3, <1>6, ConcatProperties
  <2> HIDE DEF u
  <2>2. u[n + 2] = c[1]
    <3>1. n + 2 \in 1 .. Len(t) + Len(c) /\ ~(n + 2 <= Len(t)) /\ (n + 2) - Len(t) = 1
      BY <1>1, <1>3, <1>6
    <3> QED
      BY <2>1, <3>1
  <2>3. u \in Seq(Seq(Byte)) /\ Len(u) = n + 2 /\ \A k \in 1..(n + 1) : u[k] = t[k]
    BY <2>1, <1>1, <1>3, <1>6
  <2> QED
    BY <2>2, <2>3 DEF u
<1> QED
  BY <1>1, <1>2, <1>3, <1>6, <1>7, <1>8 DEF m

\* The write carries on where the one before it ended.
CarriesOn(data, j) ==
  /\ Ends(data, j - 1) \in Nat /\ Ends(data, j) \in Nat
  /\ Writes(data)[j] \in Seq(Byte)
  /\ Ends(data, j - 1) + Len(Writes(data)[j]) = Ends(data, j)
  /\ \A i \in 1..Len(Writes(data)[j]) : Writes(data)[j][i] = StreamOf(data)[Ends(data, j - 1) + i]
  /\ Ends(data, j - 1) <= WordBytes + Len(data)

LEMMA WriteAt ==
  ASSUME NEW data \in Seq(Byte), NEW j \in 1..Len(Writes(data))
  PROVE  CarriesOn(data, j)
<1> DEFINE n == (Len(data) + ChunkSize - 1) \div ChunkSize
<1>1. Len(Writes(data)) = n + 2 /\ n \in Nat
  BY WritesTyped
<1>2. Len(data) \in Nat
  OBVIOUS
<1>3. CASE j = 1
  <2>1. Ends(data, 0) = 0
    BY DEF Ends
  <2>2. Ends(data, 1) = WordBytes
    <3>1. ChunkSize * (1 - 1) = 0
      OBVIOUS
    <3>2. Min({ChunkSize * (1 - 1), Len(data)}) = 0
      BY <1>2, <3>1, MinOfTwo
    <3> QED
      BY <1>1, <3>2 DEF Ends
  <2>3. Writes(data)[1] = SizeBytes(Len(data))
    BY WritesTyped
  <2>4. SizeBytes(Len(data)) \in Seq(Byte) /\ Len(SizeBytes(Len(data))) = WordBytes
    BY <1>2, SizeBytesTyped
  <2>5. \A i \in 1..WordBytes : StreamOf(data)[i] = SizeBytes(Len(data))[i]
    BY StreamAt
  <2>6. \A i \in 1..WordBytes : 0 + i = i
    OBVIOUS
  <2>7. 1 - 1 = 0
    OBVIOUS
  <2> QED
    BY <1>2, <1>3, <2>1, <2>2, <2>3, <2>4, <2>5, <2>6, <2>7 DEF CarriesOn
<1>4. CASE j \in 2..(n + 1)
  <2> DEFINE k == j - 1
             from == ChunkSize * (k - 1)
             last == Min({ChunkSize * k, Len(data)})
  <2>1. k \in 1..n /\ j = k + 1
    BY <1>1, <1>4
  <2>2. from \in Nat /\ from < Len(data) /\ ChunkSize * k \in Nat /\ ChunkSize * k = from + ChunkSize
    BY <2>1, ChunkCount
  <2>3. last \in Nat /\ from < last /\ last <= Len(data)
    <3>1. last = IF ChunkSize * k <= Len(data) THEN ChunkSize * k ELSE Len(data)
      BY <1>2, <2>2, MinOfTwo
    <3> HIDE DEF from, last, k
    <3> QED
      BY <1>2, <2>2, <3>1
  <2>4. Ends(data, j) = WordBytes + last
    <3>1. j # 0 /\ j # n + 2
      BY <1>1, <1>4
    <3> HIDE DEF n
    <3> QED
      BY <1>1, <3>1 DEF Ends
  <2>5. Ends(data, j - 1) = WordBytes + from
    <3>1. j - 1 # 0 /\ j - 1 # n + 2
      BY <1>1, <1>4
    <3>2. Min({from, Len(data)}) = from
      BY <1>2, <2>2, MinOfTwo
    <3> HIDE DEF n
    <3> QED
      BY <1>1, <3>1, <3>2 DEF Ends
  <2>6. Writes(data)[j] = Chunks(data)[k]
    BY <2>1, WritesTyped
  <2>7. /\ Chunks(data)[k] \in Seq(Byte)
        /\ Len(Chunks(data)[k]) = last - from
        /\ \A i \in 1..Len(Chunks(data)[k]) : Chunks(data)[k][i] = data[from + i]
    BY <2>1, <2>3, ChunksTyped
  <2>8. ASSUME NEW i \in 1..Len(Chunks(data)[k])
        PROVE  Chunks(data)[k][i] = StreamOf(data)[WordBytes + from + i]
    <3>1. from + i \in 1..Len(data) /\ WordBytes + from + i = WordBytes + (from + i)
      BY <2>2, <2>3, <2>7
    <3>2. Chunks(data)[k][i] = data[from + i]
      BY <2>7
    <3>3. StreamOf(data)[WordBytes + (from + i)] = data[from + i]
      BY <3>1, StreamAt
    <3> QED
      BY <3>1, <3>2, <3>3
  <2> HIDE DEF k, from, last
  <2>9. /\ Ends(data, j - 1) \in Nat /\ Ends(data, j) \in Nat
        /\ Ends(data, j - 1) + (last - from) = Ends(data, j)
        /\ Ends(data, j - 1) <= WordBytes + Len(data)
    BY <1>2, <2>2, <2>3, <2>4, <2>5
  <2>10. /\ Writes(data)[j] \in Seq(Byte) /\ Len(Writes(data)[j]) = last - from
         /\ \A i \in 1..Len(Writes(data)[j]) : Writes(data)[j][i] = StreamOf(data)[Ends(data, j - 1) + i]
    BY <2>5, <2>6, <2>7, <2>8
  <2> QED
    BY <2>9, <2>10 DEF CarriesOn
<1>5. CASE j = n + 2
  <2>1. Ends(data, j) = WordBytes + Len(data) + 1
    BY <1>1, <1>5 DEF Ends
  <2>2. Ends(data, j - 1) = WordBytes + Len(data)
    <3>1. j - 1 # 0 /\ j - 1 # n + 2 /\ (j - 1) - 1 = n
      BY <1>1, <1>5
    <3>2. ChunkSize * n \in Nat /\ ChunkSize * n >= Len(data)
      BY <1>1, ChunkCount
    <3>3. Min({ChunkSize * n, Len(data)}) = Len(data)
      BY <1>2, <3>2, MinOfTwo
    <3> HIDE DEF n
    <3> QED
      BY <1>1, <3>1, <3>3 DEF Ends
  <2>3. Writes(data)[j] = <<Checksum(data)>>
    BY <1>5, WritesTyped
  <2>4. <<Checksum(data)>> \in Seq(Byte) /\ Len(<<Checksum(data)>>) = 1
    BY ChecksumTyped
  <2>5. StreamOf(data)[WordBytes + Len(data) + 1] = Checksum(data)
    BY StreamAt
  <2> QED
    BY <1>2, <2>1, <2>2, <2>3, <2>4, <2>5 DEF CarriesOn
<1>6. j = 1 \/ j \in 2..(n + 1) \/ j = n + 2
  <2> HIDE DEF n
  <2> QED
    BY <1>1
<1> QED
  BY <1>3, <1>4, <1>5, <1>6

LEMMA EndsInRange ==
  ASSUME NEW data \in Seq(Byte), NEW j \in 0..Len(Writes(data))
  PROVE  /\ Ends(data, j) \in 0 .. WordBytes + Len(data) + 1
         /\ Ends(data, 0) = 0
         /\ Ends(data, Len(Writes(data))) = WordBytes + Len(data) + 1
         /\ j < Len(Writes(data)) => Ends(data, j) <= WordBytes + Len(data)
<1> DEFINE n == Len(Writes(data))
<1>1. n \in Nat /\ n > 1
  BY WritesTyped
<1>2. Ends(data, 0) = 0 /\ Ends(data, n) = WordBytes + Len(data) + 1
  BY <1>1 DEF Ends
<1>3. j < n => Ends(data, j) \in Nat /\ Ends(data, j) <= WordBytes + Len(data)
  <2> SUFFICES ASSUME j < n PROVE Ends(data, j) \in Nat /\ Ends(data, j) <= WordBytes + Len(data)
    OBVIOUS
  <2>1. j + 1 \in 1..n /\ (j + 1) - 1 = j
    BY <1>1
  <2>2. CarriesOn(data, j + 1)
    BY <2>1, WriteAt
  <2> QED
    BY <2>1, <2>2 DEF CarriesOn
<1>4. Len(data) \in Nat
  OBVIOUS
<1>5. j < n \/ j = n
  BY <1>1
<1> HIDE DEF n
<1>6. Ends(data, j) \in 0 .. WordBytes + Len(data) + 1
  BY <1>2, <1>3, <1>4, <1>5
<1> QED
  BY <1>2, <1>3, <1>6 DEF n

-----------------------------------------------------------------------------
(* The invariant.  Data is what the loader sends of its file, Written how    *)
(* many bytes of its stream are out of its hands, Consumed how many of those *)
(* are off the line.                                                         *)
Data     == PadToWord(binary)
Made     == Len(Writes(Data)) - Len(out)
Written  == Ends(Data, Made)
Consumed == Written - Len(line)

OutTyped == out \in Seq(Seq(Byte))

\* What the loader has still to write is the end of what it has to write.
OutInv ==
  /\ loader = "write" => /\ Len(out) \in 1..Len(Writes(Data))
                         /\ \A i \in 1..Len(out) : out[i] = Writes(Data)[Made + i]
  /\ loader # "write" => out = <<>>

PcInv ==
  /\ pc \notin {"size", "data"} => word = <<>>
  /\ pc \in {"ready", "size"} => dest = 0

\* While the loader waits for a ready byte nothing is under way to the
\* bootloader, and once it has sent one it can send nothing else.
ReadyInv ==
  loader = "await_ready" =>
    /\ line = <<>> /\ lost = 0
    /\ \A i, j \in 1..Len(replies) : i < j /\ replies[i] = "ready" => replies[j] = "ready"
    /\ (\E i \in 1..Len(replies) : replies[i] = "ready") =>
         pc = "ready" \/ (pc = "size" /\ word = <<>>)

\* The words that are complete within the first n bytes are in memory.
Stored(data, n) ==
  \A i \in 0 .. MemWords - 1 : WordBytes * (i + 1) <= n =>
    \A k \in 1..WordBytes : mem[i][k] = data[WordBytes * i + k]

\* The bootloader is where the first c bytes of the upload bring it.
BootAt(data, c) ==
  /\ c \in 0 .. WordBytes + Len(data) + 1
  /\ \A i \in 1..Len(word) : word[i] = StreamOf(data)[c - Len(word) + i]
  /\ \/ pc = "size" /\ c = Len(word)
     \/ /\ pc \in {"data", "checksum"}
        /\ c = WordBytes + WordBytes * dest + Len(word)
        /\ left + WordBytes * dest = Len(data) /\ pc = Loop(left)
        /\ acc = Running(data)[c - WordBytes]
        /\ Stored(data, WordBytes * dest)
     \/ pc = "ok" /\ c = WordBytes + Len(data) + 1 /\ Stored(data, Len(data))

LineIs(data, c) == \A i \in 1..Len(line) : line[i] = StreamOf(data)[c + i]

\* An upload no byte of which was missed: the bootloader is about to send a
\* ready byte, follows the upload, has sent a ready byte in its midst, or has
\* loaded the program and said so.  The first reply decides what the loader
\* reports, so that a bootloader that started again can do no harm.
Spoiling  == replies = <<>> /\ pc = "ready"
Following == replies = <<>> /\ BootAt(Data, Consumed) /\ LineIs(Data, Consumed)
Spoiled   == replies # <<>> /\ Head(replies) = "ready"
Accepted  == /\ replies # <<>> /\ Head(replies) = "ok"
             /\ line = <<>> /\ out = <<>> /\ Stored(Data, Len(Data))

Clean ==
  lost = 0 /\ loader \in {"write", "await_response"} =>
    Spoiling \/ Following \/ Spoiled \/ Accepted

\* No more bytes come to the bootloader between two starts than those of one
\* upload: an upload begins with the ready byte of a start.
Received == IF pc \in {"ready", "size"} THEN Len(word)
            ELSE WordBytes + WordBytes * dest + Len(word)
Coming   == IF loader = "write" THEN WordBytes + Len(Data) + 1 - Written ELSE 0
Count    == Received + Len(line) + Coming <= WordBytes + WordBytes * MemWords + 1

IInv == TypeOK /\ OutTyped /\ OutInv /\ PcInv /\ ReadyInv /\ Clean /\ Count

-----------------------------------------------------------------------------
(* The bootloader's steps. *)
LEMMA WordTyped ==
  ASSUME NEW w
  PROVE  w \in UNION {[1..n -> Byte] : n \in 0 .. WordBytes - 1}
           <=> w \in Seq(Byte) /\ Len(w) \in 0 .. WordBytes - 1
<1>1. ASSUME NEW n \in 0 .. WordBytes - 1, w \in [1..n -> Byte]
      PROVE  w \in Seq(Byte) /\ Len(w) = n
  BY <1>1, SeqDef
<1>2. ASSUME w \in Seq(Byte), Len(w) \in 0 .. WordBytes - 1
      PROVE  w \in [1..Len(w) -> Byte]
  BY <1>2, LenProperties
<1> QED
  BY <1>1, <1>2

PcTyped   == pc \in Receiving \cup Sending \cup Done
WordInv   == word \in Seq(Byte) /\ Len(word) \in 0 .. WordBytes - 1
RestTyped == left \in 0 .. WordMax - 1 /\ acc \in Byte /\ mem \in [0 .. MemWords - 1 -> Word]

LEMMA BootTyped ==
  BootTypeOK <=> PcTyped /\ WordInv /\ RestTyped /\ dest \in 0..MemWords
  BY WordTyped DEF BootTypeOK, PcTyped, WordInv, RestTyped

\* In a row of at most so many bytes the bootloader cannot leave the memory.
LEMMA DestInMemory ==
  ASSUME NEW d \in Nat, WordBytes * d <= WordBytes * MemWords + 1
  PROVE  d <= MemWords
<1> SUFFICES ASSUME d >= MemWords + 1 PROVE FALSE
  OBVIOUS
<1>1. WordBytes * d >= WordBytes * (MemWords + 1)
  OBVIOUS
<1>2. WordBytes * (MemWords + 1) = WordBytes * MemWords + WordBytes
  OBVIOUS
<1>3. WordBytes * MemWords \in Nat /\ WordBytes * d \in Nat
  OBVIOUS
<1> QED
  BY <1>1, <1>2, <1>3

LEMMA CollectTyped ==
  ASSUME WordInv, NEW b \in Byte, Collect(b)
  PROVE  WordInv' /\ Len(word') = Len(word) + 1
  BY DEF WordInv, Collect

LEMMA CompletedTyped ==
  ASSUME WordInv, NEW b \in Byte, Completed(b)
  PROVE  /\ WordInv' /\ word' = <<>> /\ Len(word') = 0
         /\ Append(word, b) \in Seq(Byte) /\ Len(Append(word, b)) = WordBytes
  BY DEF WordInv, Completed

LEMMA ReceiveTyped ==
  ASSUME BootTypeOK, PcInv, NEW b \in Byte, Receive(b)
  PROVE  /\ PcTyped' /\ WordInv' /\ RestTyped' /\ dest' \in Nat /\ PcInv'
         /\ Received' <= Received + 1
<1> USE BootTyped DEF PcTyped, Receiving, Sending
<1>0. /\ WordMax \in Nat /\ WordMax > 0 /\ dest \in Nat /\ WordBytes * dest \in Nat
      /\ WordBytes * (dest + 1) = WordBytes * dest + WordBytes /\ WordBytes * 0 = 0
  BY WordMaxTyped DEF RestTyped
<1>1. CASE GetSize(b)
  <2>1. CASE Collect(b) /\ UNCHANGED acc
    BY <1>0, <1>1, <2>1, CollectTyped DEF GetSize, Collect, RestTyped, PcInv, Received
  <2>2. CASE /\ Completed(b)
             /\ left' = Value(Append(word, b)) /\ dest' = 0 /\ acc' = 0
             /\ pc' = Loop(left')
    <3>1. pc' \in {"data", "checksum"}
      BY <2>2 DEF Loop
    <3>2. left' \in 0 .. WordMax - 1
      BY <2>2, CompletedTyped, ValueInRange
    <3>3. Received = WordBytes - 1
      BY <1>1, <2>2 DEF GetSize, Completed, Received
    <3>4. Received' = WordBytes
      BY <1>0, <3>1, <2>2, CompletedTyped DEF Received
    <3> QED
      BY <1>1, <2>2, <3>1, <3>2, <3>3, <3>4, CompletedTyped, ZeroIsByte DEF GetSize, RestTyped, PcInv
  <2> QED
    BY <1>1, <2>1, <2>2 DEF GetSize
<1>2. CASE GetData(b)
  <2>1. acc' \in Byte
    BY <1>2, ByteXorTyped DEF GetData, RestTyped
  <2>2. CASE Collect(b) /\ UNCHANGED mem
    BY <1>0, <1>2, <2>1, <2>2, CollectTyped DEF GetData, Collect, RestTyped, PcInv, Received
  <2>3. CASE /\ Completed(b)
             /\ mem' = [mem EXCEPT ![dest] = Append(word, b)]
             /\ dest' = dest + 1
             /\ left' = (left + WordMax - WordBytes) % WordMax
             /\ pc' = Loop(left')
    <3>1. pc' \in {"data", "checksum"}
      BY <2>3 DEF Loop
    <3>2. left' \in 0 .. WordMax - 1
      <4>1. left + WordMax - WordBytes \in Int
        BY <1>0 DEF RestTyped
      <4> QED
        BY <1>0, <2>3, <4>1
    <3>3. Append(word, b) \in Word
      BY <2>3, CompletedTyped, LenProperties DEF Word
    <3>4. mem' \in [0 .. MemWords - 1 -> Word]
      BY <2>3, <3>3 DEF RestTyped
    <3>5. Received = WordBytes + WordBytes * dest + (WordBytes - 1)
      BY <1>2, <2>3 DEF GetData, Completed, Received
    <3>6. Received' = WordBytes + WordBytes * (dest + 1)
      BY <1>0, <3>1, <2>3, CompletedTyped DEF Received
    <3> QED
      BY <1>0, <1>2, <2>1, <2>3, <3>1, <3>2, <3>4, <3>5, <3>6, CompletedTyped DEF GetData, RestTyped, PcInv
  <2> QED
    BY <1>2, <2>2, <2>3 DEF GetData
<1>3. CASE GetChecksum(b)
  BY <1>0, <1>3 DEF GetChecksum, RestTyped, PcInv, Received, WordInv
<1> QED
  BY <1>1, <1>2, <1>3 DEF Receive

LEMMA RestartTyped ==
  ASSUME BootTypeOK, Restart
  PROVE  BootTypeOK' /\ PcInv' /\ Received' = 0
  BY BootTyped, WordMaxTyped DEF Restart, BootTypeOK, PcTyped, WordInv, RestTyped, Sending, PcInv, Received

LEMMA SendTyped ==
  ASSUME BootTypeOK, PcInv, Send
  PROVE  BootTypeOK' /\ PcInv' /\ Received' = Received
<1>1. /\ pc \in {"ready", "ok", "error"} /\ UNCHANGED <<word, left, dest, acc, mem>>
      /\ pc' = IF pc = "ready" THEN "size" ELSE IF pc = "ok" THEN "run" ELSE "hang"
  BY DEF Send, Sending
<1>2. pc' \in Receiving \cup Sending \cup Done
  BY <1>1 DEF Receiving, Sending, Done
<1>3. BootTypeOK'
  BY <1>1, <1>2 DEF BootTypeOK
<1>4. word = <<>> /\ Len(word) = 0 /\ dest \in Nat
  BY <1>1 DEF PcInv, BootTypeOK
<1> QED
  BY <1>1, <1>3, <1>4 DEF PcInv, Received

\* Where the bootloader follows an upload, the next byte of it takes it on.
Ahead(data, c) == \A i \in 1..Len(word) : word[i] = StreamOf(data)[c - Len(word) + i]

LEMMA CollectFollows ==
  ASSUME WordInv, NEW data \in Seq(Byte), NEW c \in Nat, Ahead(data, c),
         NEW b \in Byte, b = StreamOf(data)[c + 1], Collect(b)
  PROVE  Ahead(data, c + 1)'
<1>1. word' = Append(word, b) /\ word \in Seq(Byte) /\ Len(word) \in Nat
  BY DEF Collect, WordInv
<1>2. /\ Len(word') = Len(word) + 1 /\ word'[Len(word) + 1] = b
      /\ \A i \in 1..Len(word) : word'[i] = word[i]
  BY <1>1
<1> SUFFICES ASSUME NEW i \in 1..Len(word')
             PROVE  word'[i] = StreamOf(data)[c + 1 - Len(word') + i]
  BY DEF Ahead
<1>3. CASE i = Len(word) + 1
  <2>1. c + 1 - Len(word') + i = c + 1
    BY <1>1, <1>2, <1>3
  <2> QED
    BY <1>2, <1>3, <2>1
<1>4. CASE i \in 1..Len(word)
  <2>1. c + 1 - Len(word') + i = c - Len(word) + i
    BY <1>1, <1>2, <1>4
  <2>2. word[i] = StreamOf(data)[c - Len(word) + i]
    BY <1>4 DEF Ahead
  <2> QED
    BY <1>2, <1>4, <2>1, <2>2
<1> QED
  BY <1>1, <1>2, <1>3, <1>4

LEMMA CompletedFollows ==
  ASSUME WordInv, NEW data \in Seq(Byte), NEW c \in Nat, Ahead(data, c),
         NEW b \in Byte, b = StreamOf(data)[c + 1], Completed(b)
  PROVE  /\ \A i \in 1..WordBytes : Append(word, b)[i] = StreamOf(data)[c + 1 - WordBytes + i]
         /\ Ahead(data, c + 1)'
<1>1. word' = <<>> /\ word \in Seq(Byte) /\ Len(word) = WordBytes - 1
  BY DEF Completed, WordInv
<1>2. /\ Append(word, b)[WordBytes] = b
      /\ \A i \in 1 .. WordBytes - 1 : Append(word, b)[i] = word[i]
  BY <1>1
<1>3. ASSUME NEW i \in 1..WordBytes
      PROVE  Append(word, b)[i] = StreamOf(data)[c + 1 - WordBytes + i]
  <2>1. CASE i = WordBytes
    <3>1. c + 1 - WordBytes + i = c + 1
      BY <2>1
    <3> QED
      BY <1>2, <2>1, <3>1
  <2>2. CASE i \in 1 .. WordBytes - 1
    <3>1. c + 1 - WordBytes + i = c - Len(word) + i
      BY <1>1, <2>2
    <3>2. word[i] = StreamOf(data)[c - Len(word) + i]
      BY <1>1, <2>2 DEF Ahead
    <3> QED
      BY <1>2, <2>2, <3>1, <3>2
  <2>3. i = WordBytes \/ i \in 1 .. WordBytes - 1
    OBVIOUS
  <2> QED
    BY <2>1, <2>2, <2>3, Zenon
<1>4. Ahead(data, c + 1)'
  <2>1. Len(word') = 0
    BY <1>1
  <2> QED
    BY <2>1 DEF Ahead
<1> QED
  BY <1>3, <1>4

LEMMA ReceiveFollows ==
  ASSUME BootTypeOK, NEW data \in Seq(Byte), NEW m \in Nat, Len(data) = WordBytes * m,
         m <= MemWords, Len(data) < WordMax,
         NEW c \in Nat, BootAt(data, c), c <= WordBytes + Len(data),
         NEW b \in Byte, b = StreamOf(data)[c + 1], Receive(b)
  PROVE  BootAt(data, c + 1)'
<1>1. /\ WordInv /\ RestTyped /\ dest \in 0..MemWords /\ Ahead(data, c)
      /\ c + 1 \in 0 .. WordBytes + Len(data) + 1 /\ Len(data) \in Nat
      /\ Len(word) \in 0 .. WordBytes - 1
  BY BootTyped DEF BootAt, Ahead, WordInv
<1>2. /\ WordMax \in Nat /\ WordBytes * dest \in Nat
      /\ WordBytes * (dest + 1) = WordBytes * dest + WordBytes /\ WordBytes * 0 = 0
      /\ left \in Nat /\ left < WordMax
  BY <1>1, WordMaxTyped DEF RestTyped
<1>3. CASE GetSize(b)
  <2>1. pc = "size" /\ c = Len(word)
    BY <1>3 DEF GetSize, BootAt
  <2>2. CASE Collect(b) /\ UNCHANGED acc
    <3>1. Ahead(data, c + 1)' /\ Len(word') = Len(word) + 1 /\ pc' = pc
      BY <1>1, <2>2, CollectFollows, CollectTyped DEF Collect
    <3> QED
      BY <1>1, <2>1, <3>1 DEF BootAt, Ahead
  <2>3. CASE /\ Completed(b)
             /\ left' = Value(Append(word, b)) /\ dest' = 0 /\ acc' = 0
             /\ pc' = Loop(left')
    <3>1. c + 1 = WordBytes /\ word' = <<>> /\ Len(word') = 0
      BY <2>1, <2>3 DEF Completed
    <3>2. Append(word, b) = SizeBytes(Len(data))
      <4> DEFINE u == Append(word, b)
                 s == SizeBytes(Len(data))
      <4>1. u \in Seq(Byte) /\ Len(u) = WordBytes
        BY <1>1, <2>3, CompletedTyped
      <4>2. s \in Seq(Byte) /\ Len(s) = WordBytes
        BY <1>1, SizeBytesTyped
      <4>3. \A i \in 1..WordBytes : u[i] = s[i]
        <5>1. \A i \in 1..WordBytes : u[i] = StreamOf(data)[c + 1 - WordBytes + i]
          BY <1>1, <2>3, CompletedFollows
        <5>2. \A i \in 1..WordBytes : c + 1 - WordBytes + i = i
          BY <3>1
        <5>3. \A i \in 1..WordBytes : StreamOf(data)[i] = s[i]
          BY StreamAt
        <5> HIDE DEF u, s
        <5> QED
          BY <5>1, <5>2, <5>3
      <4> HIDE DEF u, s
      <4>4. u = s
        BY <4>1, <4>2, <4>3, SeqEqual
      <4> QED
        BY <4>4 DEF u, s
    <3>3. left' = Len(data)
      <4>1. Len(data) \in 0 .. WordMax - 1
        BY <1>1, <1>2
      <4>2. Value(SizeBytes(Len(data))) = Len(data)
        BY <4>1, ValueOfSize
      <4> QED
        BY <2>3, <3>2, <4>2
    <3>4. pc' \in {"data", "checksum"}
      BY <2>3 DEF Loop
    <3>5. acc' = Running(data)[c + 1 - WordBytes]
      BY <2>3, <3>1, RunningDef
    <3>6. Stored(data, WordBytes * dest)'
      <4>1. WordBytes * dest' = 0
        BY <1>2, <2>3
      <4>2. \A i \in 0 .. MemWords - 1 : ~ (WordBytes * (i + 1) <= 0)
        OBVIOUS
      <4> QED
        BY <4>1, <4>2 DEF Stored
    <3>7. Ahead(data, c + 1)'
      BY <1>1, <2>3, CompletedFollows
    <3>8. c + 1 = WordBytes + WordBytes * dest' + Len(word')
      BY <1>2, <2>3, <3>1
    <3>9. left' + WordBytes * dest' = Len(data)
      BY <1>1, <1>2, <2>3, <3>3
    <3> QED
      BY <1>1, <2>3, <3>4, <3>5, <3>6, <3>7, <3>8, <3>9 DEF BootAt, Ahead
  <2> QED
    BY <1>3, <2>2, <2>3 DEF GetSize
<1>4. CASE GetData(b)
  <2>1. /\ pc = "data" /\ c = WordBytes + WordBytes * dest + Len(word)
        /\ left + WordBytes * dest = Len(data) /\ pc = Loop(left)
        /\ acc = Running(data)[c - WordBytes] /\ Stored(data, WordBytes * dest)
    BY <1>4 DEF GetData, BootAt
  <2>2. left # 0
    BY <2>1 DEF Loop
  <2>3. dest < m /\ left >= WordBytes /\ dest < MemWords
    <3>1. WordBytes * dest < WordBytes * m
      BY <1>2, <2>1, <2>2
    <3>2. dest < m
      <4> SUFFICES ASSUME dest >= m PROVE FALSE
        BY <1>1
      <4>1. WordBytes * dest >= WordBytes * m
        BY <1>1
      <4> QED
        BY <1>2, <3>1, <4>1
    <3>3. WordBytes * (dest + 1) <= WordBytes * m
      BY <1>1, <3>2
    <3> QED
      BY <1>1, <1>2, <2>1, <3>2, <3>3
  <2> DEFINE n == WordBytes * dest + Len(word) + 1
  <2>4. n \in 1..Len(data) /\ c + 1 = WordBytes + n
    BY <1>1, <1>2, <2>1, <2>3
  <2>5. b = data[n]
    <3> HIDE DEF n
    <3>1. StreamOf(data)[WordBytes + n] = data[n]
      BY <2>4, StreamAt
    <3> QED
      BY <2>4, <3>1
  <2>6. acc' = Running(data)[c + 1 - WordBytes]
    <3>1. c - WordBytes = n - 1 /\ c + 1 - WordBytes = n
      BY <1>1, <1>2, <2>1
    <3>2. Running(data)[n] = ByteXor(Running(data)[n - 1], data[n])
      BY <2>4, RunningDef
    <3> HIDE DEF n
    <3> QED
      BY <1>4, <2>1, <2>5, <3>1, <3>2 DEF GetData
  <2>7. CASE Collect(b) /\ UNCHANGED mem
    <3>1. /\ Ahead(data, c + 1)' /\ Len(word') = Len(word) + 1
          /\ UNCHANGED <<pc, left, dest, mem>>
      BY <1>1, <2>7, CollectFollows, CollectTyped DEF Collect
    <3>2. Stored(data, WordBytes * dest)'
      BY <2>1, <3>1 DEF Stored
    <3>3. c + 1 = WordBytes + WordBytes * dest' + Len(word')
      BY <1>1, <1>2, <2>1, <3>1
    <3>4. pc' \in {"data", "checksum"} /\ pc' = Loop(left') /\ left' + WordBytes * dest' = Len(data)
      BY <2>1, <3>1
    <3> QED
      BY <1>1, <2>6, <3>1, <3>2, <3>3, <3>4 DEF BootAt, Ahead
  <2>8. CASE /\ Completed(b)
             /\ mem' = [mem EXCEPT ![dest] = Append(word, b)]
             /\ dest' = dest + 1
             /\ left' = (left + WordMax - WordBytes) % WordMax
             /\ pc' = Loop(left')
    <3>1. Len(word) = WordBytes - 1 /\ word' = <<>> /\ Len(word') = 0
      BY <2>8 DEF Completed
    <3>2. left' = left - WordBytes
      <4> DEFINE r == left - WordBytes
      <4>1. r \in 0 .. WordMax - 1 /\ left + WordMax - WordBytes = r + WordMax
        BY <1>2, <2>3
      <4>2. (r + WordMax) % WordMax = r
        <5> HIDE DEF r
        <5> QED
          BY <4>1, <1>2
      <4> QED
        BY <2>8, <4>1, <4>2
    <3>3. pc' \in {"data", "checksum"}
      BY <2>8 DEF Loop
    <3>4. Ahead(data, c + 1)'
      BY <1>1, <2>8, CompletedFollows
    <3>5. c + 1 = WordBytes + WordBytes * dest' + Len(word')
      <4>1. c + 1 = WordBytes + WordBytes * dest + WordBytes
        BY <1>1, <1>2, <2>1, <3>1
      <4>2. WordBytes * dest' = WordBytes * dest + WordBytes
        BY <1>2, <2>8
      <4> QED
        BY <1>2, <3>1, <4>1, <4>2
    <3>6. left' + WordBytes * dest' = Len(data)
      <4>1. WordBytes * dest' = WordBytes * dest + WordBytes
        BY <1>2, <2>8
      <4> QED
        BY <1>2, <2>1, <3>2, <4>1
    <3>7. Stored(data, WordBytes * dest)'
      <4> SUFFICES ASSUME NEW i \in 0 .. MemWords - 1, WordBytes * (i + 1) <= WordBytes * dest',
                          NEW k \in 1..WordBytes
                   PROVE  mem'[i][k] = data[WordBytes * i + k]
        BY DEF Stored
      <4>1. i <= dest
        <5> SUFFICES ASSUME i >= dest + 1 PROVE FALSE
          BY <1>1
        <5>1. WordBytes * (i + 1) >= WordBytes * (dest + 1 + 1)
          BY <1>1
        <5>2. WordBytes * (dest + 1 + 1) = WordBytes * (dest + 1) + WordBytes
          BY <1>1
        <5>3. WordBytes * (dest + 1) \in Nat
          BY <1>1
        <5> QED
          BY <5>1, <5>2, <5>3, <2>8
      <4>2. CASE i = dest
        <5>1. mem'[i] = Append(word, b)
          BY <1>1, <2>3, <2>8, <4>2 DEF RestTyped
        <5>2. Append(word, b)[k] = StreamOf(data)[c + 1 - WordBytes + k]
          BY <1>1, <2>8, CompletedFollows
        <5>3. /\ c + 1 - WordBytes + k = WordBytes + (WordBytes * dest + k)
              /\ WordBytes * dest + k \in 1..Len(data)
          BY <1>1, <1>2, <2>1, <2>3, <3>1
        <5>4. StreamOf(data)[WordBytes + (WordBytes * dest + k)] = data[WordBytes * dest + k]
          BY <5>3, StreamAt
        <5> QED
          BY <4>2, <5>1, <5>2, <5>3, <5>4
      <4>3. CASE i < dest
        <5>1. mem'[i] = mem[i]
          BY <1>1, <2>8, <4>3 DEF RestTyped
        <5>2. WordBytes * (i + 1) <= WordBytes * dest
          <6>1. i + 1 <= dest
            BY <1>1, <4>3
          <6> QED
            BY <1>1, <6>1
        <5> QED
          BY <2>1, <5>1, <5>2 DEF Stored
      <4> QED
        BY <1>1, <4>1, <4>2, <4>3
    <3>8. pc' = Loop(left')
      BY <2>8
    <3> QED
      BY <1>1, <2>6, <3>3, <3>4, <3>5, <3>6, <3>7, <3>8 DEF BootAt, Ahead
  <2> QED
    BY <1>4, <2>7, <2>8 DEF GetData
<1>5. CASE GetChecksum(b)
  <2>1. /\ pc = "checksum" /\ c = WordBytes + WordBytes * dest + Len(word)
        /\ left + WordBytes * dest = Len(data) /\ pc = Loop(left)
        /\ acc = Running(data)[c - WordBytes] /\ Stored(data, WordBytes * dest)
    BY <1>5 DEF GetChecksum, BootAt
  <2>2. left = 0 /\ WordBytes * dest = Len(data)
    BY <1>2, <2>1 DEF Loop
  <2>3. Len(word) = 0 /\ c = WordBytes + Len(data)
    BY <1>1, <1>2, <2>1, <2>2
  <2>4. b = Checksum(data)
    BY <2>3, StreamAt
  <2>5. acc = Checksum(data)
    BY <1>1, <2>1, <2>3 DEF Checksum
  <2>6. pc' = "ok" /\ UNCHANGED <<word, left, dest, acc, mem>>
    BY <1>5, <2>4, <2>5 DEF GetChecksum
  <2>7. Stored(data, Len(data))'
    BY <2>1, <2>2, <2>6 DEF Stored
  <2>8. Ahead(data, c + 1)'
    BY <2>3, <2>6 DEF Ahead
  <2> QED
    BY <1>1, <2>3, <2>6, <2>7, <2>8 DEF BootAt, Ahead
<1> QED
  BY <1>3, <1>4, <1>5 DEF Receive

-----------------------------------------------------------------------------
(* The invariant holds from the start, and every action keeps it. *)
LEMMA DataTyped ==
  ASSUME binary \in Binaries
  PROVE  /\ Data \in Seq(Byte) /\ Len(Data) \in Nat /\ Len(Data) < WordMax
         /\ Len(Data) <= WordBytes * MemWords
         /\ \E m \in Nat : Len(Data) = WordBytes * m /\ m <= MemWords
<1>1. /\ Data \in Seq(Byte) /\ Len(Data) \in 0 .. WordMax - 1 /\ Len(Data) <= WordBytes * MemWords
  BY PadTyped DEF Data
<1>2. PICK m \in Nat : Len(Data) = WordBytes * m
  BY PadTyped DEF Data
<1>3. WordBytes * m <= WordBytes * MemWords + 1
  BY <1>1, <1>2
<1>4. m <= MemWords
  BY <1>3, DestInMemory
<1> QED
  BY <1>1, <1>2, <1>4, WordMaxTyped

LEMMA WrittenTyped ==
  ASSUME binary \in Binaries, OutTyped, OutInv
  PROVE  /\ Made \in 0 .. Len(Writes(Data)) /\ Len(Writes(Data)) \in Nat
         /\ Written \in 0 .. WordBytes + Len(Data) + 1
         /\ out = <<>> => Written = WordBytes + Len(Data) + 1
         /\ out # <<>> => Written <= WordBytes + Len(Data)
<1> DEFINE n == Len(Writes(Data))
<1>1. Data \in Seq(Byte) /\ Len(Data) \in Nat
  BY DataTyped
<1>2. n \in Nat
  BY <1>1, WritesTyped
<1>3. Len(out) \in 0..n /\ (out = <<>> <=> Len(out) = 0)
  BY <1>2 DEF OutTyped, OutInv
<1>4. Made \in 0..n /\ (out = <<>> <=> Made = n)
  BY <1>2, <1>3 DEF Made
<1> HIDE DEF n
<1>5. /\ Ends(Data, Made) \in 0 .. WordBytes + Len(Data) + 1
      /\ Ends(Data, n) = WordBytes + Len(Data) + 1
      /\ Made < n => Ends(Data, Made) <= WordBytes + Len(Data)
  BY <1>1, <1>4, EndsInRange DEF n
<1> QED
  BY <1>2, <1>4, <1>5 DEF Written, n

LEMMA Parts ==
  ASSUME IInv
  PROVE  /\ BootTypeOK /\ PcTyped /\ WordInv /\ RestTyped /\ dest \in 0..MemWords
         /\ loader \in {"closed", "await_ready", "write", "await_response"}
         /\ binary \in Binaries /\ line \in Seq(Byte) /\ lost \in 0..MaxLost
         /\ replies \in Seq(Sending) /\ Len(replies) <= Backlog
         /\ OutTyped /\ OutInv /\ PcInv /\ ReadyInv /\ Clean /\ Count
<1>1. TypeOK /\ OutTyped /\ OutInv /\ PcInv /\ ReadyInv /\ Clean /\ Count
  BY DEF IInv
<1>2. /\ BootTypeOK /\ binary \in Binaries /\ line \in Seq(Byte) /\ lost \in 0..MaxLost
      /\ loader \in {"closed", "await_ready", "write", "await_response"}
      /\ replies \in Seq(Sending) /\ Len(replies) <= Backlog
  BY <1>1, Zenon DEF TypeOK
<1> QED
  BY <1>1, <1>2, BootTyped, Zenon

\* The parts of TypeOK in the next state.
LEMMA Retyped ==
  ASSUME BootTypeOK',
         loader' \in {"closed", "await_ready", "write", "await_response"},
         binary' \in Binaries, line' \in Seq(Byte), lost' \in 0..MaxLost,
         replies' \in Seq(Sending), Len(replies') <= Backlog
  PROVE  TypeOK'
  BY Zenon DEF TypeOK

LEMMA BootSame ==
  ASSUME BootTypeOK, UNCHANGED bootVars
  PROVE  BootTypeOK' /\ (PcInv => PcInv') /\ Received' = Received
<1>1. UNCHANGED <<pc, word, left, dest, acc, mem>>
  BY DEF bootVars
<1>2. BootTypeOK'
  BY <1>1, Zenon DEF BootTypeOK
<1> QED
  BY <1>1, <1>2 DEF PcInv, Received

LEMMA TailOf ==
  ASSUME NEW S, NEW s \in Seq(S), s # <<>>
  PROVE  /\ Tail(s) \in Seq(S) /\ Len(s) \in Nat \ {0} /\ Len(Tail(s)) = Len(s) - 1
         /\ \A i \in 1..Len(Tail(s)) : Tail(s)[i] = s[i + 1] /\ i + 1 \in 1..Len(s)
         /\ Head(s) = s[1] /\ 1 \in 1..Len(s) /\ Head(s) \in S
  OBVIOUS

LEMMA NoReplies == <<>> \in Seq(Sending) /\ Len(<<>>) = 0
  OBVIOUS

\* The bytes that have come, those on the line and those to come.
LEMMA Counted ==
  ASSUME IInv
  PROVE  Received \in Nat /\ Len(line) \in Nat /\ Coming \in Nat /\ WordBytes * MemWords \in Nat
<1>0. WordInv /\ dest \in 0..MemWords /\ line \in Seq(Byte) /\ binary \in Binaries
  BY Parts, Zenon
<1>1. dest \in 0..MemWords /\ Len(word) \in Nat /\ line \in Seq(Byte) /\ binary \in Binaries
  BY <1>0 DEF WordInv
<1>2. Written \in 0 .. WordBytes + Len(Data) + 1 /\ Len(Data) \in Nat
  BY Parts, WrittenTyped, DataTyped
<1> QED
  BY <1>1, <1>2 DEF Received, Coming

LEMMA InitInv == Init => IInv
<1> SUFFICES ASSUME Init PROVE IInv
  OBVIOUS
<1> USE DEF Init, BootInit
<1>1. BootTypeOK
  <2>1. PcTyped /\ WordInv /\ dest \in 0..MemWords
    BY DEF PcTyped, WordInv, Sending
  <2>2. RestTyped
    BY WordMaxTyped, WeightDef, ZeroIsByte DEF RestTyped, Word, WordMax
  <2> QED
    BY <2>1, <2>2, BootTyped
<1>2. TypeOK
  BY <1>1 DEF TypeOK
<1>3. OutTyped /\ OutInv /\ PcInv /\ ReadyInv /\ Clean
  BY DEF OutTyped, OutInv, PcInv, ReadyInv, Clean
<1>4. Count
  <2>1. Received = 0 /\ Coming = 0 /\ Len(line) = 0
    BY DEF Received, Coming
  <2> QED
    BY <2>1 DEF Count
<1> QED
  BY <1>2, <1>3, <1>4 DEF IInv

LEMMA OpenInv == ASSUME IInv, Open PROVE IInv'
<1> USE Parts
<1>1. /\ out = <<>> /\ out' = <<>> /\ Coming = 0 /\ Coming' = 0
      /\ loader' = "await_ready" /\ binary' \in Binaries
      /\ replies' = <<>> /\ lost' = 0 /\ line' = line /\ UNCHANGED bootVars
  BY DEF Open, OutInv, Coming
<1>2. BootTypeOK' /\ PcInv' /\ Received' = Received
  BY <1>1, BootSame
<1>3. TypeOK' /\ OutTyped' /\ OutInv'
  <2>1. TypeOK'
    <3>1. line' \in Seq(Byte) /\ lost' \in 0..MaxLost
      BY <1>1
    <3>2. replies' \in Seq(Sending) /\ Len(replies') <= Backlog
      BY <1>1, NoReplies
    <3> QED
      BY <1>1, <1>2, <3>1, <3>2, Retyped
  <2>2. OutTyped' /\ OutInv'
    BY <1>1 DEF OutTyped, OutInv
  <2> QED
    BY <2>1, <2>2
<1>4. ReadyInv'
  BY DEF Open, ReadyInv
<1>5. Clean'
  BY DEF Open, Clean
<1>6. Count'
  BY <1>1, <1>2 DEF Count
<1> QED
  BY <1>2, <1>3, <1>4, <1>5, <1>6 DEF IInv

\* The port is closed: a report, or the loader gives up.
LEMMA CloseInv ==
  ASSUME IInv, Close, UNCHANGED <<bootVars, binary, line, lost>>
  PROVE  IInv'
<1> USE Parts
<1>1. Coming' = 0 /\ Len(line') = Len(line)
  BY DEF Close, Coming
<1>2. TypeOK' /\ PcInv' /\ Received' = Received
  <2>1. BootTypeOK' /\ PcInv' /\ Received' = Received
    BY BootSame, Zenon
  <2>2. /\ loader' \in {"closed", "await_ready", "write", "await_response"}
        /\ binary' \in Binaries /\ line' \in Seq(Byte) /\ lost' \in 0..MaxLost
        /\ replies' \in Seq(Sending) /\ Len(replies') <= Backlog
    BY NoReplies DEF Close
  <2> QED
    BY <2>1, <2>2, Retyped, Zenon
<1>3. OutTyped' /\ OutInv'
  BY DEF OutTyped, OutInv, Close
<1>4. ReadyInv' /\ Clean'
  BY DEF Close, ReadyInv, Clean
<1>5. Count'
  <2>1. Count /\ Received \in Nat /\ Len(line) \in Nat /\ Coming \in Nat /\ WordBytes * MemWords \in Nat
    BY Counted, Zenon
  <2> QED
    BY <1>1, <1>2, <2>1 DEF Count
<1> QED
  BY <1>2, <1>3, <1>4, <1>5 DEF IInv

LEMMA ReadReadyInv == ASSUME IInv, ReadReady PROVE IInv'
<1>0. /\ OutTyped /\ OutInv /\ PcInv /\ ReadyInv /\ Count
      /\ binary \in Binaries /\ replies \in Seq(Sending) /\ Len(replies) <= Backlog
  BY Parts, Zenon
<1>1. /\ loader = "await_ready" /\ out = <<>> /\ line = <<>> /\ lost = 0
      /\ UNCHANGED <<pc, word, left, dest, acc, mem, binary, line, lost>>
      /\ replies # <<>> /\ replies \in Seq(Sending) /\ replies' = Tail(replies)
  BY Parts DEF OutInv, ReadyInv, ReadReady, bootVars
<1>2. /\ replies' \in Seq(Sending) /\ Len(replies') = Len(replies) - 1 /\ Len(replies') \in Nat
      /\ \A i \in 1..Len(replies') : replies'[i] = replies[i + 1] /\ i + 1 \in 1..Len(replies)
      /\ Head(replies) = replies[1] /\ 1 \in 1..Len(replies)
  BY <1>1, TailOf
<1>3. BootTypeOK' /\ PcInv' /\ Data' = Data /\ Received' = Received
  BY <1>1, Parts, BootSame DEF bootVars, Data
<1>4. Data \in Seq(Byte) /\ Len(Data) \in Nat /\ Len(Data) <= WordBytes * MemWords
  BY Parts, DataTyped
<1>5. CASE Head(replies) # "ready"
  <2>1. loader' = loader /\ out' = out
    BY <1>5 DEF ReadReady
  <2>2. TypeOK'
    <3>1. /\ loader' \in {"closed", "await_ready", "write", "await_response"}
          /\ binary' \in Binaries /\ line' \in Seq(Byte) /\ lost' \in 0..MaxLost
      BY <1>0, <1>1, <2>1
    <3>2. Len(replies') <= Backlog
      BY <1>0, <1>1, <1>2
    <3> QED
      BY <1>2, <1>3, <3>1, <3>2, Retyped
  <2>3. OutTyped' /\ OutInv' /\ Clean'
    <3>1. OutTyped'
      BY <2>1, <1>0 DEF OutTyped
    <3> QED
      BY <1>1, <2>1, <3>1 DEF OutInv, Clean
  <2>4. ReadyInv'
    <3>1. /\ \A i, j \in 1..Len(replies) : i < j /\ replies[i] = "ready" => replies[j] = "ready"
          /\ (\E i \in 1..Len(replies) : replies[i] = "ready") =>
               pc = "ready" \/ (pc = "size" /\ word = <<>>)
      BY <1>1 DEF IInv, ReadyInv
    <3>2. \A i, j \in 1..Len(replies') : i < j /\ replies'[i] = "ready" => replies'[j] = "ready"
      <4> SUFFICES ASSUME NEW i \in 1..Len(replies'), NEW j \in 1..Len(replies'),
                          i < j, replies'[i] = "ready"
                   PROVE  replies'[j] = "ready"
        OBVIOUS
      <4>1. i + 1 < j + 1
        BY <1>2
      <4> QED
        BY <1>2, <3>1, <4>1
    <3>3. (\E i \in 1..Len(replies') : replies'[i] = "ready") =>
             pc' = "ready" \/ (pc' = "size" /\ word' = <<>>)
      BY <1>1, <1>2, <3>1
    <3> QED
      BY <1>1, <2>1, <3>2, <3>3 DEF ReadyInv
  <2>5. Count'
    <3>1. Coming' = Coming
      BY <1>1, <2>1 DEF Coming
    <3> QED
      BY <1>1, <1>3, <3>1 DEF IInv, Count
  <2> QED
    BY <1>3, <2>2, <2>3, <2>4, <2>5 DEF IInv
<1>6. CASE Head(replies) = "ready"
  <2>1. loader' = "write" /\ out' = Writes(Data)
    BY <1>6 DEF ReadReady, Data
  <2>2. /\ pc = "ready" \/ (pc = "size" /\ word = <<>>)
        /\ \A j \in 1..Len(replies) : 1 < j => replies[j] = "ready"
    <3>1. 1 \in 1..Len(replies) /\ replies[1] = "ready"
      BY <1>2, <1>6
    <3> QED
      BY <1>1, <3>1, <1>0 DEF ReadyInv
  <2>3. word = <<>> /\ Len(word) = 0 /\ Received = 0
    <3>1. word = <<>>
      BY <2>2, <1>0 DEF PcInv
    <3> QED
      BY <2>2, <3>1 DEF Received
  <2>4. TypeOK'
    <3>1. /\ loader' \in {"closed", "await_ready", "write", "await_response"}
          /\ binary' \in Binaries /\ line' \in Seq(Byte) /\ lost' \in 0..MaxLost
      BY <1>0, <1>1, <2>1
    <3>2. Len(replies') <= Backlog
      BY <1>0, <1>1, <1>2
    <3> QED
      BY <1>2, <1>3, <3>1, <3>2, Retyped
  <2>5. /\ Writes(Data) \in Seq(Seq(Byte)) /\ Len(Writes(Data)) \in Nat
        /\ Len(Writes(Data)) >= 2
    BY <1>4, WritesTyped
  <2>6. Made' = 0
    BY <1>3, <2>1, <2>5 DEF Made
  <2>7. OutTyped' /\ OutInv'
    <3>1. \A i \in 1..Len(out') : out'[i] = Writes(Data)[0 + i]
      BY <2>1, <2>5
    <3> QED
      BY <1>3, <2>1, <2>5, <2>6, <3>1 DEF OutTyped, OutInv
  <2>8. Written' = 0 /\ Consumed' = 0
    <3>1. Written' = 0
      BY <1>3, <2>6 DEF Written, Ends
    <3>2. Len(line') = 0
      BY <1>1
    <3> QED
      BY <3>1, <3>2 DEF Consumed
  <2>9. ReadyInv'
    BY <2>1 DEF ReadyInv
  <2>10. Clean'
    <3>1. CASE replies' # <<>>
      <4>1. 1 \in 1..Len(replies') /\ Head(replies') = replies'[1]
        BY <1>2, <3>1
      <4>2. replies'[1] = "ready"
        BY <1>2, <2>2, <4>1
      <4> QED
        BY <3>1, <4>1, <4>2 DEF Clean, Spoiled
    <3>2. CASE replies' = <<>> /\ pc = "ready"
      BY <1>1, <3>2 DEF Clean, Spoiling
    <3>3. CASE replies' = <<>> /\ pc = "size"
      <4>1. BootAt(Data, 0)'
        <5>1. pc' = "size" /\ word' = word /\ 0 \in 0 .. WordBytes + Len(Data) + 1
          BY <1>1, <1>4, <3>3
        <5>2. Len(word') = 0 /\ Len(Data') = Len(Data)
          BY <1>3, <2>3, <5>1
        <5> QED
          BY <5>1, <5>2 DEF BootAt
      <4>2. LineIs(Data, 0)'
        <5>1. Len(line') = 0
          BY <1>1
        <5> QED
          BY <5>1 DEF LineIs
      <4> QED
        BY <1>3, <2>8, <3>3, <4>1, <4>2 DEF Clean, Following, BootAt, LineIs
    <3> QED
      BY <2>2, <3>1, <3>2, <3>3
  <2>11. Count'
    <3>1. Coming' = WordBytes + Len(Data) + 1
      BY <1>3, <1>4, <2>1, <2>8 DEF Coming
    <3>2. Len(line') = 0 /\ Received' = 0
      BY <1>1, <1>3, <2>3
    <3> QED
      BY <1>4, <3>1, <3>2 DEF Count
  <2> QED
    BY <1>3, <2>4, <2>7, <2>9, <2>10, <2>11 DEF IInv
<1> QED
  BY <1>5, <1>6

LEMMA WriteInv == ASSUME IInv, Write PROVE IInv'
<1>0. /\ BootTypeOK /\ OutTyped /\ OutInv /\ PcInv /\ Clean /\ Count
      /\ binary \in Binaries /\ line \in Seq(Byte) /\ lost \in 0..MaxLost
      /\ replies \in Seq(Sending) /\ Len(replies) <= Backlog
  BY Parts, Zenon
<1>1. /\ loader = "write" /\ UNCHANGED bootVars /\ binary' = binary
      /\ replies' = replies /\ lost' = lost /\ Data' = Data
      /\ line' = line \o Head(out) /\ out' = Tail(out)
      /\ loader' = IF out' = <<>> THEN "await_response" ELSE "write"
  BY DEF Write, Data
<1>2. BootTypeOK' /\ PcInv' /\ Received' = Received
  BY <1>0, <1>1, BootSame
<1>3. Data \in Seq(Byte) /\ Len(Data) \in Nat
  BY <1>0, DataTyped
<1>4. /\ out \in Seq(Seq(Byte)) /\ Len(out) \in 1..Len(Writes(Data)) /\ out # <<>>
      /\ \A i \in 1..Len(out) : out[i] = Writes(Data)[Made + i]
      /\ Len(Writes(Data)) \in Nat /\ Made + Len(out) = Len(Writes(Data)) /\ Made \in Nat
  <2>1. Len(Writes(Data)) \in Nat /\ Made \in Nat
    BY <1>0, WrittenTyped
  <2>2. out \in Seq(Seq(Byte))
    BY <1>0 DEF OutTyped
  <2>3. /\ Len(out) \in 1..Len(Writes(Data))
        /\ \A i \in 1..Len(out) : out[i] = Writes(Data)[Made + i]
    BY <1>0, <1>1 DEF OutInv
  <2>4. Made = Len(Writes(Data)) - Len(out)
    BY DEF Made
  <2> QED
    BY <2>1, <2>2, <2>3, <2>4
<1>5. /\ out' \in Seq(Seq(Byte)) /\ Len(out') = Len(out) - 1 /\ Len(out') \in Nat
      /\ \A i \in 1..Len(out') : out'[i] = out[i + 1] /\ i + 1 \in 1..Len(out)
      /\ Head(out) = out[1] /\ 1 \in 1..Len(out) /\ Head(out) \in Seq(Byte)
  <2>1. /\ Tail(out) \in Seq(Seq(Byte)) /\ Len(out) \in Nat \ {0} /\ Len(Tail(out)) = Len(out) - 1
        /\ \A i \in 1..Len(Tail(out)) : Tail(out)[i] = out[i + 1] /\ i + 1 \in 1..Len(out)
        /\ Head(out) = out[1] /\ 1 \in 1..Len(out) /\ Head(out) \in Seq(Byte)
    BY <1>4, TailOf
  <2> QED
    BY <1>1, <2>1
<1>6. Made' = Made + 1
  BY <1>1, <1>4, <1>5 DEF Made
<1> DEFINE w == Head(out)
           end == Ends(Data, Made + 1)
<1>7. /\ Written \in Nat /\ end \in Nat /\ Written + Len(w) = end /\ end = Written'
      /\ w \in Seq(Byte) /\ Len(w) \in Nat
      /\ \A i \in 1..Len(w) : w[i] = StreamOf(Data)[Written + i]
  <2>1. Made + 1 \in 1..Len(Writes(Data)) /\ (Made + 1) - 1 = Made
    BY <1>4
  <2>2. CarriesOn(Data, Made + 1)
    BY <1>3, <2>1, WriteAt
  <2>3. w = Writes(Data)[Made + 1]
    BY <1>4, <1>5
  <2>4. end = Written'
    BY <1>1, <1>6 DEF Written
  <2>5. w \in Seq(Byte) /\ Len(w) \in Nat
    BY <1>5
  <2> HIDE DEF w, end
  <2> QED
    BY <2>1, <2>2, <2>3, <2>4, <2>5 DEF CarriesOn, Written, end
<1>8. /\ line' \in Seq(Byte) /\ Len(line') = Len(line) + Len(w) /\ Len(line) \in Nat
      /\ \A i \in 1..Len(line') : line'[i] = IF i <= Len(line) THEN line[i] ELSE w[i - Len(line)]
  <2> HIDE DEF w
  <2>1. line' = line \o w
    BY <1>1 DEF w
  <2> QED
    BY <1>0, <1>7, <2>1, ConcatProperties
<1> HIDE DEF w, end
<1>9. TypeOK'
  <2>1. /\ loader' \in {"closed", "await_ready", "write", "await_response"}
        /\ binary' \in Binaries /\ lost' \in 0..MaxLost
        /\ replies' \in Seq(Sending) /\ Len(replies') <= Backlog
    BY <1>0, <1>1
  <2> QED
    BY <1>2, <1>8, <2>1, Retyped
<1>10. OutTyped' /\ OutInv'
  <2>1. OutTyped'
    BY <1>5 DEF OutTyped
  <2>2. CASE out' = <<>>
    <3>1. loader' # "write"
      BY <1>1, <2>2
    <3> QED
      BY <2>1, <2>2, <3>1, Zenon DEF OutInv
  <2>3. CASE out' # <<>>
    <3>1. Len(out') \in 1..Len(Writes(Data'))
      BY <1>1, <1>4, <1>5, <2>3
    <3>2. ASSUME NEW i \in 1..Len(out') PROVE out'[i] = Writes(Data')[Made' + i]
      <4>1. out'[i] = out[i + 1] /\ i + 1 \in 1..Len(out) /\ Made + (i + 1) = Made' + i
        BY <1>4, <1>5, <1>6
      <4> QED
        BY <1>1, <1>4, <4>1
    <3>3. loader' = "write"
      BY <1>1, <2>3
    <3> QED
      BY <2>1, <2>3, <3>1, <3>2, <3>3, Zenon DEF OutInv
  <2> QED
    BY <2>1, <2>2, <2>3
<1>11. ReadyInv'
  BY <1>1 DEF ReadyInv
<1>12. Consumed' = Consumed
  BY <1>7, <1>8 DEF Consumed
<1>13. Clean'
  <2> SUFFICES ASSUME lost' = 0 PROVE (Spoiling \/ Following \/ Spoiled \/ Accepted)'
    BY DEF Clean
  <2>1. Spoiling \/ Following \/ Spoiled \/ Accepted
    BY <1>0, <1>1 DEF Clean
  <2>2. UNCHANGED <<pc, word, left, dest, acc, mem>>
    BY <1>1 DEF bootVars
  <2>3. CASE Spoiling
    BY <1>1, <2>2, <2>3 DEF Spoiling
  <2>4. CASE Following
    <3>1. PICK d, c : d = Data /\ c = Consumed
      OBVIOUS
    <3>2. BootAt(d, c) /\ LineIs(d, c) /\ replies = <<>>
      BY <2>4, <3>1 DEF Following
    <3>3. BootAt(d, c)'
      BY <2>2, <3>2 DEF BootAt, Stored
    <3>4. LineIs(d, c)'
      <4> SUFFICES ASSUME NEW i \in 1..Len(line') PROVE line'[i] = StreamOf(d)[c + i]
        BY DEF LineIs
      <4>1. CASE i <= Len(line)
        BY <1>8, <3>2, <4>1 DEF LineIs
      <4>2. CASE ~(i <= Len(line))
        <5>1. i - Len(line) \in 1..Len(w) /\ line'[i] = w[i - Len(line)]
          BY <1>7, <1>8, <4>2
        <5>2. c = Written - Len(line)
          BY <3>1 DEF Consumed
        <5>3. Written + (i - Len(line)) = c + i
          BY <1>7, <1>8, <5>2
        <5> QED
          BY <1>7, <3>1, <5>1, <5>3
      <4> QED
        BY <4>1, <4>2
    <3>5. Data' = d /\ Consumed' = c
      BY <1>1, <1>12, <3>1
    <3> QED
      BY <1>1, <3>2, <3>3, <3>4, <3>5 DEF Following, BootAt, LineIs
  <2>5. CASE Spoiled
    BY <1>1, <2>5 DEF Spoiled
  <2>6. CASE Accepted
    BY <1>4, <2>6 DEF Accepted
  <2> QED
    BY <2>1, <2>3, <2>4, <2>5, <2>6
<1>14. Count'
  <2>1. Coming = WordBytes + Len(Data) + 1 - Written
    BY <1>1 DEF Coming
  <2>2. Coming' = WordBytes + Len(Data) + 1 - Written'
    <3>1. CASE out' # <<>>
      BY <1>1, <3>1 DEF Coming
    <3>2. CASE out' = <<>>
      <4>0. Len(out') = 0 /\ Len(out') = Len(out) - 1 /\ Len(out) \in Nat
        <5>1. Len(out') = 0
          BY <3>2
        <5> QED
          BY <1>4, <1>5, <5>1
      <4>1. Made + 1 = Len(Writes(Data))
        <5>1. Made + Len(out) = Len(Writes(Data)) /\ Len(out) = 1
          BY <1>4, <4>0
        <5> QED
          BY <5>1
      <4>2. end = WordBytes + Len(Data) + 1
        <5>1. 0 \in 0..Len(Writes(Data))
          BY <1>4
        <5> QED
          BY <1>3, <4>1, <5>1, EndsInRange DEF end
      <4>3. loader' # "write"
        BY <1>1, <3>2
      <4> QED
        BY <1>3, <1>7, <4>2, <4>3 DEF Coming
    <3> QED
      BY <3>1, <3>2
  <2>3. Received \in Nat /\ Coming \in Nat
    BY Counted
  <2>4. Received' + Len(line') + Coming' = Received + Len(line) + Coming
    BY <1>2, <1>3, <1>7, <1>8, <2>1, <2>2, <2>3
  <2> QED
    BY <1>0, <2>4 DEF Count
<1> QED
  BY <1>2, <1>9, <1>10, <1>11, <1>13, <1>14 DEF IInv

LEMMA DeliverInv == ASSUME IInv, Deliver PROVE IInv'
<1>0. /\ BootTypeOK /\ OutTyped /\ OutInv /\ PcInv /\ ReadyInv /\ Clean /\ Count
      /\ loader \in {"closed", "await_ready", "write", "await_response"}
      /\ binary \in Binaries /\ line \in Seq(Byte) /\ lost \in 0..MaxLost
      /\ replies \in Seq(Sending) /\ Len(replies) <= Backlog
  BY Parts, Zenon
<1> DEFINE b == Head(line)
<1>1. /\ line # <<>> /\ Receive(b) /\ line' = Tail(line)
      /\ UNCHANGED <<loader, binary, out, replies, lost>> /\ Data' = Data
      /\ Made' = Made /\ Written' = Written
  BY DEF Deliver, Data, Made, Written
<1>2. /\ line' \in Seq(Byte) /\ Len(line) \in Nat \ {0} /\ Len(line') = Len(line) - 1
      /\ \A i \in 1..Len(line') : line'[i] = line[i + 1] /\ i + 1 \in 1..Len(line)
      /\ b = line[1] /\ 1 \in 1..Len(line) /\ b \in Byte
  BY <1>0, <1>1, TailOf
<1> HIDE DEF b
<1>3. /\ PcTyped' /\ WordInv' /\ RestTyped' /\ dest' \in Nat /\ PcInv'
      /\ Received' <= Received + 1
  BY <1>0, <1>1, <1>2, ReceiveTyped
<1>4. /\ Coming' = Coming /\ Received \in Nat /\ Coming \in Nat /\ Len(line') \in Nat
      /\ Received + Len(line) + Coming <= WordBytes + WordBytes * MemWords + 1
      /\ WordBytes * MemWords \in Nat
  <2>1. Coming' = Coming
    BY <1>1 DEF Coming
  <2>2. Received + Len(line) + Coming <= WordBytes + WordBytes * MemWords + 1
    BY <1>0 DEF Count
  <2> QED
    BY <1>2, <2>1, <2>2, Counted
<1>5. WordBytes * dest' \in Nat /\ Len(word') \in Nat /\ Received' \in Nat
  <2>1. dest' \in Nat
    BY <1>3
  <2>2. WordBytes * dest' \in Nat
    <3>1. PICK d \in Nat : d = dest'
      BY <2>1
    <3>2. WordBytes * d \in Nat
      OBVIOUS
    <3> QED
      BY <3>1, <3>2
  <2>3. Len(word') \in Nat
    BY <1>3 DEF WordInv
  <2> QED
    BY <2>2, <2>3 DEF Received
<1>6. Received' + Len(line') + Coming' <= WordBytes + WordBytes * MemWords + 1
  BY <1>2, <1>3, <1>4, <1>5
<1>7. dest' \in 0..MemWords
  <2>1. CASE pc' \in {"ready", "size"}
    BY <1>3, <2>1 DEF PcInv
  <2>2. CASE pc' \notin {"ready", "size"}
    <3>1. Received' = WordBytes + WordBytes * dest' + Len(word')
      BY <2>2 DEF Received
    <3>2. WordBytes * dest' <= WordBytes * MemWords + 1
      BY <1>4, <1>5, <1>6, <3>1
    <3>3. PICK d \in Nat : d = dest'
      BY <1>3
    <3>4. d <= MemWords
      BY <3>2, <3>3, DestInMemory
    <3> QED
      BY <3>3, <3>4
  <2> QED
    BY <2>1, <2>2
<1>8. TypeOK'
  <2>1. BootTypeOK'
    <3>1. word' \in UNION {[1..n -> Byte] : n \in 0 .. WordBytes - 1}
      BY <1>3, WordTyped DEF WordInv
    <3> QED
      BY <1>3, <1>7, <3>1 DEF BootTypeOK, PcTyped, RestTyped
  <2>2. /\ loader' \in {"closed", "await_ready", "write", "await_response"}
        /\ binary' \in Binaries /\ lost' \in 0..MaxLost
        /\ replies' \in Seq(Sending) /\ Len(replies') <= Backlog
    BY <1>0, <1>1
  <2> QED
    BY <1>2, <2>1, <2>2, Retyped
<1>9. OutTyped' /\ OutInv'
  BY <1>0, <1>1 DEF OutTyped, OutInv
<1>10. ReadyInv'
  BY <1>0, <1>1 DEF ReadyInv
<1>11. Clean'
  <2> SUFFICES ASSUME lost' = 0, loader' \in {"write", "await_response"}
               PROVE  (Spoiling \/ Following \/ Spoiled \/ Accepted)'
    BY DEF Clean
  <2>1. Spoiling \/ Following \/ Spoiled \/ Accepted
    BY <1>0, <1>1 DEF Clean
  <2>2. pc \in Receiving
    BY <1>1 DEF Receive, GetSize, GetData, GetChecksum, Receiving
  <2>3. ~Spoiling /\ ~Accepted
    BY <1>1, <2>2 DEF Spoiling, Accepted, Receiving
  <2>4. CASE Following
    <3>1. PICK d, c : d = Data /\ c = Consumed
      OBVIOUS
    <3>2. BootAt(d, c) /\ LineIs(d, c) /\ replies = <<>>
      BY <2>4, <3>1 DEF Following
    <3>3. d \in Seq(Byte) /\ Len(d) \in Nat /\ Len(d) < WordMax
      BY <1>0, <3>1, DataTyped
    <3>4. PICK m \in Nat : Len(d) = WordBytes * m /\ m <= MemWords
      BY <1>0, <3>1, DataTyped
    <3>5. c \in Nat /\ c <= WordBytes + Len(d)
      <4>1. Written <= WordBytes + Len(d) + 1 /\ Written \in Nat
        BY <1>0, <3>1, <3>3, WrittenTyped
      <4>2. c = Written - Len(line)
        BY <3>1 DEF Consumed
      <4>3. c \in Nat
        BY <3>2, <3>3 DEF BootAt
      <4> QED
        BY <1>2, <3>3, <4>1, <4>2, <4>3
    <3>6. b = StreamOf(d)[c + 1]
      BY <1>2, <3>2 DEF LineIs
    <3>7. BootAt(d, c + 1)'
      BY <1>0, <1>1, <1>2, <3>2, <3>3, <3>4, <3>5, <3>6, ReceiveFollows
    <3>8. LineIs(d, c + 1)'
      <4> SUFFICES ASSUME NEW i \in 1..Len(line') PROVE line'[i] = StreamOf(d)[(c + 1) + i]
        BY DEF LineIs
      <4>1. line'[i] = line[i + 1] /\ i + 1 \in 1..Len(line)
        BY <1>2
      <4>2. c + (i + 1) = (c + 1) + i
        BY <3>5
      <4> QED
        BY <3>2, <4>1, <4>2 DEF LineIs
    <3>9. Data' = d /\ Consumed' = c + 1
      <4>1. Written \in Nat
        BY <1>0, WrittenTyped
      <4> QED
        BY <1>1, <1>2, <3>1, <4>1 DEF Consumed
    <3> QED
      BY <1>1, <3>2, <3>7, <3>8, <3>9 DEF Following, BootAt, LineIs
  <2>5. CASE Spoiled
    BY <1>1, <2>5 DEF Spoiled
  <2> QED
    BY <2>1, <2>3, <2>4, <2>5
<1> QED
  BY <1>3, <1>6, <1>8, <1>9, <1>10, <1>11 DEF IInv, Count

LEMMA MissInv == ASSUME IInv, Miss PROVE IInv'
<1>0. /\ BootTypeOK /\ OutTyped /\ OutInv /\ PcInv /\ ReadyInv /\ Count
      /\ loader \in {"closed", "await_ready", "write", "await_response"}
      /\ binary \in Binaries /\ line \in Seq(Byte) /\ lost \in 0..MaxLost
      /\ replies \in Seq(Sending) /\ Len(replies) <= Backlog
  BY Parts, Zenon
<1>1. /\ line # <<>> /\ line' = Tail(line) /\ UNCHANGED <<bootVars, loader, binary, out, replies>>
      /\ Data' = Data /\ Made' = Made /\ Written' = Written
  BY DEF Miss, Data, Made, Written
<1>2. line' \in Seq(Byte) /\ Len(line) \in Nat \ {0} /\ Len(line') = Len(line) - 1
  BY <1>0, <1>1, TailOf
<1>3. BootTypeOK' /\ PcInv' /\ Received' = Received
  BY <1>0, <1>1, BootSame
<1>4. lost' \in 0..MaxLost /\ lost' # 0
  BY <1>0 DEF Miss
<1>5. TypeOK'
  <2>1. /\ loader' \in {"closed", "await_ready", "write", "await_response"}
        /\ binary' \in Binaries /\ replies' \in Seq(Sending) /\ Len(replies') <= Backlog
    BY <1>0, <1>1
  <2> QED
    BY <1>2, <1>3, <1>4, <2>1, Retyped
<1>6. OutTyped' /\ OutInv'
  BY <1>0, <1>1 DEF OutTyped, OutInv
<1>7. ReadyInv'
  BY <1>0, <1>1 DEF ReadyInv
<1>8. Clean'
  BY <1>4 DEF Clean
<1>9. Count'
  <2>1. Coming' = Coming
    BY <1>1 DEF Coming
  <2>2. Received + Len(line) + Coming <= WordBytes + WordBytes * MemWords + 1
    BY <1>0 DEF Count
  <2>3. Received' + Len(line') + Coming' <= WordBytes + WordBytes * MemWords + 1
    BY <1>2, <1>3, <2>1, <2>2, Counted
  <2> QED
    BY <2>3 DEF Count
<1> QED
  BY <1>3, <1>5, <1>6, <1>7, <1>8, <1>9 DEF IInv

LEMMA ReplyInv == ASSUME IInv, Reply PROVE IInv'
<1>0. /\ BootTypeOK /\ OutTyped /\ OutInv /\ PcInv /\ ReadyInv /\ Clean /\ Count
      /\ loader \in {"closed", "await_ready", "write", "await_response"}
      /\ binary \in Binaries /\ line \in Seq(Byte) /\ lost \in 0..MaxLost
      /\ replies \in Seq(Sending) /\ Len(replies) <= Backlog
  BY Parts, Zenon
<1>1. /\ Send /\ UNCHANGED <<loader, binary, out, line, lost>>
      /\ Data' = Data /\ Made' = Made /\ Written' = Written /\ Consumed' = Consumed
      /\ pc \in Sending /\ UNCHANGED <<word, left, dest, acc, mem>>
      /\ pc = "ready" => pc' = "size"
  BY DEF Reply, Send, Data, Made, Written, Consumed
<1>2. BootTypeOK' /\ PcInv' /\ Received' = Received
  BY <1>0, <1>1, SendTyped
<1>3. \/ loader = "closed" /\ replies' = replies
      \/ /\ loader # "closed" /\ Len(replies) < Backlog /\ replies' = Append(replies, pc)
  BY DEF Reply
<1>4. ASSUME loader # "closed"
      PROVE  /\ replies' \in Seq(Sending) /\ Len(replies') = Len(replies) + 1 /\ Len(replies) \in Nat
             /\ replies'[Len(replies) + 1] = pc
             /\ \A i \in 1..Len(replies) : replies'[i] = replies[i]
  <2>1. replies' = Append(replies, pc)
    BY <1>3, <1>4
  <2> QED
    BY <1>0, <1>1, <2>1
<1>5. TypeOK'
  <2>1. replies' \in Seq(Sending) /\ Len(replies') <= Backlog
    BY <1>0, <1>3, <1>4
  <2>2. /\ loader' \in {"closed", "await_ready", "write", "await_response"}
        /\ binary' \in Binaries /\ line' \in Seq(Byte) /\ lost' \in 0..MaxLost
    BY <1>0, <1>1
  <2> QED
    BY <1>2, <2>1, <2>2, Retyped
<1>6. OutTyped' /\ OutInv'
  BY <1>0, <1>1 DEF OutTyped, OutInv
<1>7. ReadyInv'
  <2> SUFFICES ASSUME loader = "await_ready"
               PROVE  /\ line' = <<>> /\ lost' = 0
                      /\ \A i, j \in 1..Len(replies') : i < j /\ replies'[i] = "ready" => replies'[j] = "ready"
                      /\ (\E i \in 1..Len(replies') : replies'[i] = "ready") =>
                           pc' = "ready" \/ (pc' = "size" /\ word' = <<>>)
    BY <1>1 DEF ReadyInv
  <2>1. /\ line = <<>> /\ lost = 0
        /\ \A i, j \in 1..Len(replies) : i < j /\ replies[i] = "ready" => replies[j] = "ready"
        /\ (\E i \in 1..Len(replies) : replies[i] = "ready") =>
             pc = "ready" \/ (pc = "size" /\ word = <<>>)
    BY <1>0 DEF ReadyInv
  <2>2. word' = <<>>
    BY <1>0, <1>1 DEF PcInv, Sending
  <2>3. ASSUME NEW i \in 1..Len(replies'), NEW j \in 1..Len(replies'), i < j, replies'[i] = "ready"
        PROVE  replies'[j] = "ready"
    <3>1. i \in 1..Len(replies) /\ replies[i] = "ready"
      BY <1>4, <2>3
    <3>2. pc = "ready"
      BY <1>1, <2>1, <3>1 DEF Sending
    <3> QED
      BY <1>4, <2>1, <2>3, <3>1, <3>2
  <2>4. ASSUME NEW i \in 1..Len(replies'), replies'[i] = "ready"
        PROVE  pc' = "size"
    <3>1. pc = "ready"
      <4>1. CASE i \in 1..Len(replies)
        BY <1>1, <1>4, <2>1, <2>4, <4>1 DEF Sending
      <4>2. CASE i = Len(replies) + 1
        BY <1>4, <2>4, <4>2
      <4> QED
        BY <1>4, <4>1, <4>2
    <3> QED
      BY <1>1, <3>1
  <2> QED
    BY <1>1, <2>1, <2>2, <2>3, <2>4
<1>8. Clean'
  <2> SUFFICES ASSUME lost = 0, loader \in {"write", "await_response"}
               PROVE  (Spoiling \/ Following \/ Spoiled \/ Accepted)'
    BY <1>1 DEF Clean
  <2>1. Spoiling \/ Following \/ Spoiled \/ Accepted
    BY <1>0 DEF Clean
  <2>2. ASSUME replies = <<>> PROVE replies' # <<>> /\ Head(replies') = pc
    <3>1. replies' = Append(replies, pc)
      BY <1>3
    <3> QED
      BY <2>2, <3>1
  <2>3. ASSUME replies # <<>> PROVE replies' # <<>> /\ Head(replies') = Head(replies)
    <3>1. replies' = Append(replies, pc)
      BY <1>3
    <3> QED
      BY <1>0, <2>3, <3>1
  <2>4. CASE Spoiling
    BY <2>2, <2>4 DEF Spoiling, Spoiled
  <2>5. CASE Following
    <3>1. PICK d, c : d = Data /\ c = Consumed
      OBVIOUS
    <3>2. BootAt(d, c) /\ replies = <<>>
      BY <2>5, <3>1 DEF Following
    <3>3. pc = "ok" /\ c = WordBytes + Len(d) + 1 /\ Stored(d, Len(d))
      BY <1>1, <3>2 DEF BootAt, Sending
    <3>4. d \in Seq(Byte) /\ Len(d) \in Nat
      BY <1>0, <3>1, DataTyped
    <3>5. /\ Written \in 0 .. WordBytes + Len(d) + 1
          /\ out # <<>> => Written <= WordBytes + Len(d)
      BY <1>0, <3>1, WrittenTyped
    <3>6. Written - Len(line) = WordBytes + Len(d) + 1 /\ Len(line) \in Nat
      BY <1>0, <3>1, <3>3 DEF Consumed
    <3>7. Len(line) = 0 /\ Written = WordBytes + Len(d) + 1
      BY <3>4, <3>5, <3>6
    <3>8. line = <<>> /\ out = <<>>
      BY <1>0, <3>4, <3>5, <3>7
    <3>9. Stored(Data, Len(Data))'
      BY <1>1, <3>1, <3>3 DEF Stored
    <3> QED
      BY <1>1, <2>2, <3>2, <3>3, <3>8, <3>9 DEF Accepted
  <2>6. CASE Spoiled
    BY <2>3, <2>6 DEF Spoiled
  <2>7. CASE Accepted
    <3>1. Stored(Data, Len(Data))'
      BY <1>1, <2>7 DEF Accepted, Stored
    <3> QED
      BY <1>1, <2>3, <2>7, <3>1 DEF Accepted
  <2> QED
    BY <2>1, <2>4, <2>5, <2>6, <2>7
<1>9. Count'
  BY <1>0, <1>1, <1>2 DEF Count, Coming
<1> QED
  BY <1>2, <1>5, <1>6, <1>7, <1>8, <1>9 DEF IInv

\* A timeout or the board's reset.
LEMMA RestartInv == ASSUME IInv, Restart, UNCHANGED linkVars PROVE IInv'
<1>0. /\ BootTypeOK /\ OutTyped /\ OutInv /\ ReadyInv /\ Clean /\ Count
      /\ loader \in {"closed", "await_ready", "write", "await_response"}
      /\ binary \in Binaries /\ line \in Seq(Byte) /\ lost \in 0..MaxLost
      /\ replies \in Seq(Sending) /\ Len(replies) <= Backlog
  BY Parts, Zenon
<1>1. /\ UNCHANGED <<loader, binary, out, line, replies, lost>>
      /\ Data' = Data /\ Made' = Made /\ Written' = Written
      /\ pc' = "ready" /\ mem' = mem
  BY DEF Restart, linkVars, Data, Made, Written
<1>2. BootTypeOK' /\ PcInv' /\ Received' = 0
  BY <1>0, RestartTyped
<1>3. TypeOK'
  <2>1. /\ loader' \in {"closed", "await_ready", "write", "await_response"}
        /\ binary' \in Binaries /\ line' \in Seq(Byte) /\ lost' \in 0..MaxLost
        /\ replies' \in Seq(Sending) /\ Len(replies') <= Backlog
    BY <1>0, <1>1
  <2> QED
    BY <1>2, <2>1, Retyped
<1>4. OutTyped' /\ OutInv'
  BY <1>0, <1>1 DEF OutTyped, OutInv
<1>5. ReadyInv'
  BY <1>0, <1>1 DEF ReadyInv
<1>6. Clean'
  <2> SUFFICES ASSUME lost = 0, loader \in {"write", "await_response"}
               PROVE  (Spoiling \/ Spoiled \/ Accepted)'
    BY <1>1 DEF Clean
  <2>1. Spoiling \/ Following \/ Spoiled \/ Accepted
    BY <1>0 DEF Clean
  <2>2. CASE replies = <<>>
    BY <1>1, <2>2 DEF Spoiling
  <2>3. CASE Spoiled
    BY <1>1, <2>3 DEF Spoiled
  <2>4. CASE Accepted
    <3>1. Stored(Data, Len(Data))'
      BY <1>1, <2>4 DEF Accepted, Stored
    <3> QED
      BY <1>1, <2>4, <3>1 DEF Accepted
  <2> QED
    BY <2>1, <2>2, <2>3, <2>4 DEF Spoiling, Following
<1>7. Count'
  <2>1. Coming' = Coming /\ Len(line') = Len(line)
    BY <1>1 DEF Coming
  <2>2. Received + Len(line) + Coming <= WordBytes + WordBytes * MemWords + 1
    BY <1>0 DEF Count
  <2>3. Received' + Len(line') + Coming' <= WordBytes + WordBytes * MemWords + 1
    BY <1>2, <2>1, <2>2, Counted
  <2> QED
    BY <2>3 DEF Count
<1> QED
  BY <1>2, <1>3, <1>4, <1>5, <1>6, <1>7 DEF IInv

LEMMA StutterInv == ASSUME IInv, UNCHANGED vars PROVE IInv'
<1>1. /\ UNCHANGED <<pc, word, left, dest, acc, mem>>
      /\ UNCHANGED <<loader, binary, out, line, replies, lost>>
  BY DEF vars, bootVars, linkVars
<1>2. /\ Data' = Data /\ Made' = Made /\ Written' = Written /\ Consumed' = Consumed
      /\ Received' = Received /\ Coming' = Coming
  BY <1>1 DEF Data, Made, Written, Consumed, Received, Coming
<1>3. Stored(Data, Len(Data))' = Stored(Data, Len(Data)) /\ BootAt(Data, Consumed)' = BootAt(Data, Consumed)
      /\ LineIs(Data, Consumed)' = LineIs(Data, Consumed)
  BY <1>1, <1>2 DEF Stored, BootAt, LineIs
<1>4. Clean'
  BY <1>1, <1>2, <1>3 DEF IInv, Clean, Spoiling, Following, Spoiled, Accepted
<1>5. TypeOK'
  BY <1>1 DEF IInv, TypeOK, BootTypeOK
<1>6. OutTyped' /\ OutInv' /\ PcInv' /\ ReadyInv' /\ Count'
  BY <1>1, <1>2 DEF IInv, OutTyped, OutInv, PcInv, ReadyInv, Count
<1> QED
  BY <1>4, <1>5, <1>6 DEF IInv

LEMMA StepInv == IInv /\ [Next]_vars => IInv'
<1> SUFFICES ASSUME IInv, [Next]_vars PROVE IInv'
  OBVIOUS
<1>1. CASE Open
  BY <1>1, OpenInv
<1>2. CASE ReadReady
  BY <1>2, ReadReadyInv
<1>3. CASE Write
  BY <1>3, WriteInv
<1>4. CASE Report
  BY <1>4, CloseInv DEF Report, Reports
<1>5. CASE GiveUp
  BY <1>5, CloseInv DEF GiveUp
<1>6. CASE Deliver
  BY <1>6, DeliverInv
<1>7. CASE Miss
  BY <1>7, MissInv
<1>8. CASE Reply
  BY <1>8, ReplyInv
<1>9. CASE Timeout
  BY <1>9, RestartInv DEF Timeout, RxTimeout
<1>10. CASE KeyReset
  BY <1>10, RestartInv DEF KeyReset, BoardReset
<1>11. CASE UNCHANGED vars
  BY <1>11, StutterInv
<1> QED
  BY <1>1, <1>2, <1>3, <1>4, <1>5, <1>6, <1>7, <1>8, <1>9, <1>10, <1>11 DEF Next

-----------------------------------------------------------------------------
\* IInv holds in every state an upload can reach.
THEOREM UploadInvariant == Spec => []IInv
<1>1. Init => IInv
  BY InitInv
<1>2. IInv /\ [Next]_vars => IInv'
  BY StepInv
<1> QED
  BY <1>1, <1>2, PTL DEF Spec

\* The types of the bootloader's registers and of the loader's side: above all
\* the address a word is stored at stays in the memory, although the code
\* checks neither it nor the size it was given (bootloader.asm:88-113).
THEOREM Typed == Spec => []TypeOK
<1>1. IInv => TypeOK
  BY Zenon DEF IInv
<1> QED
  BY <1>1, UploadInvariant, PTL

\* What is stored is what SubSeq cuts out of the file.
LEMMA StoredIsLoaded ==
  ASSUME BootTypeOK, binary \in Binaries, Stored(Data, Len(Data))
  PROVE  Loaded
<1>1. Data \in Seq(Byte) /\ Len(Data) \in Nat
  BY DataTyped
<1>2. PICK m \in Nat : Len(Data) = WordBytes * m /\ m <= MemWords
  BY DataTyped
<1>3. Len(Data) \div WordBytes = m
  BY <1>2
<1> SUFFICES ASSUME NEW i \in 0 .. m - 1
             PROVE  mem[i] = SubSeq(Data, WordBytes * i + 1, WordBytes * (i + 1))
  BY <1>3 DEF Loaded, Data
<1>4. /\ WordBytes * i \in Nat /\ WordBytes * (i + 1) = WordBytes * i + WordBytes
      /\ WordBytes * (i + 1) <= Len(Data)
  <2>1. WordBytes * (i + 1) <= WordBytes * m
    BY <1>2
  <2> QED
    BY <1>2, <2>1
<1> DEFINE from == WordBytes * i
           cut == SubSeq(Data, from + 1, from + WordBytes)
<1>5. mem[i] \in Seq(Byte) /\ Len(mem[i]) = WordBytes
  <2>1. mem[i] \in [1..WordBytes -> Byte]
    BY <1>2 DEF BootTypeOK, Word
  <2> QED
    BY <2>1, SeqDef
<1>6. /\ cut \in Seq(Byte) /\ Len(cut) = WordBytes
      /\ \A k \in 1..WordBytes : cut[k] = Data[from + k]
  <2>1. from \in Nat /\ from + WordBytes <= Len(Data)
    BY <1>4
  <2>2. \A k \in (from + 1) .. (from + WordBytes) : Data[k] \in Byte
    BY <1>1, <2>1
  <2> HIDE DEF from
  <2> QED
    BY <1>1, <2>1, <2>2
<1>7. \A k \in 1..WordBytes : mem[i][k] = Data[from + k]
  BY <1>2, <1>4 DEF Stored
<1>8. mem[i] = cut
  <2> HIDE DEF cut, from
  <2> QED
    BY <1>5, <1>6, <1>7, SeqEqual
<1> QED
  BY <1>4, <1>8

\* uart_loader.py:129-130 for every file that fits, every size of a word, of a
\* chunk and of the memory: a success that is reported of an upload no byte of
\* which was missed means that the program is in memory.
THEOREM OkProved == Spec => OkMeansLoaded
<1>1. IInv => (Reports("ok") /\ lost = 0 => Loaded)
  <2> SUFFICES ASSUME IInv, Reports("ok"), lost = 0 PROVE Loaded
    OBVIOUS
  <2>1. BootTypeOK /\ binary \in Binaries /\ Clean
    BY Parts, Zenon
  <2>2. loader = "await_response" /\ replies # <<>> /\ Head(replies) = "ok"
    BY DEF Reports
  <2>3. Spoiling \/ Following \/ Spoiled \/ Accepted
    BY <2>1, <2>2 DEF Clean
  <2>4. Stored(Data, Len(Data))
    BY <2>2, <2>3 DEF Spoiling, Following, Spoiled, Accepted
  <2> QED
    BY <2>1, <2>4, StoredIsLoaded
<1> QED
  BY <1>1, UploadInvariant, PTL DEF OkMeansLoaded

\* uart_loader.py:131-132 for the same: only an upload that lost bytes is
\* reported as a checksum mismatch.
THEOREM RejectsProved == Spec => RejectsOnlyLosses
<1>1. IInv => (Reports("error") => lost > 0)
  <2> SUFFICES ASSUME IInv, Reports("error"), ~(lost > 0) PROVE FALSE
    OBVIOUS
  <2>1. lost \in 0..MaxLost /\ Clean
    BY Parts, Zenon
  <2>2. loader = "await_response" /\ replies # <<>> /\ Head(replies) = "error"
    BY DEF Reports
  <2>3. lost = 0
    BY <2>1
  <2> QED
    BY <2>1, <2>2, <2>3 DEF Clean, Spoiling, Following, Spoiled, Accepted
<1> QED
  BY <1>1, UploadInvariant, PTL DEF RejectsOnlyLosses
=============================================================================
