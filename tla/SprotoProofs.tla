---------------------------- MODULE SprotoProofs ----------------------------
(***************************************************************************)
(* sproto for every schema, message and number of calls.  Packing and        *)
(* unpacking; what loading a schema makes of it, and finding things in it;   *)
(* the header of a package, written and read back; and with these the         *)
(* invariant of SprotoRpc.  The content behind a header is a parameter.      *)
(***************************************************************************)
EXTENDS SprotoRpc, TLAPS, WellFoundedInduction, SequenceTheorems, FiniteSetTheorems

-----------------------------------------------------------------------------
(* Induction over numbers, on a set of numbers: a loop's states exist. *)

LEMMA LeastNat ==
    ASSUME NEW T, T \subseteq Nat, T # {}
    PROVE  \E x \in T : \A y \in T : x <= y
<1> DEFINE R == OpToRel(<, Nat)
<1>1. IsWellFoundedOn(R, Nat)
  BY NatLessThanWellFounded
<1>2. \A x, y \in Nat : x < y => <<x, y>> \in R
  BY DEF OpToRel
<1> HIDE DEF R
<1>3. PICK x \in T : \A y \in T : ~(<<y, x>> \in R)
  BY <1>1, WFMin
<1>4. ASSUME NEW y \in T PROVE x <= y
  <2>1. x \in Nat /\ y \in Nat
    OBVIOUS
  <2>2. ~(y < x)
    BY <1>2, <1>3, <2>1
  <2> QED BY <2>1, <2>2
<1> QED BY <1>4

LEMMA Upwards ==
    ASSUME NEW n \in Nat, NEW S, 0 \in S, \A k \in 1 .. n : k - 1 \in S => k \in S
    PROVE  0 .. n \subseteq S
<1> SUFFICES ASSUME (0 .. n) \ S # {} PROVE FALSE
  OBVIOUS
<1>1. PICK x \in (0 .. n) \ S : \A y \in (0 .. n) \ S : x <= y
  <2>1. (0 .. n) \ S \subseteq Nat
    OBVIOUS
  <2> QED BY <2>1, LeastNat
<1>2. x \in 1 .. n /\ x - 1 \in 0 .. n
  BY <1>1
<1>3. x - 1 \in S
  BY <1>1, <1>2
<1> QED BY <1>1, <1>2, <1>3

(* The states of a loop: step[k] is what its k-th round does. *)
Iterates(f, n, x0, step) == f = [k \in 0 .. n |-> IF k = 0 THEN x0 ELSE step[k][f[k - 1]]]

LEMMA IterationExists ==
    ASSUME NEW n \in Nat, NEW X, NEW x0 \in X, NEW step,
           \A k \in 1 .. n : \A x \in X : step[k][x] \in X
    PROVE  \E f \in [0 .. n -> X] : Iterates(f, n, x0, step)
<1> DEFINE Solves(f, m) == /\ f \in [0 .. n -> X] /\ f[0] = x0
                           /\ \A k \in 1 .. n : k <= m => \A u \in 0 .. n : u + 1 = k => f[k] = step[k][f[u]]
           S == {m \in 0 .. n : \E f : Solves(f, m)}
<1>1. 0 \in S
  <2>1. Solves([k \in 0 .. n |-> x0], 0)
    OBVIOUS
  <2>2. 0 \in 0 .. n
    OBVIOUS
  <2> HIDE DEF Solves
  <2> QED BY <2>1, <2>2
<1>2. ASSUME NEW m \in 1 .. n, m - 1 \in S PROVE m \in S
  <2>1. PICK g : Solves(g, m - 1)
    BY <1>2
  <2>2. PICK v : v \in 0 .. n /\ v + 1 = m /\ v = m - 1
    OBVIOUS
  <2> DEFINE f == [g EXCEPT ![m] = step[m][g[v]]]
  <2>3. f \in [0 .. n -> X] /\ f[0] = x0
    BY <2>1, <2>2
  <2>4. ASSUME NEW k \in 1 .. n, k <= m, NEW u \in 0 .. n, u + 1 = k PROVE f[k] = step[k][f[u]]
    <3>1. u # m
      BY <2>4
    <3>2. f[u] = g[u]
      BY <2>1, <3>1
    <3>3. CASE k = m
      <4>1. u = v
        BY <2>2, <2>4, <3>3
      <4> QED BY <2>1, <3>2, <3>3, <4>1
    <3>4. CASE k # m
      <4>1. k <= m - 1
        BY <2>4, <3>4
      <4>2. g[k] = step[k][g[u]]
        BY <2>1, <2>4, <4>1
      <4>3. f[k] = g[k]
        BY <2>1, <3>4
      <4> QED BY <3>2, <4>2, <4>3
    <3> QED BY <3>3, <3>4
  <2>5. Solves(f, m)
    <3> HIDE DEF f
    <3> QED BY <2>3, <2>4
  <2> HIDE DEF f, Solves
  <2> QED BY <2>5
<1>3. n \in S
  <2> HIDE DEF S
  <2>1. n \in 0 .. n
    OBVIOUS
  <2> QED BY <1>1, <1>2, <2>1, Upwards
<1>4. PICK f : Solves(f, n)
  BY <1>3
<1>5. ASSUME NEW k \in 0 .. n PROVE f[k] = IF k = 0 THEN x0 ELSE step[k][f[k - 1]]
  <2>1. CASE k = 0
    BY <1>4, <2>1
  <2>2. CASE k # 0
    <3>1. PICK u : u = k - 1 /\ u \in 0 .. n /\ u + 1 = k /\ k \in 1 .. n /\ k <= n
      BY <2>2
    <3>2. f[k] = step[k][f[u]]
      BY <1>4, <3>1
    <3> QED BY <2>2, <3>1, <3>2
  <2> QED BY <2>1, <2>2
<1>6. f = [k \in 0 .. n |-> f[k]] /\ f \in [0 .. n -> X]
  BY <1>4
<1>7. [k \in 0 .. n |-> f[k]] = [k \in 0 .. n |-> IF k = 0 THEN x0 ELSE step[k][f[k - 1]]]
  BY <1>5
<1>8. Iterates(f, n, x0, step)
  BY <1>6, <1>7 DEF Iterates
<1> QED BY <1>6, <1>8

-----------------------------------------------------------------------------
(* A segment: its header, and the bytes behind it. *)

LEMMA HeaderBits ==
    ASSUME NEW seg \in [Seg -> Byte]
    PROVE  /\ Header(seg) \in Byte
           /\ \A i \in Seg : Bit(Header(seg), i) = IF seg[i] = 0 THEN 0 ELSE 1
           /\ NonZero(seg) # Seg => Header(seg) # 255
<1> DEFINE B(i) == IF seg[i] = 0 THEN 0 ELSE 1
           H == Header(seg)
<1>1. /\ Weight[1] = 1 /\ Weight[2] = 2 /\ Weight[3] = 4 /\ Weight[4] = 8
      /\ Weight[5] = 16 /\ Weight[6] = 32 /\ Weight[7] = 64 /\ Weight[8] = 128
  BY DEF Weight
<1>2. H = B(1) + 2 * B(2) + 4 * B(3) + 8 * B(4) + 16 * B(5) + 32 * B(6) + 64 * B(7) + 128 * B(8)
  BY <1>1 DEF Header
<1>3. \A i \in Seg : B(i) \in {0, 1} /\ (B(i) = 1 <=> seg[i] # 0)
  OBVIOUS
<1>4. 1 \in Seg /\ 2 \in Seg /\ 3 \in Seg /\ 4 \in Seg /\ 5 \in Seg /\ 6 \in Seg /\ 7 \in Seg /\ 8 \in Seg
      /\ \A i \in Seg : i = 1 \/ i = 2 \/ i = 3 \/ i = 4 \/ i = 5 \/ i = 6 \/ i = 7 \/ i = 8
  BY DEF Seg
<1> HIDE DEF B, H
<1>5. /\ H \in Byte
      /\ H = 255 => \A i \in Seg : B(i) = 1
      /\ (H \div 1) % 2 = B(1) /\ (H \div 2) % 2 = B(2) /\ (H \div 4) % 2 = B(3) /\ (H \div 8) % 2 = B(4)
      /\ (H \div 16) % 2 = B(5) /\ (H \div 32) % 2 = B(6) /\ (H \div 64) % 2 = B(7) /\ (H \div 128) % 2 = B(8)
  <2>1. /\ B(1) \in {0, 1} /\ B(2) \in {0, 1} /\ B(3) \in {0, 1} /\ B(4) \in {0, 1}
        /\ B(5) \in {0, 1} /\ B(6) \in {0, 1} /\ B(7) \in {0, 1} /\ B(8) \in {0, 1}
    BY <1>3, <1>4
  <2>2. H \in Byte
    BY <1>2, <2>1 DEF Byte
  <2>3. H = 255 => B(1) = 1 /\ B(2) = 1 /\ B(3) = 1 /\ B(4) = 1 /\ B(5) = 1 /\ B(6) = 1 /\ B(7) = 1 /\ B(8) = 1
    BY <1>2, <2>1
  <2>4. (H \div 1) % 2 = B(1)
    BY <1>2, <2>1
  <2>5. (H \div 2) % 2 = B(2)
    BY <1>2, <2>1
  <2>6. (H \div 4) % 2 = B(3)
    BY <1>2, <2>1
  <2>7. (H \div 8) % 2 = B(4)
    BY <1>2, <2>1
  <2>8. (H \div 16) % 2 = B(5)
    BY <1>2, <2>1
  <2>9. (H \div 32) % 2 = B(6)
    BY <1>2, <2>1
  <2>10. (H \div 64) % 2 = B(7)
    BY <1>2, <2>1
  <2>11. (H \div 128) % 2 = B(8)
    BY <1>2, <2>1
  <2> QED BY <2>2, <2>3, <2>4, <2>5, <2>6, <2>7, <2>8, <2>9, <2>10, <2>11, <1>4
<1>6. \A i \in Seg : Bit(H, i) = B(i)
  BY <1>1, <1>4, <1>5 DEF Bit
<1>7. ASSUME H = 255 PROVE NonZero(seg) = Seg
  BY <1>3, <1>5, <1>7 DEF NonZero
<1> QED BY <1>5, <1>6, <1>7 DEF B, H

(* Bits counts the bits one by one. *)
LEMMA BitsCounted ==
    ASSUME NEW h
    PROVE  /\ Bits(h, 0) = 0
           /\ \A i \in Seg : \A u \in 0 .. 8 : u + 1 = i =>
                 /\ Bits(h, u) \in Nat
                 /\ Bits(h, i) = IF Bit(h, i) = 1 THEN Bits(h, u) + 1 ELSE Bits(h, u)
<1> DEFINE Set(i) == {j \in 1 .. i : Bit(h, j) = 1}
<1>1. Bits(h, 0) = 0
  <2>1. Set(0) = {}
    OBVIOUS
  <2> QED BY <2>1, FS_EmptySet DEF Bits
<1>2. ASSUME NEW i \in Seg, NEW u \in 0 .. 8, u + 1 = i
      PROVE  /\ Bits(h, u) \in Nat
             /\ Bits(h, i) = IF Bit(h, i) = 1 THEN Bits(h, u) + 1 ELSE Bits(h, u)
  <2>1. IsFiniteSet(Set(u))
    <3>1. IsFiniteSet(1 .. u)
      BY FS_Interval
    <3> QED BY <3>1, FS_Subset
  <2>2. Cardinality(Set(u)) \in Nat
    BY <2>1, FS_CardinalityType
  <2>3. i \notin Set(u)
    BY <1>2 DEF Seg
  <2>4. CASE Bit(h, i) = 1
    <3>1. Set(i) = Set(u) \cup {i}
      BY <1>2, <2>4 DEF Seg
    <3>2. Cardinality(Set(i)) = Cardinality(Set(u)) + 1
      BY <2>1, <2>3, <3>1, FS_AddElement
    <3> QED BY <2>2, <2>4, <3>2 DEF Bits
  <2>5. CASE Bit(h, i) # 1
    <3>1. Set(i) = Set(u)
      BY <1>2, <2>5 DEF Seg
    <3> QED BY <2>2, <2>5, <3>1 DEF Bits
  <2> QED BY <2>4, <2>5
<1> QED BY <1>1, <1>2

(* The bytes that are not zero, in order: where Bits says that they are. *)
LEMMA Gathered ==
    ASSUME NEW seg \in [Seg -> Byte], NEW h, h = Header(seg)
    PROVE  /\ NonZeros(seg) \in Seq(Byte) /\ Len(NonZeros(seg)) = Bits(h, 8)
           /\ \A i \in Seg : seg[i] # 0 => /\ Bits(h, i) \in 1 .. Len(NonZeros(seg))
                                           /\ NonZeros(seg)[Bits(h, i)] = seg[i]
<1> DEFINE Eq(f) == f = [i \in 0 .. 8 |-> IF i = 0 THEN <<>>
                                          ELSE IF seg[i] = 0 THEN f[i - 1] ELSE Append(f[i - 1], seg[i])]
           some == CHOOSE f : Eq(f)
           X == Seq(Byte)
           step == [k \in 1 .. 8 |-> [x \in X |-> IF seg[k] = 0 THEN x ELSE Append(x, seg[k])]]
<1>1. Eq(some)
  <2>1. <<>> \in X
    OBVIOUS
  <2>2. ASSUME NEW k \in 1 .. 8, NEW x \in X PROVE step[k][x] \in X
    <3>1. seg[k] \in Byte
      BY DEF Seg
    <3>2. Append(x, seg[k]) \in X
      BY <3>1
    <3> QED BY <3>2
  <2>3. \E f \in [0 .. 8 -> X] : Iterates(f, 8, <<>>, step)
    <3> HIDE DEF X, step
    <3> QED BY <2>1, <2>2, IterationExists
  <2>4. PICK f \in [0 .. 8 -> X] : Iterates(f, 8, <<>>, step)
    BY <2>3
  <2>5. ASSUME NEW i \in 0 .. 8, i # 0
        PROVE  step[i][f[i - 1]] = IF seg[i] = 0 THEN f[i - 1] ELSE Append(f[i - 1], seg[i])
    <3>1. PICK u : u = i - 1 /\ u \in 0 .. 8 /\ i \in 1 .. 8
      BY <2>5
    <3>2. f[u] \in X
      BY <3>1
    <3>3. step[i][f[u]] = IF seg[i] = 0 THEN f[u] ELSE Append(f[u], seg[i])
      BY <3>1, <3>2
    <3> QED BY <3>1, <3>3
  <2>6. Eq(f)
    <3> HIDE DEF step, X
    <3>1. f = [i \in 0 .. 8 |-> IF i = 0 THEN <<>> ELSE step[i][f[i - 1]]]
      BY <2>4 DEF Iterates
    <3>2. [i \in 0 .. 8 |-> IF i = 0 THEN <<>> ELSE step[i][f[i - 1]]]
              = [i \in 0 .. 8 |-> IF i = 0 THEN <<>>
                                  ELSE IF seg[i] = 0 THEN f[i - 1] ELSE Append(f[i - 1], seg[i])]
      BY <2>5
    <3> QED BY <3>1, <3>2
  <2> HIDE DEF Eq
  <2> QED BY <2>6
<1>2. NonZeros(seg) = some[8]
  BY DEF NonZeros
<1> HIDE DEF some
<1>3. /\ some[0] = <<>>
      /\ \A i \in 1 .. 8 : \A u \in 0 .. 8 :
            u + 1 = i => some[i] = IF seg[i] = 0 THEN some[u] ELSE Append(some[u], seg[i])
  <2>1. \A i \in 0 .. 8 : some[i] = IF i = 0 THEN <<>>
                                    ELSE IF seg[i] = 0 THEN some[i - 1] ELSE Append(some[i - 1], seg[i])
    BY <1>1
  <2>2. 0 \in 0 .. 8
    OBVIOUS
  <2>3. some[0] = <<>>
    BY <2>1, <2>2
  <2>4. ASSUME NEW i \in 1 .. 8, NEW u \in 0 .. 8, u + 1 = i
        PROVE  some[i] = IF seg[i] = 0 THEN some[u] ELSE Append(some[u], seg[i])
    <3>1. i \in 0 .. 8 /\ i # 0 /\ u = i - 1
      BY <2>4
    <3>2. some[i] = IF seg[i] = 0 THEN some[i - 1] ELSE Append(some[i - 1], seg[i])
      BY <2>1, <3>1
    <3> QED BY <3>1, <3>2
  <2> QED BY <2>3, <2>4
<1> HIDE DEF Eq
<1> DEFINE P(i, s) == /\ s \in Seq(Byte) /\ Len(s) = Bits(h, i)
                      /\ \A j \in 1 .. i : seg[j] # 0 => Bits(h, j) \in 1 .. Len(s) /\ s[Bits(h, j)] = seg[j]
           T == {i \in 0 .. 8 : P(i, some[i])}
<1>4. 0 \in T
  <2>1. Bits(h, 0) = 0
    BY BitsCounted
  <2>2. P(0, <<>>)
    BY <2>1
  <2>3. P(0, some[0])
    BY <1>3, <2>2
  <2> HIDE DEF P
  <2> QED BY <2>3
<1>5. ASSUME NEW i \in 1 .. 8, i - 1 \in T PROVE i \in T
  <2>1. PICK u : u = i - 1 /\ u \in 0 .. 8 /\ u + 1 = i
    OBVIOUS
  <2>2. PICK s : s = some[u] /\ P(u, s)
    BY <1>5, <2>1
  <2>3. Bits(h, u) \in Nat /\ Bits(h, i) = IF seg[i] # 0 THEN Bits(h, u) + 1 ELSE Bits(h, u)
    <3>1. i \in Seg
      BY DEF Seg
    <3>2. Bit(h, i) = IF seg[i] = 0 THEN 0 ELSE 1
      BY <3>1, HeaderBits
    <3> QED BY <2>1, <3>1, <3>2, BitsCounted
  <2>4. some[i] = IF seg[i] = 0 THEN s ELSE Append(s, seg[i])
    BY <1>3, <2>1, <2>2
  <2>5. CASE seg[i] = 0
    <3>1. P(i, s)
      <4>1. \A j \in 1 .. i : seg[j] # 0 => j \in 1 .. u
        BY <2>1, <2>5
      <4> QED BY <2>2, <2>3, <2>5, <4>1
    <3>2. some[i] = s /\ i \in 0 .. 8
      BY <2>4, <2>5
    <3> QED BY <3>1, <3>2
  <2>6. CASE seg[i] # 0
    <3>1. seg[i] \in Byte
      BY DEF Seg
    <3>2. PICK t : t = Append(s, seg[i])
      OBVIOUS
    <3>3. /\ t \in Seq(Byte) /\ Len(t) = Len(s) + 1 /\ t[Len(s) + 1] = seg[i]
          /\ \A k \in 1 .. Len(s) : t[k] = s[k]
      BY <2>2, <3>1, <3>2, AppendProperties
    <3>4. Len(t) = Bits(h, i)
      BY <2>2, <2>3, <2>6, <3>3
    <3>5. ASSUME NEW j \in 1 .. i, seg[j] # 0 PROVE Bits(h, j) \in 1 .. Len(t) /\ t[Bits(h, j)] = seg[j]
      <4>1. CASE j = i
        <5>1. Bits(h, j) = Len(s) + 1 /\ Len(s) \in Nat
          BY <2>2, <2>3, <2>6, <4>1
        <5>2. t[Bits(h, j)] = seg[j]
          BY <3>3, <4>1, <5>1
        <5> QED BY <3>3, <5>1, <5>2
      <4>2. CASE j # i
        <5>1. j \in 1 .. u
          BY <2>1, <4>2
        <5>2. PICK k : k = Bits(h, j) /\ k \in 1 .. Len(s) /\ s[k] = seg[j]
          BY <2>2, <3>5, <5>1
        <5>3. t[k] = seg[j]
          BY <3>3, <5>2
        <5>4. k \in 1 .. Len(t)
          BY <3>3, <5>2
        <5> QED BY <5>2, <5>3, <5>4
      <4> QED BY <4>1, <4>2
    <3>6. P(i, t)
      BY <3>3, <3>4, <3>5
    <3>7. some[i] = t /\ i \in 0 .. 8
      BY <2>4, <2>6, <3>2
    <3> QED BY <3>6, <3>7
  <2> QED BY <2>5, <2>6
<1>6. P(8, some[8])
  <2> HIDE DEF P
  <2>1. P(0, some[0])
    BY <1>4
  <2>2. 0 .. 8 \subseteq T
    <3> HIDE DEF T
    <3> QED BY <1>4, <1>5, Upwards
  <2>3. 8 \in 0 .. 8
    OBVIOUS
  <2> QED BY <2>2, <2>3
<1> QED BY <1>2, <1>6 DEF Seg

LEMMA SegmentPacked ==
    ASSUME NEW seg \in [Seg -> Byte], NEW h, h = Header(seg)
    PROVE  /\ PackSeg(seg) \in Seq(Byte) /\ Bits(h, 8) \in Nat
           /\ Len(PackSeg(seg)) = 1 + Bits(h, 8) /\ PackSeg(seg)[1] = h
           /\ \A i \in Seg : seg[i] # 0 => /\ Bits(h, i) \in 1 .. Bits(h, 8)
                                           /\ PackSeg(seg)[1 + Bits(h, i)] = seg[i]
<1>1. PICK w : w = NonZeros(seg)
  OBVIOUS
<1>2. /\ w \in Seq(Byte) /\ Len(w) = Bits(h, 8)
      /\ \A i \in Seg : seg[i] # 0 => Bits(h, i) \in 1 .. Len(w) /\ w[Bits(h, i)] = seg[i]
  BY <1>1, Gathered
<1>3. h \in Byte
  BY HeaderBits
<1>4. PICK v : v = <<h>> /\ v \in Seq(Byte) /\ Len(v) = 1 /\ v[1] = h
  <2>1. <<h>> \in Seq(Byte) /\ Len(<<h>>) = 1 /\ <<h>>[1] = h
    <3> HIDE DEF Byte
    <3> QED BY <1>3
  <2> QED BY <2>1
<1>5. PICK t : t = v \o w /\ t = PackSeg(seg)
  BY <1>1, <1>4 DEF PackSeg
<1>6. /\ t \in Seq(Byte) /\ Len(t) = 1 + Len(w) /\ t[1] = h
      /\ \A k \in 1 .. Len(w) : \A m \in Nat : m = 1 + k => t[m] = w[k]
  BY <1>2, <1>4, <1>5
<1>7. ASSUME NEW i \in Seg, seg[i] # 0 PROVE Bits(h, i) \in 1 .. Bits(h, 8) /\ t[1 + Bits(h, i)] = seg[i]
  <2>1. PICK k : k = Bits(h, i) /\ k \in 1 .. Len(w) /\ w[k] = seg[i]
    BY <1>2, <1>7
  <2>2. PICK m \in Nat : m = 1 + k
    BY <2>1
  <2>3. t[m] = seg[i]
    BY <1>6, <2>1, <2>2
  <2> QED BY <1>2, <2>1, <2>2, <2>3
<1> QED BY <1>2, <1>5, <1>6, <1>7

-----------------------------------------------------------------------------
(* Reading what was written: a step of Unpack for each piece. *)

Begins(s, a) == Len(a) <= Len(s) /\ \A i \in 1 .. Len(a) : s[i] = a[i]

LEMMA PieceAfter ==
    ASSUME NEW a \in Seq(Byte), NEW t \in Seq(Byte), NEW s \in Seq(Byte), Begins(s, a \o t)
    PROVE  /\ a \o t \in Seq(Byte) /\ Len(a \o t) = Len(a) + Len(t) /\ Len(a) + Len(t) <= Len(s)
           /\ \A m \in 1 .. Len(t) : \A i \in Nat : i = Len(a) + m => s[i] = t[m]
           /\ Begins(s, a)
<1>1. PICK b : b = a \o t
  OBVIOUS
<1>2. /\ b \in Seq(Byte) /\ Len(b) = Len(a) + Len(t) /\ Len(a) \in Nat /\ Len(t) \in Nat
      /\ \A i \in 1 .. Len(a) : b[i] = a[i]
      /\ \A m \in 1 .. Len(t) : \A i \in Nat : i = Len(a) + m => b[i] = t[m]
  BY <1>1
<1>3. Len(b) <= Len(s) /\ \A i \in 1 .. Len(b) : s[i] = b[i]
  BY <1>1 DEF Begins
<1>4. ASSUME NEW m \in 1 .. Len(t), NEW i \in Nat, i = Len(a) + m PROVE s[i] = t[m]
  <2>1. i \in 1 .. Len(b)
    BY <1>2, <1>4
  <2> QED BY <1>2, <1>3, <1>4, <2>1
<1>5. Begins(s, a)
  <2>1. ASSUME NEW i \in 1 .. Len(a) PROVE s[i] = a[i]
    <3>1. i \in 1 .. Len(b)
      BY <1>2
    <3> QED BY <1>2, <1>3, <3>1
  <2>2. Len(s) \in Nat /\ Len(a) <= Len(s)
    BY <1>2, <1>3
  <2> QED BY <2>1, <2>2 DEF Begins
<1> QED BY <1>1, <1>2, <1>3, <1>4, <1>5

(* A step that reads the piece t, behind a, as w. *)
ReadsPiece(s, a, t, y, w) ==
    UnpackStep(s, [at |-> Len(a) + 1, out |-> y]) = [at |-> Len(a \o t) + 1, out |-> y \o w]

LEMMA ReadSegment ==
    ASSUME NEW a \in Seq(Byte), NEW y \in Seq(Byte), NEW s \in Seq(Byte), NEW seg \in [Seg -> Byte],
           NonZero(seg) # Seg, Begins(s, a \o PackSeg(seg))
    PROVE  ReadsPiece(s, a, PackSeg(seg), y, seg)
<1>1. PICK h : h = Header(seg)
  OBVIOUS
<1>2. PICK t : t = PackSeg(seg)
  OBVIOUS
<1>3. /\ t \in Seq(Byte) /\ Bits(h, 8) \in Nat /\ Len(t) = 1 + Bits(h, 8) /\ t[1] = h
      /\ \A i \in Seg : seg[i] # 0 => Bits(h, i) \in 1 .. Bits(h, 8) /\ t[1 + Bits(h, i)] = seg[i]
  BY <1>1, <1>2, SegmentPacked
<1>4. h # 255 /\ \A i \in Seg : Bit(h, i) = IF seg[i] = 0 THEN 0 ELSE 1
  BY <1>1, HeaderBits
<1>5. /\ Len(a \o t) = Len(a) + Len(t) /\ Len(a) + Len(t) <= Len(s)
      /\ \A m \in 1 .. Len(t) : \A i \in Nat : i = Len(a) + m => s[i] = t[m]
  BY <1>2, <1>3, PieceAfter
<1>6. PICK p : p = Len(a) + 1
  OBVIOUS
<1>7. Len(a) \in Nat /\ Len(s) \in Nat /\ p \in Nat /\ p <= Len(s)
  BY <1>3, <1>5, <1>6
<1>8. s[p] = h
  <2>1. 1 \in 1 .. Len(t)
    BY <1>3
  <2> QED BY <1>3, <1>5, <1>6, <1>7, <2>1
<1>9. ASSUME NEW i \in Seg PROVE (IF Bit(h, i) = 1 THEN ByteAt(s, p + Bits(h, i)) ELSE 0) = seg[i]
  <2>1. CASE seg[i] = 0
    BY <1>4, <2>1
  <2>2. CASE seg[i] # 0
    <3>1. PICK m : m = 1 + Bits(h, i) /\ m \in 1 .. Len(t) /\ t[m] = seg[i]
      BY <1>3, <2>2
    <3>2. PICK j \in Nat : j = Len(a) + m
      BY <1>7, <3>1
    <3>3. s[j] = seg[i] /\ j <= Len(s)
      BY <1>3, <1>5, <1>7, <3>1, <3>2
    <3>4. p + Bits(h, i) = j
      <4>1. Bits(h, i) \in Nat
        BY <1>3, <2>2
      <4> QED BY <1>6, <1>7, <3>1, <3>2, <4>1
    <3> QED BY <1>4, <2>2, <3>3, <3>4 DEF ByteAt
  <2> QED BY <2>1, <2>2
<1>10. UnpackSeg(s, p) = seg
  <2>1. UnpackSeg(s, p) = [i \in Seg |-> IF Bit(h, i) = 1 THEN ByteAt(s, p + Bits(h, i)) ELSE 0]
    BY <1>8 DEF UnpackSeg
  <2>2. seg = [i \in Seg |-> seg[i]]
    OBVIOUS
  <2>3. [i \in Seg |-> IF Bit(h, i) = 1 THEN ByteAt(s, p + Bits(h, i)) ELSE 0] = [i \in Seg |-> seg[i]]
    BY <1>9
  <2> QED BY <2>1, <2>2, <2>3
<1>11. PICK u : u = [at |-> p, out |-> y] /\ u.at = p /\ u.out = y
  <2>1. [at |-> p, out |-> y].at = p /\ [at |-> p, out |-> y].out = y
    OBVIOUS
  <2> QED BY <2>1
<1>12. UnpackStep(s, u) = [at |-> p + 1 + Bits(h, 8), out |-> y \o seg]
  <2>1. ~(p > Len(s)) /\ s[u.at] # 255
    BY <1>4, <1>7, <1>8, <1>11
  <2>2. UnpackStep(s, u) = [at |-> u.at + 1 + Bits(s[u.at], 8), out |-> u.out \o UnpackSeg(s, u.at)]
    BY <1>11, <2>1 DEF UnpackStep
  <2> QED BY <1>8, <1>10, <1>11, <2>2
<1>13. p + 1 + Bits(h, 8) = Len(a \o t) + 1
  BY <1>3, <1>5, <1>6, <1>7
<1> QED BY <1>2, <1>6, <1>11, <1>12, <1>13 DEF ReadsPiece

(* So many whole segments. *)
Fills(run, c) == run \in Seq(Byte) /\ c \in 1 .. 256 /\ Len(run) = 8 * c

LEMMA RunWritten ==
    ASSUME NEW run, NEW c, Fills(run, c)
    PROVE  /\ WriteFf(run) \in Seq(Byte) /\ Len(WriteFf(run)) = 8 * c + 2
           /\ WriteFf(run)[1] = 255 /\ WriteFf(run)[2] = c - 1
           /\ \A k \in 1 .. 8 * c : \A m \in Nat : m = 2 + k => WriteFf(run)[m] = run[k]
<1> USE DEF Fills
<1>1. Len(run) \div 8 - 1 = c - 1 /\ c - 1 \in Byte /\ 255 \in Byte
  BY DEF Byte
<1>2. PICK d : d = c - 1 /\ d \in Byte
  BY <1>1
<1>3. PICK v : v = <<255, d>> /\ v \in Seq(Byte) /\ Len(v) = 2 /\ v[1] = 255 /\ v[2] = d
  <2>1. <<255, d>> \in Seq(Byte)
    <3> HIDE DEF Byte
    <3> QED BY <1>1, <1>2
  <2>2. Len(<<255, d>>) = 2 /\ <<255, d>>[1] = 255 /\ <<255, d>>[2] = d
    OBVIOUS
  <2> QED BY <2>1, <2>2
<1>4. run # <<>>
  <2>1. Len(run) # 0
    OBVIOUS
  <2> QED BY <2>1
<1>5. PICK t : t = v \o run /\ t = WriteFf(run)
  BY <1>1, <1>2, <1>3, <1>4 DEF WriteFf
<1>6. /\ t \in Seq(Byte) /\ Len(t) = Len(v) + Len(run)
      /\ \A k \in 1 .. Len(v) : t[k] = v[k]
      /\ \A k \in 1 .. Len(run) : \A m \in Nat : m = Len(v) + k => t[m] = run[k]
  BY <1>3, <1>5
<1>7. t[1] = 255 /\ t[2] = d
  <2>1. 1 \in 1 .. Len(v) /\ 2 \in 1 .. Len(v)
    BY <1>3
  <2> QED BY <1>3, <1>6, <2>1
<1>8. /\ Len(t) = 8 * c + 2
      /\ \A k \in 1 .. 8 * c : \A m \in Nat : m = 2 + k => t[m] = run[k]
  <2>1. PICK n : n = 8 * c /\ n \in Nat /\ Len(run) = n
    OBVIOUS
  <2>2. Len(t) = n + 2
    BY <1>3, <1>6, <2>1
  <2>3. \A k \in 1 .. n : \A m \in Nat : m = 2 + k => t[m] = run[k]
    BY <1>3, <1>6, <2>1
  <2> QED BY <2>1, <2>2, <2>3
<1>9. t[1] = 255 /\ t[2] = c - 1
  BY <1>2, <1>7
<1>10. WriteFf(run) \in Seq(Byte) /\ Len(WriteFf(run)) = 8 * c + 2
  BY <1>5, <1>6, <1>8
<1>11. WriteFf(run)[1] = 255 /\ WriteFf(run)[2] = c - 1
  BY <1>5, <1>9
<1>12. \A k \in 1 .. 8 * c : \A m \in Nat : m = 2 + k => WriteFf(run)[m] = run[k]
  BY <1>5, <1>8
<1> QED BY <1>10, <1>11, <1>12

LEMMA ReadRun ==
    ASSUME NEW a \in Seq(Byte), NEW y \in Seq(Byte), NEW s \in Seq(Byte), NEW run, NEW c,
           Fills(run, c), Begins(s, a \o WriteFf(run))
    PROVE  ReadsPiece(s, a, WriteFf(run), y, run)
<1>1. PICK t : t = WriteFf(run)
  OBVIOUS
<1>2. PICK n : n = 8 * c /\ n \in Nat /\ c \in Nat /\ run \in Seq(Byte) /\ Len(run) = n
  BY DEF Fills
<1>3. t \in Seq(Byte) /\ Len(t) = n + 2 /\ t[1] = 255 /\ t[2] = c - 1
  <2>1. /\ WriteFf(run) \in Seq(Byte) /\ Len(WriteFf(run)) = 8 * c + 2
        /\ WriteFf(run)[1] = 255 /\ WriteFf(run)[2] = c - 1
    BY RunWritten
  <2> QED BY <1>1, <1>2, <2>1
<1>4. \A k \in 1 .. n : \A m \in Nat : m = 2 + k => t[m] = run[k]
  <2>1. \A k \in 1 .. 8 * c : \A m \in Nat : m = 2 + k => WriteFf(run)[m] = run[k]
    BY RunWritten
  <2> QED BY <1>1, <1>2, <2>1
<1>5. PICK e, l, o : e = Len(a) /\ e \in Nat /\ l = Len(s) /\ l \in Nat /\ o = Len(a \o t)
  <2>1. Len(a) \in Nat /\ Len(s) \in Nat
    BY LenProperties
  <2> QED BY <2>1
<1>6. /\ o = e + (n + 2) /\ e + (n + 2) <= l
      /\ \A m \in 1 .. n + 2 : \A i \in Nat : i = e + m => s[i] = t[m]
  <2>1. t \in Seq(Byte) /\ Begins(s, a \o t)
    BY <1>1, <1>3
  <2>2. /\ Len(a \o t) = Len(a) + Len(t) /\ Len(a) + Len(t) <= Len(s)
        /\ \A m \in 1 .. Len(t) : \A i \in Nat : i = Len(a) + m => s[i] = t[m]
    BY <2>1, PieceAfter
  <2>3. Len(t) = n + 2
    BY <1>3
  <2> QED BY <1>5, <2>2, <2>3
<1>7. PICK p, q : p = e + 1 /\ q = e + 2
  OBVIOUS
<1>8. p \in Nat /\ q \in Nat /\ p <= l /\ q <= l /\ p + 1 = q
  BY <1>2, <1>5, <1>6, <1>7
<1>9. s[p] = 255 /\ s[q] = c - 1
  <2>1. 1 \in 1 .. n + 2 /\ 2 \in 1 .. n + 2
    BY <1>2
  <2>2. s[p] = t[1] /\ s[q] = t[2]
    BY <1>6, <1>7, <1>8, <2>1
  <2> QED BY <1>3, <2>2
<1>10. n = 8 * (ByteAt(s, p + 1) + 1)
  <2>1. ByteAt(s, q) = c - 1
    BY <1>5, <1>8, <1>9 DEF ByteAt
  <2>2. n = 8 * (ByteAt(s, q) + 1)
    BY <1>2, <2>1
  <2> QED BY <1>8, <2>2
<1>11. ~(p + 1 + n > l) /\ ~(p > l) /\ p + 2 + n = o + 1
  BY <1>2, <1>5, <1>6, <1>7
<1>12. SubSeq(s, p + 2, p + 1 + n) = run
  <2>1. PICK f, g : f = p + 2 /\ g = p + 1 + n
    OBVIOUS
  <2>2. f \in Nat \ {0} /\ g \in Nat /\ g <= l /\ g - f + 1 = n /\ f <= g + 1 /\ f = e + 3
    BY <1>2, <1>5, <1>7, <1>11, <2>1
  <2>3. PICK z : z = SubSeq(s, f, g)
    OBVIOUS
  <2>4. /\ z \in Seq(Byte) /\ Len(z) = n
        /\ \A k \in 1 .. n : \A m \in Nat : m = f + k - 1 => z[k] = s[m]
    <3>1. \A i \in f .. g : s[i] \in Byte
      BY <1>5, <2>2
    <3> QED BY <2>2, <2>3, <3>1, SubSeqProperties
  <2>5. ASSUME NEW k \in 1 .. n PROVE z[k] = run[k]
    <3>1. PICK m \in Nat : m = 2 + k
      BY <1>2
    <3>2. PICK i \in Nat : i = e + m
      BY <1>5
    <3>3. m \in 1 .. n + 2 /\ i = f + k - 1
      BY <1>2, <1>5, <2>2, <3>1, <3>2
    <3>4. z[k] = s[i] /\ s[i] = t[m] /\ t[m] = run[k]
      BY <1>4, <1>6, <2>4, <3>1, <3>2, <3>3
    <3> QED BY <3>4
  <2>6. z = run
    BY <1>2, <2>4, <2>5, SeqEqual
  <2> QED BY <2>1, <2>3, <2>6
<1>13. PICK u : u = [at |-> p, out |-> y] /\ u.at = p /\ u.out = y
  <2>1. [at |-> p, out |-> y].at = p /\ [at |-> p, out |-> y].out = y
    OBVIOUS
  <2> QED BY <2>1
<1>14. UnpackStep(s, u) = [at |-> p + 2 + n, out |-> y \o run]
  <2>1. s[u.at] = 255 /\ n = 8 * (ByteAt(s, u.at + 1) + 1) /\ ~(u.at > Len(s)) /\ ~(u.at + 1 + n > Len(s))
    BY <1>5, <1>9, <1>10, <1>11, <1>13
  <2>2. UnpackStep(s, u) = [at |-> u.at + 2 + n, out |-> u.out \o SubSeq(s, u.at + 2, u.at + 1 + n)]
    BY <2>1 DEF UnpackStep
  <2> QED BY <1>12, <1>13, <2>2
<1> QED BY <1>1, <1>5, <1>7, <1>11, <1>13, <1>14 DEF ReadsPiece

-----------------------------------------------------------------------------
(* The states of unpacking. *)

Reader == [at : Nat \ {0}, out : Seq(Byte)]

LEMMA UnpackSegTyped ==
    ASSUME NEW s \in Seq(Byte), NEW p \in 1 .. Len(s)
    PROVE  UnpackSeg(s, p) \in [Seg -> Byte] /\ UnpackSeg(s, p) \in Seq(Byte) /\ Bits(s[p], 8) \in Nat
<1>1. ASSUME NEW i \in Seg PROVE Bits(s[p], i) \in Nat
  <2>1. PICK v : v = i - 1 /\ v \in 0 .. 8 /\ v + 1 = i
    BY DEF Seg
  <2>2. /\ Bits(s[p], v) \in Nat
        /\ Bits(s[p], i) = IF Bit(s[p], i) = 1 THEN Bits(s[p], v) + 1 ELSE Bits(s[p], v)
    BY <2>1, BitsCounted
  <2> QED BY <2>2
<1>2. ASSUME NEW i \in Seg
      PROVE  (IF Bit(s[p], i) = 1 THEN ByteAt(s, p + Bits(s[p], i)) ELSE 0) \in Byte
  <2>1. PICK j : j = p + Bits(s[p], i)
    OBVIOUS
  <2>2. j \in Nat \ {0}
    BY <1>1, <2>1
  <2>3. 0 \in Byte
    BY DEF Byte
  <2>4. ByteAt(s, j) \in Byte
    <3>1. CASE j <= Len(s)
      BY <2>2, <3>1 DEF ByteAt
    <3>2. CASE ~(j <= Len(s))
      BY <2>3, <3>2 DEF ByteAt
    <3> QED BY <3>1, <3>2
  <2> QED BY <2>1, <2>3, <2>4
<1>3. UnpackSeg(s, p) \in [Seg -> Byte]
  BY <1>2 DEF UnpackSeg
<1>4. UnpackSeg(s, p) \in Seq(Byte)
  <2> HIDE DEF Byte
  <2>1. UnpackSeg(s, p) \in [1 .. 8 -> Byte]
    BY <1>3 DEF Seg
  <2> QED BY <2>1, SeqDef
<1>5. 8 \in Seg
  BY DEF Seg
<1> QED BY <1>1, <1>3, <1>4, <1>5

LEMMA ReaderKept ==
    ASSUME NEW s \in Seq(Byte), NEW u \in Reader
    PROVE  UnpackStep(s, u) \in Reader
<1>1. PICK p, y : p = u.at /\ y = u.out
  OBVIOUS
<1>2. p \in Nat \ {0} /\ y \in Seq(Byte) /\ Len(s) \in Nat
  BY <1>1 DEF Reader
<1>3. CASE p > Len(s)
  BY <1>1, <1>3 DEF UnpackStep
<1>4. CASE ~(p > Len(s)) /\ s[p] # 255
  <2>1. PICK w, b : w = UnpackSeg(s, p) /\ b = Bits(s[p], 8)
    OBVIOUS
  <2>2. w \in Seq(Byte) /\ b \in Nat
    BY <1>2, <1>4, <2>1, UnpackSegTyped
  <2>3. UnpackStep(s, u) = [at |-> p + 1 + b, out |-> y \o w]
    BY <1>1, <1>4, <2>1 DEF UnpackStep
  <2>4. p + 1 + b \in Nat \ {0}
    BY <1>2, <2>2
  <2>5. y \o w \in Seq(Byte)
    BY <1>2, <2>2
  <2> QED BY <2>3, <2>4, <2>5 DEF Reader
<1>5. CASE ~(p > Len(s)) /\ s[p] = 255
  <2>1. PICK n : n = 8 * (ByteAt(s, p + 1) + 1)
    OBVIOUS
  <2>2. n \in Nat
    <3>1. PICK q : q = p + 1 /\ q \in Nat \ {0}
      BY <1>2
    <3>2. ByteAt(s, q) \in Nat
      <4>1. CASE q <= Len(s)
        <5>1. s[q] \in Byte
          BY <3>1, <4>1
        <5>2. ByteAt(s, q) = s[q]
          BY <4>1 DEF ByteAt
        <5>3. \A z \in Byte : z \in Nat
          BY DEF Byte
        <5> HIDE DEF Byte
        <5> QED BY <5>1, <5>2, <5>3
      <4>2. CASE ~(q <= Len(s))
        BY <4>2 DEF ByteAt
      <4> QED BY <4>1, <4>2
    <3> QED BY <2>1, <3>1, <3>2
  <2>3. CASE p + 1 + n > Len(s)
    <3>1. UnpackStep(s, u) = [at |-> Len(s) + 1, out |-> y]
      BY <1>1, <1>5, <2>1, <2>3 DEF UnpackStep
    <3>2. Len(s) + 1 \in Nat \ {0}
      BY <1>2
    <3> QED BY <1>2, <3>1, <3>2 DEF Reader
  <2>4. CASE ~(p + 1 + n > Len(s))
    <3>1. PICK f, g : f = p + 2 /\ g = p + 1 + n
      OBVIOUS
    <3>2. PICK w : w = SubSeq(s, f, g)
      OBVIOUS
    <3>3. f \in Int /\ g \in Int /\ \A i \in f .. g : s[i] \in Byte
      BY <1>2, <2>2, <2>4, <3>1
    <3>4. w \in Seq(Byte)
      BY <3>2, <3>3, SubSeqProperties
    <3>5. UnpackStep(s, u) = [at |-> p + 2 + n, out |-> y \o w]
      BY <1>1, <1>5, <2>1, <2>4, <3>1, <3>2 DEF UnpackStep
    <3>6. y \o w \in Seq(Byte)
      BY <1>2, <3>4
    <3>7. p + 2 + n \in Nat \ {0}
      BY <1>2, <2>2
    <3> QED BY <3>5, <3>6, <3>7 DEF Reader
  <2> QED BY <2>3, <2>4
<1> QED BY <1>3, <1>4, <1>5

LEMMA UnpackingSteps ==
    ASSUME NEW s \in Seq(Byte)
    PROVE  /\ Unpacking(s) \in [0 .. Len(s) -> Reader] /\ Unpacking(s)[0] = [at |-> 1, out |-> <<>>]
           /\ \A k \in 1 .. Len(s) : \A v \in 0 .. Len(s) :
                 v + 1 = k => Unpacking(s)[k] = UnpackStep(s, Unpacking(s)[v])
<1> DEFINE n == Len(s)
           x0 == [at |-> 1, out |-> <<>>]
           Eq(f) == f = [k \in 0 .. n |-> IF k = 0 THEN x0 ELSE UnpackStep(s, f[k - 1])]
           step == [k \in 1 .. n |-> [x \in Reader |-> UnpackStep(s, x)]]
<1>1. n \in Nat /\ x0 \in Reader
  BY DEF Reader
<1>2. \E f : Eq(f)
  <2>1. ASSUME NEW k \in 1 .. n, NEW x \in Reader PROVE step[k][x] \in Reader
    BY ReaderKept
  <2>2. \E f \in [0 .. n -> Reader] : Iterates(f, n, x0, step)
    <3> HIDE DEF n, x0, step
    <3> QED BY <1>1, <2>1, IterationExists
  <2>3. PICK f \in [0 .. n -> Reader] : Iterates(f, n, x0, step)
    BY <2>2
  <2>4. ASSUME NEW k \in 0 .. n, k # 0 PROVE step[k][f[k - 1]] = UnpackStep(s, f[k - 1])
    <3>1. PICK v : v = k - 1 /\ v \in 0 .. n /\ k \in 1 .. n
      BY <1>1, <2>4
    <3>2. step[k][f[v]] = UnpackStep(s, f[v])
      BY <2>3, <3>1
    <3> QED BY <3>1, <3>2
  <2>5. Eq(f)
    <3> HIDE DEF n, x0, step
    <3>1. f = [k \in 0 .. n |-> IF k = 0 THEN x0 ELSE step[k][f[k - 1]]]
      BY <2>3 DEF Iterates
    <3>2. [k \in 0 .. n |-> IF k = 0 THEN x0 ELSE step[k][f[k - 1]]]
              = [k \in 0 .. n |-> IF k = 0 THEN x0 ELSE UnpackStep(s, f[k - 1])]
      BY <2>4
    <3> QED BY <3>1, <3>2
  <2> HIDE DEF Eq
  <2> QED BY <2>5
<1>3. PICK u : u = Unpacking(s)
  OBVIOUS
<1>4. Eq(u)
  <2>1. u = CHOOSE f : Eq(f)
    BY <1>3 DEF Unpacking
  <2> HIDE DEF Eq
  <2> QED BY <1>2, <2>1
<1> HIDE DEF x0, n
<1>5. u[0] = x0
  <2>1. 0 \in 0 .. n
    BY <1>1
  <2> QED BY <1>4, <2>1
<1>6. ASSUME NEW k \in 1 .. n, NEW v \in 0 .. n, v + 1 = k PROVE u[k] = UnpackStep(s, u[v])
  <2>1. k \in 0 .. n /\ k # 0 /\ v = k - 1
    BY <1>1, <1>6
  <2>2. u[k] = UnpackStep(s, u[k - 1])
    BY <1>4, <2>1
  <2> QED BY <2>1, <2>2
<1> DEFINE T == {k \in 0 .. n : u[k] \in Reader}
<1>7. 0 \in T
  BY <1>1, <1>5
<1>8. ASSUME NEW k \in 1 .. n, k - 1 \in T PROVE k \in T
  <2>1. PICK v : v = k - 1 /\ v \in 0 .. n /\ v + 1 = k
    BY <1>1
  <2>2. u[v] \in Reader
    BY <1>8, <2>1
  <2>3. u[k] \in Reader
    BY <1>6, <2>1, <2>2, ReaderKept
  <2> QED BY <2>3
<1>9. u \in [0 .. n -> Reader]
  <2>1. 0 .. n \subseteq T
    <3> HIDE DEF T
    <3> QED BY <1>1, <1>7, <1>8, Upwards
  <2>2. \A k \in 0 .. n : u[k] \in Reader
    BY <2>1
  <2>3. u = [k \in 0 .. n |-> u[k]]
    BY <1>4
  <2> QED BY <2>2, <2>3
<1> QED BY <1>3, <1>5, <1>6, <1>9 DEF x0, n

(* Whatever begins with a is read as y up to the end of a. *)
Reads(a, y) ==
    \A s \in Seq(Byte) :
        Begins(s, a) => \E m \in 0 .. Len(a) : m <= Len(s) /\ Unpacking(s)[m] = [at |-> Len(a) + 1, out |-> y]

LEMMA ReadsNothing == Reads(<<>>, <<>>)
<1>1. ASSUME NEW s \in Seq(Byte)
      PROVE  \E m \in 0 .. Len(<<>>) : m <= Len(s) /\ Unpacking(s)[m] = [at |-> Len(<<>>) + 1, out |-> <<>>]
  <2>1. Unpacking(s)[0] = [at |-> 1, out |-> <<>>]
    BY UnpackingSteps
  <2>2. Len(<<>>) = 0 /\ 0 \in 0 .. 0 /\ 0 + 1 = 1 /\ 0 <= Len(s)
    OBVIOUS
  <2> QED BY <2>1, <2>2
<1> QED BY <1>1 DEF Reads

LEMMA ReadsOn ==
    ASSUME NEW a \in Seq(Byte), NEW y, NEW t \in Seq(Byte), NEW w,
           Len(t) # 0, Reads(a, y),
           \A s \in Seq(Byte) : Begins(s, a \o t) => ReadsPiece(s, a, t, y, w)
    PROVE  Reads(a \o t, y \o w)
<1>1. ASSUME NEW s \in Seq(Byte), Begins(s, a \o t)
      PROVE  \E m \in 0 .. Len(a \o t) :
                m <= Len(s) /\ Unpacking(s)[m] = [at |-> Len(a \o t) + 1, out |-> y \o w]
  <2>1. Begins(s, a) /\ Len(a \o t) = Len(a) + Len(t) /\ Len(a) + Len(t) <= Len(s)
    BY <1>1, PieceAfter
  <2>2. PICK v \in 0 .. Len(a) : Unpacking(s)[v] = [at |-> Len(a) + 1, out |-> y]
    BY <2>1 DEF Reads
  <2>3. Len(a) \in Nat /\ Len(t) \in Nat /\ Len(s) \in Nat
    OBVIOUS
  <2>4. PICK m : m = v + 1
    OBVIOUS
  <2>5. m \in 1 .. Len(s) /\ v \in 0 .. Len(s) /\ m \in 0 .. Len(a \o t) /\ m <= Len(s)
    BY <2>1, <2>3, <2>4
  <2>6. Unpacking(s)[m] = UnpackStep(s, Unpacking(s)[v])
    BY <2>4, <2>5, UnpackingSteps
  <2>7. Unpacking(s)[m] = [at |-> Len(a \o t) + 1, out |-> y \o w]
    BY <1>1, <2>2, <2>6 DEF ReadsPiece
  <2> QED BY <2>5, <2>7
<1> QED BY <1>1 DEF Reads

LEMMA ReadsAll ==
    ASSUME NEW a \in Seq(Byte), NEW y, Reads(a, y)
    PROVE  Unpack(a) = y
<1>1. PICK n : n = Len(a) /\ n \in Nat
  OBVIOUS
<1>2. PICK end : end = [at |-> n + 1, out |-> y]
  OBVIOUS
<1>3. PICK m \in 0 .. n : Unpacking(a)[m] = end
  <2>1. Begins(a, a)
    BY DEF Begins
  <2> QED BY <1>1, <1>2, <2>1 DEF Reads
<1>4. UnpackStep(a, end) = end
  <2>1. end.at > Len(a)
    BY <1>1, <1>2
  <2> QED BY <2>1 DEF UnpackStep
<1> DEFINE T == {k \in 0 .. n : m <= k => Unpacking(a)[k] = end}
<1>5. 0 \in T
  BY <1>1, <1>3
<1>6. ASSUME NEW k \in 1 .. n, k - 1 \in T PROVE k \in T
  <2>1. PICK v : v = k - 1 /\ v \in 0 .. n /\ v + 1 = k
    BY <1>1
  <2>2. m <= v => Unpacking(a)[v] = end
    BY <1>6, <2>1
  <2>3. Unpacking(a)[k] = UnpackStep(a, Unpacking(a)[v])
    BY <1>1, <2>1, UnpackingSteps
  <2>4. ASSUME m <= k PROVE Unpacking(a)[k] = end
    <3>1. CASE m = k
      BY <1>3, <3>1
    <3>2. CASE m # k
      <4>1. m <= v
        BY <1>1, <2>1, <2>4, <3>2
      <4> QED BY <1>4, <2>2, <2>3, <4>1
    <3> QED BY <3>1, <3>2
  <2>5. k \in 0 .. n
    BY <1>1
  <2> QED BY <2>4, <2>5
<1>7. Unpacking(a)[n] = end
  <2>1. n \in 0 .. n /\ m <= n
    BY <1>1
  <2>2. 0 .. n \subseteq T
    <3> HIDE DEF T
    <3> QED BY <1>1, <1>5, <1>6, Upwards
  <2> QED BY <2>1, <2>2
<1> QED BY <1>1, <1>2, <1>7 DEF Unpack

LEMMA ReadsSegment ==
    ASSUME NEW a \in Seq(Byte), NEW y \in Seq(Byte), NEW seg \in [Seg -> Byte], NonZero(seg) # Seg, Reads(a, y)
    PROVE  a \o PackSeg(seg) \in Seq(Byte) /\ Reads(a \o PackSeg(seg), y \o seg)
<1>1. PICK t : t = PackSeg(seg) /\ t \in Seq(Byte) /\ Len(t) # 0
  <2>1. PICK h : h = Header(seg)
    OBVIOUS
  <2>2. PackSeg(seg) \in Seq(Byte) /\ Bits(h, 8) \in Nat /\ Len(PackSeg(seg)) = 1 + Bits(h, 8)
    BY <2>1, SegmentPacked
  <2>3. Len(PackSeg(seg)) # 0
    BY <2>2
  <2> QED BY <2>2, <2>3
<1>2. \A s \in Seq(Byte) : Begins(s, a \o t) => ReadsPiece(s, a, t, y, seg)
  BY <1>1, ReadSegment
<1>3. Reads(a \o t, y \o seg)
  BY <1>1, <1>2, ReadsOn
<1>4. a \o t \in Seq(Byte)
  BY <1>1
<1> QED BY <1>1, <1>3, <1>4

(* A run that is empty, too. *)
LEMMA ReadsRun ==
    ASSUME NEW a \in Seq(Byte), NEW y \in Seq(Byte), NEW run \in Seq(Byte), NEW c \in 0 .. 256,
           Len(run) = 8 * c, Reads(a, y)
    PROVE  a \o WriteFf(run) \in Seq(Byte) /\ Reads(a \o WriteFf(run), y \o run)
<1>1. CASE c = 0
  <2>1. run = <<>>
    BY <1>1
  <2>2. WriteFf(run) = <<>>
    BY <2>1 DEF WriteFf
  <2>3. a \o WriteFf(run) = a /\ y \o run = y
    BY <2>1, <2>2, ConcatEmptySeq
  <2> QED BY <2>3
<1>2. CASE c # 0
  <2>1. Fills(run, c)
    BY <1>2 DEF Fills
  <2>2. WriteFf(run) \in Seq(Byte) /\ Len(WriteFf(run)) = 8 * c + 2
    BY <2>1, RunWritten
  <2>3. PICK t : t = WriteFf(run) /\ t \in Seq(Byte) /\ Len(t) # 0
    <3>1. Len(WriteFf(run)) # 0
      BY <2>2
    <3> QED BY <2>2, <3>1
  <2>4. \A s \in Seq(Byte) : Begins(s, a \o t) => ReadsPiece(s, a, t, y, run)
    BY <2>1, <2>3, ReadRun
  <2>5. Reads(a \o t, y \o run)
    BY <2>3, <2>4, ReadsOn
  <2>6. a \o t \in Seq(Byte)
    BY <2>3
  <2> QED BY <2>3, <2>5, <2>6
<1> QED BY <1>1, <1>2

-----------------------------------------------------------------------------
(* Packing *)

Packer == {p \in [out : Seq(Byte), run : Seq(Byte), spill : BOOLEAN] :
              \E c \in 0 .. MaxRun - 1 : Len(p.run) = 8 * c}

(* What a segment does: it ends the run and is packed, or fills the run, or goes into it. *)
EndsRun(p, seg, q) == /\ NonZero(seg) # Seg
                      /\ q.out = (p.out \o WriteFf(p.run)) \o PackSeg(seg) /\ q.run = <<>>
FillsRun(p, seg, q) == /\ Len(p.run \o seg) = 8 * MaxRun
                       /\ q.out = p.out \o WriteFf(p.run \o seg) /\ q.run = <<>>
JoinsRun(p, seg, q) == q.out = p.out /\ q.run = p.run \o seg

LEMMA SegmentIsSeq ==
    ASSUME NEW seg \in [Seg -> Byte]
    PROVE  seg \in Seq(Byte) /\ Len(seg) = 8
<1> HIDE DEF Byte
<1>1. seg \in [1 .. 8 -> Byte]
  BY DEF Seg
<1>2. seg \in Seq(Byte)
  BY <1>1, SeqDef
<1>3. DOMAIN seg = 1 .. 8 /\ DOMAIN seg = 1 .. Len(seg) /\ Len(seg) \in Nat
  BY <1>1, <1>2, LenProperties
<1>4. 8 \in 1 .. Len(seg) /\ ~(9 \in 1 .. Len(seg))
  <2>1. 1 .. Len(seg) = 1 .. 8
    BY <1>3
  <2>2. 8 \in 1 .. 8 /\ ~(9 \in 1 .. 8)
    OBVIOUS
  <2> QED BY <2>1, <2>2, Zenon
<1>5. Len(seg) = 8
  BY <1>3, <1>4
<1> QED BY <1>2, <1>5

LEMMA PackSteps ==
    ASSUME NEW p \in Packer, NEW seg \in [Seg -> Byte], NEW q, q = PackStep(p, seg)
    PROVE  /\ EndsRun(p, seg, q) \/ FillsRun(p, seg, q) \/ JoinsRun(p, seg, q)
           /\ q \in Packer
<1>1. PICK a, r : a = p.out /\ r = p.run
  OBVIOUS
<1>2. PICK c \in 0 .. MaxRun - 1 : a \in Seq(Byte) /\ r \in Seq(Byte) /\ Len(r) = 8 * c
  BY <1>1 DEF Packer
<1>3. PICK k : k = r \o seg /\ k \in Seq(Byte) /\ Len(k) = Len(r) + 8
  <2>1. seg \in Seq(Byte) /\ Len(seg) = 8
    BY SegmentIsSeq
  <2>2. r \o seg \in Seq(Byte) /\ Len(r \o seg) = Len(r) + Len(seg)
    <3>1. r \in Seq(Byte)
      BY <1>2
    <3> QED BY <2>1, <3>1, ConcatProperties
  <2> QED BY <2>1, <2>2
<1>4. MaxRun \in Nat /\ MaxRun >= 2 /\ MaxRun <= 256 /\ <<>> \in Seq(Byte) /\ Len(<<>>) = 0
  BY PackAssumption
<1>5. \A o, w, z : \A d \in 0 .. MaxRun - 1 :
          o \in Seq(Byte) /\ w \in Seq(Byte) /\ Len(w) = 8 * d /\ z \in BOOLEAN
              => [out |-> o, run |-> w, spill |-> z] \in Packer
  BY DEF Packer
<1>6. \A o, z : o \in Seq(Byte) /\ z \in BOOLEAN => [out |-> o, run |-> <<>>, spill |-> z] \in Packer
  <2>1. 0 \in 0 .. MaxRun - 1 /\ Len(<<>>) = 8 * 0
    BY <1>4
  <2> QED BY <1>4, <1>5, <2>1
<1>7. PICK z : z = (r # <<>> /\ Cardinality(NonZero(seg)) = 8) /\ z \in BOOLEAN
  OBVIOUS
<1>8. CASE ~Verbatim(seg, r # <<>>)
  <2>1. NonZero(seg) # Seg
    <3>1. Cardinality(Seg) = 8
      <4>1. PICK i \in Int, j \in Int : i = 1 /\ j = 8
        OBVIOUS
      <4>2. Cardinality(i .. j) = IF i > j THEN 0 ELSE j - i + 1
        BY FS_Interval
      <4>3. Cardinality(i .. j) = 8
        BY <4>1, <4>2
      <4> QED BY <4>1, <4>3 DEF Seg
    <3>2. Cardinality(NonZero(seg)) # 8
      BY <1>8 DEF Verbatim
    <3> QED BY <3>1, <3>2
  <2>2. q = [out |-> (a \o WriteFf(r)) \o PackSeg(seg), run |-> <<>>, spill |-> FALSE]
    BY <1>1, <1>8 DEF PackStep
  <2>3. EndsRun(p, seg, q)
    <3>1. q.out = (a \o WriteFf(r)) \o PackSeg(seg) /\ q.run = <<>>
      BY <2>2
    <3> QED BY <1>1, <2>1, <3>1, Zenon DEF EndsRun
  <2>4. WriteFf(r) \in Seq(Byte)
    <3>1. CASE c = 0
      BY <1>2, <1>4, <3>1 DEF WriteFf
    <3>2. CASE c # 0
      <4>1. Fills(r, c)
        BY <1>2, <1>4, <3>2 DEF Fills
      <4> QED BY <4>1, RunWritten
    <3> QED BY <3>1, <3>2
  <2>5. PackSeg(seg) \in Seq(Byte)
    <3>1. PICK h : h = Header(seg)
      OBVIOUS
    <3> QED BY <3>1, SegmentPacked
  <2>6. (a \o WriteFf(r)) \o PackSeg(seg) \in Seq(Byte)
    <3>1. a \o WriteFf(r) \in Seq(Byte)
      BY <1>2, <2>4
    <3> QED BY <2>5, <3>1
  <2>7. q \in Packer
    BY <1>6, <2>2, <2>6
  <2> QED BY <2>3, <2>7
<1>9. CASE Verbatim(seg, r # <<>>) /\ Len(k) = 8 * MaxRun
  <2>1. q = RunFull(a, k, z)
    BY <1>1, <1>3, <1>7, <1>9 DEF PackStep
  <2>2. q = [out |-> a \o WriteFf(k), run |-> <<>>, spill |-> z]
    BY <2>1 DEF RunFull
  <2>3. FillsRun(p, seg, q)
    <3>1. q.out = a \o WriteFf(k) /\ q.run = <<>>
      BY <2>2
    <3> QED BY <1>1, <1>3, <1>9, <3>1, Zenon DEF FillsRun
  <2>4. Fills(k, MaxRun)
    BY <1>3, <1>4, <1>9 DEF Fills
  <2>5. WriteFf(k) \in Seq(Byte)
    BY <2>4, RunWritten
  <2>6. a \o WriteFf(k) \in Seq(Byte)
    BY <1>2, <2>5
  <2>7. q \in Packer
    BY <1>6, <1>7, <2>2, <2>6
  <2> QED BY <2>3, <2>7
<1>10. CASE Verbatim(seg, r # <<>>) /\ Len(k) # 8 * MaxRun
  <2>1. q = [out |-> a, run |-> k, spill |-> z]
    BY <1>1, <1>3, <1>7, <1>10 DEF PackStep
  <2>2. JoinsRun(p, seg, q)
    BY <1>1, <1>3, <2>1 DEF JoinsRun
  <2>3. PICK d : d = c + 1 /\ d \in 0 .. MaxRun - 1 /\ Len(k) = 8 * d
    <3>1. Len(k) = 8 * (c + 1)
      BY <1>2, <1>3
    <3>2. c + 1 # MaxRun
      BY <1>10, <3>1
    <3>3. c + 1 \in 0 .. MaxRun - 1
      BY <1>4, <3>2
    <3> QED BY <3>1, <3>3
  <2>4. q \in Packer
    BY <1>2, <1>3, <1>5, <1>7, <2>1, <2>3
  <2> QED BY <2>2, <2>4
<1> QED BY <1>8, <1>9, <1>10

LEMMA SegmentTyped ==
    ASSUME NEW src \in Seq(Byte), NEW k \in Nat
    PROVE  Segment(src, k) \in [Seg -> Byte]
<1>1. ASSUME NEW i \in Seg PROVE (IF 8 * k + i <= Len(src) THEN src[8 * k + i] ELSE 0) \in Byte
  <2>1. PICK j : j = 8 * k + i /\ j \in Nat \ {0}
    BY DEF Seg
  <2>2. CASE j <= Len(src)
    <3>1. src[j] \in Byte
      BY <2>1, <2>2
    <3> QED BY <2>1, <2>2, <3>1
  <2>3. CASE ~(j <= Len(src))
    BY <2>1, <2>3 DEF Byte
  <2> QED BY <2>2, <2>3
<1> QED BY <1>1 DEF Segment

LEMMA PackingSteps ==
    ASSUME NEW src \in Seq(Byte), NEW n, n = Segments(src)
    PROVE  /\ n \in Nat /\ Packing(src)[0] = [out |-> <<>>, run |-> <<>>, spill |-> FALSE]
           /\ \A k \in 1 .. n : \A v \in 0 .. n :
                 v + 1 = k => Packing(src)[k] = PackStep(Packing(src)[v], Segment(src, v))
<1> DEFINE x0 == [out |-> <<>>, run |-> <<>>, spill |-> FALSE]
           Eq(f) == f = [k \in 0 .. n |-> IF k = 0 THEN x0 ELSE PackStep(f[k - 1], Segment(src, k - 1))]
           step == [k \in 1 .. n |-> [x \in Packer |-> PackStep(x, Segment(src, k - 1))]]
<1>1. n \in Nat
  <2>1. Len(src) \in Nat
    OBVIOUS
  <2> QED BY <2>1 DEF Segments
<1>2. x0 \in Packer
  <2>1. 0 \in 0 .. MaxRun - 1 /\ Len(<<>>) = 8 * 0
    BY PackAssumption
  <2> QED BY <2>1 DEF Packer
<1>3. \E f : Eq(f)
  <2>1. ASSUME NEW k \in 1 .. n, NEW x \in Packer PROVE step[k][x] \in Packer
    <3>1. PICK v : v = k - 1 /\ v \in Nat
      OBVIOUS
    <3>2. Segment(src, v) \in [Seg -> Byte]
      BY <3>1, SegmentTyped
    <3>3. PackStep(x, Segment(src, v)) \in Packer
      BY <3>2, PackSteps
    <3> QED BY <3>1, <3>3
  <2>2. \E f \in [0 .. n -> Packer] : Iterates(f, n, x0, step)
    <3> HIDE DEF x0, step
    <3> QED BY <1>1, <1>2, <2>1, IterationExists
  <2>3. PICK f \in [0 .. n -> Packer] : Iterates(f, n, x0, step)
    BY <2>2
  <2>4. ASSUME NEW k \in 0 .. n, k # 0 PROVE step[k][f[k - 1]] = PackStep(f[k - 1], Segment(src, k - 1))
    <3>1. PICK v : v = k - 1 /\ v \in 0 .. n /\ k \in 1 .. n
      BY <1>1, <2>4
    <3>2. PICK x \in Packer : x = f[v]
      BY <3>1
    <3>3. step[k][x] = PackStep(x, Segment(src, k - 1))
      BY <3>1, <3>2
    <3>4. step[k][f[v]] = PackStep(f[v], Segment(src, k - 1))
      <4> HIDE DEF step
      <4> QED BY <3>2, <3>3
    <3> HIDE DEF step
    <3> QED BY <3>1, <3>4
  <2>5. Eq(f)
    <3> HIDE DEF x0, step
    <3>1. f = [k \in 0 .. n |-> IF k = 0 THEN x0 ELSE step[k][f[k - 1]]]
      BY <2>3 DEF Iterates
    <3>2. [k \in 0 .. n |-> IF k = 0 THEN x0 ELSE step[k][f[k - 1]]]
              = [k \in 0 .. n |-> IF k = 0 THEN x0 ELSE PackStep(f[k - 1], Segment(src, k - 1))]
      BY <2>4
    <3> QED BY <3>1, <3>2
  <2> HIDE DEF Eq
  <2> QED BY <2>5
<1>4. PICK u : u = Packing(src)
  OBVIOUS
<1>5. Eq(u)
  <2>1. u = CHOOSE f : Eq(f)
    BY <1>4 DEF Packing
  <2> HIDE DEF Eq
  <2> QED BY <1>3, <2>1
<1> HIDE DEF x0
<1>6. u[0] = x0
  <2>1. 0 \in 0 .. n
    BY <1>1
  <2> QED BY <1>5, <2>1
<1>7. ASSUME NEW k \in 1 .. n, NEW v \in 0 .. n, v + 1 = k PROVE u[k] = PackStep(u[v], Segment(src, v))
  <2>1. k \in 0 .. n /\ k # 0 /\ v = k - 1
    BY <1>1, <1>7
  <2>2. u[k] = PackStep(u[k - 1], Segment(src, k - 1))
    BY <1>5, <2>1
  <2> QED BY <2>1, <2>2
<1> QED BY <1>1, <1>4, <1>6, <1>7 DEF x0

-----------------------------------------------------------------------------
(* What has been packed, and the run, are the message so far. *)

Padded(src, k) == [i \in 1 .. 8 * k |-> IF i <= Len(src) THEN src[i] ELSE 0]

LEMMA PaddedSeq ==
    ASSUME NEW src \in Seq(Byte), NEW k \in Nat
    PROVE  /\ Padded(src, k) \in Seq(Byte) /\ Len(Padded(src, k)) = 8 * k
           /\ \A i \in 1 .. 8 * k : Padded(src, k)[i] = IF i <= Len(src) THEN src[i] ELSE 0
<1>1. PICK n : n = 8 * k /\ n \in Nat
  OBVIOUS
<1>2. PICK w : w = [i \in 1 .. n |-> IF i <= Len(src) THEN src[i] ELSE 0]
  OBVIOUS
<1>3. ASSUME NEW i \in 1 .. n PROVE (IF i <= Len(src) THEN src[i] ELSE 0) \in Byte
  <2>1. 0 \in Byte
    BY DEF Byte
  <2>2. CASE i <= Len(src)
    <3>1. i \in 1 .. Len(src)
      BY <1>1, <2>2
    <3>2. src[i] \in Byte
      BY <3>1
    <3> QED BY <2>2, <3>2
  <2>3. CASE ~(i <= Len(src))
    BY <2>1, <2>3
  <2> QED BY <2>2, <2>3
<1>4. w \in [1 .. n -> Byte]
  BY <1>2, <1>3
<1>5. w \in Seq(Byte) /\ Len(w) = n
  BY <1>1, <1>4, IsASeq
<1>6. \A i \in 1 .. n : w[i] = IF i <= Len(src) THEN src[i] ELSE 0
  BY <1>2
<1>7. Padded(src, k) = w
  BY <1>1, <1>2 DEF Padded
<1> QED BY <1>1, <1>5, <1>6, <1>7

LEMMA PaddedOn ==
    ASSUME NEW src \in Seq(Byte), NEW k \in Nat, NEW j, j = k + 1
    PROVE  Padded(src, j) = Padded(src, k) \o Segment(src, k)
<1>1. PICK w, z : w = Padded(src, k) /\ z = Padded(src, j)
  OBVIOUS
<1>2. PICK n, l : n = 8 * k /\ l = Len(src) /\ n \in Nat /\ l \in Nat
  OBVIOUS
<1>3. /\ w \in Seq(Byte) /\ Len(w) = n
      /\ \A i \in 1 .. n : w[i] = IF i <= l THEN src[i] ELSE 0
  BY <1>1, <1>2, PaddedSeq
<1>4. /\ z \in Seq(Byte) /\ Len(z) = n + 8
      /\ \A i \in 1 .. n + 8 : z[i] = IF i <= l THEN src[i] ELSE 0
  <2>1. j \in Nat /\ 8 * j = n + 8
    BY <1>2
  <2>2. /\ z \in Seq(Byte) /\ Len(z) = 8 * j
        /\ \A i \in 1 .. 8 * j : z[i] = IF i <= l THEN src[i] ELSE 0
    BY <1>1, <1>2, <2>1, PaddedSeq
  <2> QED BY <2>1, <2>2
<1>5. PICK seg : seg = Segment(src, k)
  OBVIOUS
<1>6. /\ seg \in Seq(Byte) /\ Len(seg) = 8
      /\ \A m \in 1 .. 8 : \A i \in Nat : i = n + m => seg[m] = IF i <= l THEN src[i] ELSE 0
  <2>1. seg \in [Seg -> Byte]
    BY <1>5, SegmentTyped
  <2>2. seg \in Seq(Byte) /\ Len(seg) = 8
    BY <2>1, SegmentIsSeq
  <2>3. ASSUME NEW m \in 1 .. 8, NEW i \in Nat, i = n + m PROVE seg[m] = IF i <= l THEN src[i] ELSE 0
    <3>1. m \in Seg
      BY DEF Seg
    <3>2. seg[m] = IF 8 * k + m <= Len(src) THEN src[8 * k + m] ELSE 0
      BY <1>5, <3>1 DEF Segment
    <3>3. 8 * k + m = i
      BY <1>2, <2>3
    <3> QED BY <1>2, <3>2, <3>3
  <2> QED BY <2>2, <2>3
<1>7. PICK y : y = w \o seg
  OBVIOUS
<1>8. /\ y \in Seq(Byte) /\ Len(y) = n + 8
      /\ \A i \in 1 .. n : y[i] = w[i]
      /\ \A m \in 1 .. 8 : \A i \in Nat : i = n + m => y[i] = seg[m]
  <2>1. w \in Seq(Byte) /\ seg \in Seq(Byte)
    BY <1>3, <1>6
  <2>2. /\ y \in Seq(Byte) /\ Len(y) = Len(w) + Len(seg) /\ Len(w) \in Nat
        /\ \A i \in 1 .. Len(w) : y[i] = w[i]
        /\ \A m \in 1 .. Len(seg) : \A i \in Nat : i = Len(w) + m => y[i] = seg[m]
    BY <1>7, <2>1
  <2>3. Len(w) = n /\ Len(seg) = 8
    BY <1>3, <1>6
  <2> QED BY <2>2, <2>3
<1>9. ASSUME NEW i \in 1 .. n + 8 PROVE z[i] = y[i]
  <2>1. CASE i <= n
    <3>1. i \in 1 .. n /\ i \in 1 .. n + 8
      BY <1>2, <2>1
    <3> QED BY <1>2, <1>3, <1>4, <1>8, <3>1
  <2>2. CASE ~(i <= n)
    <3>1. PICK m : m = i - n /\ m \in 1 .. 8 /\ i = n + m /\ i \in Nat
      BY <1>2, <2>2
    <3>2. y[i] = seg[m]
      BY <1>8, <3>1
    <3>3. seg[m] = IF i <= l THEN src[i] ELSE 0
      BY <1>6, <3>1
    <3> QED BY <1>4, <3>2, <3>3
  <2> QED BY <2>1, <2>2
<1>10. z = y
  BY <1>2, <1>4, <1>8, <1>9, SeqEqual
<1> QED BY <1>1, <1>5, <1>7, <1>10

(* p.out is read as the message up to where the run begins. *)
SoFar(src, k, p) == \E y \in Seq(Byte) : Reads(p.out, y) /\ y \o p.run = Padded(src, k)

LEMMA PackStepKeeps ==
    ASSUME NEW src \in Seq(Byte), NEW k \in Nat, NEW j, j = k + 1, NEW p \in Packer, SoFar(src, k, p),
           NEW q, q = PackStep(p, Segment(src, k))
    PROVE  q \in Packer /\ SoFar(src, j, q)
<1>1. PICK seg : seg = Segment(src, k) /\ seg \in [Seg -> Byte] /\ seg \in Seq(Byte)
  BY SegmentTyped, SegmentIsSeq
<1>2. PICK a, r : a = p.out /\ r = p.run
  OBVIOUS
<1>3. a \in Seq(Byte) /\ r \in Seq(Byte) /\ \E c \in 0 .. MaxRun - 1 : Len(r) = 8 * c
  BY <1>2 DEF Packer
<1>4. PICK y \in Seq(Byte) : Reads(a, y) /\ y \o r = Padded(src, k)
  BY <1>2 DEF SoFar
<1>5. /\ (y \o r) \o seg = Padded(src, j) /\ y \o (r \o seg) = Padded(src, j)
      /\ y \o r \in Seq(Byte) /\ r \o seg \in Seq(Byte) /\ (y \o r) \o seg \in Seq(Byte)
  <2>1. Padded(src, j) = Padded(src, k) \o seg
    BY <1>1, PaddedOn
  <2>2. (y \o r) \o seg = y \o (r \o seg)
    <3>1. y \in Seq(Byte) /\ r \in Seq(Byte) /\ seg \in Seq(Byte)
      BY <1>1, <1>3, <1>4
    <3> QED BY <3>1, ConcatAssociative
  <2>3. y \o r \in Seq(Byte) /\ r \o seg \in Seq(Byte)
    BY <1>1, <1>3, <1>4, ConcatProperties
  <2>4. (y \o r) \o seg \in Seq(Byte)
    BY <1>1, <2>3, ConcatProperties
  <2> QED BY <1>4, <2>1, <2>2, <2>3, <2>4
<1>6. q \in Packer /\ (EndsRun(p, seg, q) \/ FillsRun(p, seg, q) \/ JoinsRun(p, seg, q))
  BY <1>1, PackSteps
<1>7. CASE EndsRun(p, seg, q)
  <2>1. PICK b : b = a \o WriteFf(r) /\ b \in Seq(Byte) /\ Reads(b, y \o r)
    <3>1. PICK c : c \in 0 .. 256 /\ Len(r) = 8 * c
      <4>1. PICK d \in 0 .. MaxRun - 1 : Len(r) = 8 * d
        BY <1>3
      <4>2. d \in 0 .. 256
        BY PackAssumption
      <4> QED BY <4>1, <4>2
    <3> QED BY <1>3, <1>4, <3>1, ReadsRun
  <2>2. NonZero(seg) # Seg /\ q.out = b \o PackSeg(seg) /\ q.run = <<>>
    BY <1>2, <1>7, <2>1 DEF EndsRun
  <2>3. Reads(b \o PackSeg(seg), (y \o r) \o seg)
    BY <1>1, <1>5, <2>1, <2>2, ReadsSegment
  <2>4. Reads(q.out, (y \o r) \o seg)
    BY <2>2, <2>3
  <2>5. ((y \o r) \o seg) \o q.run = Padded(src, j)
    BY <1>5, <2>2, ConcatEmptySeq
  <2> QED BY <1>5, <1>6, <2>4, <2>5 DEF SoFar
<1>8. CASE FillsRun(p, seg, q)
  <2>1. PICK w : w = r \o seg /\ w \in Seq(Byte) /\ Len(w) = 8 * MaxRun
    BY <1>2, <1>5, <1>8 DEF FillsRun
  <2>2. q.out = a \o WriteFf(w) /\ q.run = <<>>
    BY <1>2, <1>8, <2>1 DEF FillsRun
  <2>3. Reads(a \o WriteFf(w), y \o w)
    <3>1. MaxRun \in 0 .. 256
      BY PackAssumption
    <3> QED BY <1>3, <1>4, <2>1, <3>1, ReadsRun
  <2>4. PICK x \in Seq(Byte) : x = y \o w /\ x = Padded(src, j)
    BY <1>5, <2>1
  <2>5. x \o q.run = x
    BY <2>2, <2>4, ConcatEmptySeq
  <2> QED BY <1>6, <2>2, <2>3, <2>4, <2>5 DEF SoFar
<1>9. CASE JoinsRun(p, seg, q)
  <2>1. q.out = a /\ q.run = r \o seg
    BY <1>2, <1>9 DEF JoinsRun
  <2> QED BY <1>4, <1>5, <1>6, <2>1 DEF SoFar
<1> QED BY <1>6, <1>7, <1>8, <1>9

LEMMA PackedSoFar ==
    ASSUME NEW src \in Seq(Byte), NEW n, n = Segments(src), NEW p, p = Packing(src)[n]
    PROVE  n \in Nat /\ p \in Packer /\ SoFar(src, n, p)
<1>1. /\ n \in Nat /\ Packing(src)[0] = [out |-> <<>>, run |-> <<>>, spill |-> FALSE]
      /\ \A k \in 1 .. n : \A v \in 0 .. n :
            v + 1 = k => Packing(src)[k] = PackStep(Packing(src)[v], Segment(src, v))
  BY PackingSteps
<1> DEFINE Good(k, x) == x \in Packer /\ SoFar(src, k, x)
           T == {k \in 0 .. n : Good(k, Packing(src)[k])}
<1>2. Good(0, Packing(src)[0])
  <2>1. PICK x : x = Packing(src)[0] /\ x.out = <<>> /\ x.run = <<>> /\ x \in Packer
    <3>1. 0 \in 0 .. MaxRun - 1 /\ Len(<<>>) = 8 * 0
      BY PackAssumption
    <3>2. [out |-> <<>>, run |-> <<>>, spill |-> FALSE] \in Packer
      BY <3>1 DEF Packer
    <3>3. [out |-> <<>>, run |-> <<>>, spill |-> FALSE].out = <<>>
          /\ [out |-> <<>>, run |-> <<>>, spill |-> FALSE].run = <<>>
      OBVIOUS
    <3> QED BY <1>1, <3>2, <3>3
  <2>2. Padded(src, 0) = <<>>
    <3>1. PICK w : w = Padded(src, 0) /\ w \in Seq(Byte) /\ Len(w) = 0
      <4>1. PICK k \in Nat : k = 0
        OBVIOUS
      <4>2. Padded(src, k) \in Seq(Byte) /\ Len(Padded(src, k)) = 8 * k
        BY PaddedSeq
      <4> QED BY <4>1, <4>2
    <3>2. w = <<>>
      BY <3>1
    <3> QED BY <3>1, <3>2
  <2>3. <<>> \in Seq(Byte) /\ <<>> \o <<>> = <<>>
    OBVIOUS
  <2>4. SoFar(src, 0, x)
    BY <2>1, <2>2, <2>3, ReadsNothing DEF SoFar
  <2> QED BY <2>1, <2>4
<1> HIDE DEF Good
<1>3. ASSUME NEW k \in 1 .. n, k - 1 \in T PROVE k \in T
  <2>1. PICK v : v = k - 1 /\ v \in Nat /\ v \in 0 .. n /\ v + 1 = k /\ k \in 0 .. n
    BY <1>1
  <2>2. Good(v, Packing(src)[v])
    BY <1>3, <2>1
  <2>3. Packing(src)[k] = PackStep(Packing(src)[v], Segment(src, v))
    BY <1>1, <2>1
  <2>4. Good(k, Packing(src)[k])
    BY <2>1, <2>2, <2>3, PackStepKeeps DEF Good
  <2> QED BY <2>1, <2>4
<1>4. Good(n, Packing(src)[n])
  <2>1. 0 \in T /\ n \in 0 .. n
    BY <1>1, <1>2
  <2>2. 0 .. n \subseteq T
    <3> HIDE DEF T
    <3> QED BY <1>1, <1>3, <2>1, Upwards
  <2> QED BY <2>1, <2>2
<1> QED BY <1>1, <1>4 DEF Good

-----------------------------------------------------------------------------
(* The message, and whatever the last segments add to it. *)
LEMMA UnpackedPadded ==
    ASSUME NEW src \in Seq(Byte), NEW n, n = Segments(src)
    PROVE  /\ n \in Nat /\ Pack(src) \in Seq(Byte)
           /\ \/ Unpack(Pack(src)) = Padded(src, n)
              \/ Unpack(Pack(src)) = Padded(src, n) \o Zeros(8)
<1>1. PICK p : p = Packing(src)[n]
  OBVIOUS
<1>2. n \in Nat /\ p \in Packer /\ SoFar(src, n, p)
  BY <1>1, PackedSoFar
<1>3. PICK a, r : a = p.out /\ r = p.run
  OBVIOUS
<1>4. a \in Seq(Byte) /\ r \in Seq(Byte) /\ p.spill \in BOOLEAN /\ \E c \in 0 .. MaxRun - 1 : Len(r) = 8 * c
  BY <1>2, <1>3 DEF Packer
<1>5. PICK y \in Seq(Byte) : Reads(a, y) /\ y \o r = Padded(src, n)
  BY <1>2, <1>3 DEF SoFar
<1>6. PICK b : b = a \o WriteFf(r) /\ b \in Seq(Byte) /\ Reads(b, Padded(src, n))
  <2>1. PICK c : c \in 0 .. 256 /\ Len(r) = 8 * c
    <3>1. PICK d \in 0 .. MaxRun - 1 : Len(r) = 8 * d
      BY <1>4
    <3>2. d \in 0 .. 256
      BY PackAssumption
    <3> QED BY <3>1, <3>2
  <2>2. a \o WriteFf(r) \in Seq(Byte) /\ Reads(a \o WriteFf(r), y \o r)
    BY <1>4, <1>5, <2>1, ReadsRun
  <2> QED BY <1>5, <2>2
<1>7. Pack(src) = b \o (IF p.spill THEN <<0>> ELSE <<>>)
  BY <1>1, <1>3, <1>6 DEF Pack
<1>8. CASE ~p.spill
  <2>1. Pack(src) = b
    BY <1>6, <1>7, <1>8, ConcatEmptySeq
  <2> QED BY <1>2, <1>6, <2>1, ReadsAll
<1>9. CASE p.spill
  <2>1. PICK z : z = Zeros(8) /\ z \in [Seg -> Byte]
    <3>1. \A i \in Seg : 0 \in Byte
      BY DEF Byte
    <3>2. [i \in Seg |-> 0] \in [Seg -> Byte]
      BY <3>1
    <3>3. Zeros(8) = [i \in Seg |-> 0]
      BY DEF Zeros, Seg
    <3> QED BY <3>2, <3>3
  <2>2. \A i \in Seg : z[i] = 0
    BY <2>1 DEF Zeros, Seg
  <2>3. NonZero(z) # Seg
    <3>1. 1 \in Seg
      BY DEF Seg
    <3> QED BY <2>2, <3>1 DEF NonZero
  <2>4. PackSeg(z) = <<0>>
    <3>1. PICK h : h = Header(z)
      OBVIOUS
    <3>2. h = 0
      <4>1. \A i \in {1, 2, 3, 4, 5, 6, 7, 8} : z[i] = 0
        BY <2>2 DEF Seg
      <4> QED BY <3>1, <4>1 DEF Header
    <3>3. \A i \in Seg : Bit(h, i) = 0
      BY <2>1, <2>2, <3>1, HeaderBits
    <3>4. Bits(h, 8) = 0
      <4>1. {j \in 1 .. 8 : Bit(h, j) = 1} = {}
        BY <3>3 DEF Seg
      <4> QED BY <4>1, FS_EmptySet DEF Bits
    <3>5. PICK t : t = PackSeg(z) /\ t \in Seq(Byte) /\ Len(t) = 1 + Bits(h, 8) /\ t[1] = h
      BY <2>1, <3>1, SegmentPacked
    <3>6. Len(t) = 1 /\ t[1] = 0
      BY <3>2, <3>4, <3>5
    <3>7. t = <<0>>
      <4>1. <<0>> \in Seq(Byte) /\ Len(<<0>>) = 1 /\ <<0>>[1] = 0
        <5>1. 0 \in Byte
          BY DEF Byte
        <5> QED BY <5>1
      <4>2. \A i \in 1 .. Len(t) : t[i] = <<0>>[i]
        BY <3>6, <4>1
      <4> QED BY <3>5, <3>6, <4>1, <4>2, SeqEqual
    <3> QED BY <3>5, <3>7
  <2>5. Padded(src, n) \in Seq(Byte)
    BY <1>2, PaddedSeq
  <2>6. b \o PackSeg(z) \in Seq(Byte) /\ Reads(b \o PackSeg(z), Padded(src, n) \o z)
    BY <1>6, <2>1, <2>3, <2>5, ReadsSegment
  <2>7. Pack(src) = b \o PackSeg(z)
    BY <1>7, <1>9, <2>4
  <2>8. Pack(src) \in Seq(Byte) /\ Unpack(Pack(src)) = Padded(src, n) \o z
    BY <2>6, <2>7, ReadsAll
  <2> QED BY <1>2, <2>1, <2>8
<1> QED BY <1>4, <1>8, <1>9

(* What is packed is bytes, and so is what is unpacked (sprotoPack, sprotoUnpack). *)
THEOREM PackedBytes ==
    /\ \A src \in Seq(Byte) : Pack(src) \in Seq(Byte)
    /\ \A s \in Seq(Byte) : Unpack(s) \in Seq(Byte)
<1>1. ASSUME NEW src \in Seq(Byte) PROVE Pack(src) \in Seq(Byte)
  <2>1. PICK n : n = Segments(src)
    OBVIOUS
  <2> QED BY <2>1, UnpackedPadded
<1>2. ASSUME NEW s \in Seq(Byte) PROVE Unpack(s) \in Seq(Byte)
  <2>1. PICK n : n = Len(s) /\ n \in 0 .. Len(s)
    OBVIOUS
  <2>2. Unpacking(s)[n] \in Reader
    BY <2>1, UnpackingSteps
  <2>3. Unpack(s) = Unpacking(s)[n].out
    BY <2>1 DEF Unpack
  <2> QED BY <2>2, <2>3 DEF Reader
<1> QED BY <1>1, <1>2

LEMMA UnpackedWhole ==
    ASSUME NEW src \in Seq(Byte)
    PROVE  /\ Whole(src, Pack(src))
           /\ \E z \in Seq(Byte) : Unpack(Pack(src)) = src \o z
<1>1. PICK n, l : n = Segments(src) /\ l = Len(src) /\ l \in Nat
  OBVIOUS
<1>2. PICK u : u = Unpack(Pack(src))
  OBVIOUS
<1>3. n \in Nat /\ (u = Padded(src, n) \/ u = Padded(src, n) \o Zeros(8))
  BY <1>1, <1>2, UnpackedPadded
<1>4. PICK m : m = 8 * n /\ m \in Nat /\ l <= m /\ m < l + 8
  BY <1>1, <1>3 DEF Segments
<1>5. PICK w : /\ w = Padded(src, n) /\ w \in Seq(Byte) /\ Len(w) = m
               /\ \A i \in 1 .. m : w[i] = IF i <= l THEN src[i] ELSE 0
  <2>1. n \in Nat
    BY <1>3
  <2>2. /\ Padded(src, n) \in Seq(Byte) /\ Len(Padded(src, n)) = 8 * n
        /\ \A i \in 1 .. 8 * n : Padded(src, n)[i] = IF i <= Len(src) THEN src[i] ELSE 0
    BY <2>1, PaddedSeq
  <2> QED BY <1>1, <1>4, <2>2
<1>6. \A k \in Nat : /\ Zeros(k) \in Seq(Byte) /\ Len(Zeros(k)) = k
                     /\ \A i \in 1 .. k : Zeros(k)[i] = 0
  <2>1. ASSUME NEW k \in Nat
        PROVE  Zeros(k) \in Seq(Byte) /\ Len(Zeros(k)) = k /\ \A i \in 1 .. k : Zeros(k)[i] = 0
    <3>1. \A i \in 1 .. k : 0 \in Byte
      BY DEF Byte
    <3>2. PICK z : z = [i \in 1 .. k |-> 0] /\ z \in [1 .. k -> Byte]
      <4>1. [i \in 1 .. k |-> 0] \in [1 .. k -> Byte]
        BY <3>1
      <4> QED BY <4>1
    <3>3. z \in Seq(Byte) /\ Len(z) = k
      BY <3>2, IsASeq
    <3>4. z = Zeros(k) /\ \A i \in 1 .. k : z[i] = 0
      BY <3>2 DEF Zeros
    <3> QED BY <3>3, <3>4
  <2> QED BY <2>1
<1>7. \E e \in Nat : /\ u \in Seq(Byte) /\ Len(u) = e /\ l <= e /\ e < l + 16
                     /\ \A i \in 1 .. e : u[i] = IF i <= l THEN src[i] ELSE 0
  <2>1. CASE u = w
    BY <1>1, <1>4, <1>5, <2>1
  <2>2. CASE u = w \o Zeros(8)
    <3>1. PICK z : z = Zeros(8) /\ z \in Seq(Byte) /\ Len(z) = 8 /\ \A i \in 1 .. 8 : z[i] = 0
      BY <1>6
    <3>2. w \in Seq(Byte) /\ z \in Seq(Byte)
      BY <1>5, <3>1
    <3>3. /\ u \in Seq(Byte) /\ Len(u) = Len(w) + Len(z)
          /\ \A i \in 1 .. Len(w) : u[i] = w[i]
          /\ \A k \in 1 .. Len(z) : \A i \in Nat : i = Len(w) + k => u[i] = z[k]
      <4>1. u = w \o z
        BY <2>2, <3>1
      <4> QED BY <3>2, <4>1
    <3>4. PICK e \in Nat : e = m + 8 /\ Len(u) = e
      BY <1>4, <1>5, <3>1, <3>3
    <3>5. ASSUME NEW i \in 1 .. e PROVE u[i] = IF i <= l THEN src[i] ELSE 0
      <4>1. CASE i <= m
        BY <1>4, <1>5, <3>3, <4>1
      <4>2. CASE ~(i <= m)
        <5>1. PICK k : k = i - m /\ k \in 1 .. 8 /\ i = m + k /\ i \in Nat /\ ~(i <= l)
          BY <1>1, <1>4, <3>4, <4>2
        <5>2. u[i] = z[k] /\ z[k] = 0
          BY <1>5, <3>1, <3>3, <5>1
        <5> QED BY <5>1, <5>2
      <4> QED BY <4>1, <4>2
    <3>6. l <= e /\ e < l + 16
      BY <1>1, <1>4, <3>4
    <3> QED BY <3>3, <3>4, <3>5, <3>6
  <2> QED BY <1>3, <1>5, <2>1, <2>2
<1>8. PICK e \in Nat : /\ u \in Seq(Byte) /\ Len(u) = e /\ l <= e /\ e < l + 16
                       /\ \A i \in 1 .. e : u[i] = IF i <= l THEN src[i] ELSE 0
  BY <1>7
<1>9. PICK d \in Nat : d = e - l
  BY <1>1, <1>8
<1>10. PICK z : z = Zeros(d) /\ z \in Seq(Byte) /\ Len(z) = d /\ \A i \in 1 .. d : z[i] = 0
  BY <1>6
<1>11. PICK x : x = src \o z
  OBVIOUS
<1>12. /\ x \in Seq(Byte) /\ Len(x) = l + d
       /\ \A i \in 1 .. l : x[i] = src[i]
       /\ \A k \in 1 .. d : \A i \in Nat : i = l + k => x[i] = z[k]
  <2>1. z \in Seq(Byte)
    BY <1>10
  <2>2. /\ x \in Seq(Byte) /\ Len(x) = Len(src) + Len(z)
        /\ \A i \in 1 .. Len(src) : x[i] = src[i]
        /\ \A k \in 1 .. Len(z) : \A i \in Nat : i = Len(src) + k => x[i] = z[k]
    BY <1>11, <2>1
  <2>3. Len(src) = l /\ Len(z) = d
    BY <1>1, <1>10
  <2> QED BY <2>2, <2>3
<1>13. ASSUME NEW i \in 1 .. e PROVE u[i] = x[i]
  <2>1. CASE i <= l
    BY <1>1, <1>8, <1>12, <2>1
  <2>2. CASE ~(i <= l)
    <3>1. PICK k : k = i - l /\ k \in 1 .. d /\ i = l + k /\ i \in Nat
      BY <1>1, <1>8, <1>9, <2>2
    <3>2. x[i] = z[k] /\ z[k] = 0
      BY <1>10, <1>12, <3>1
    <3> QED BY <1>8, <2>2, <3>2
  <2> QED BY <2>1, <2>2
<1>14. u = x
  <2>1. Len(x) = e
    BY <1>1, <1>9, <1>12
  <2> QED BY <1>8, <1>12, <1>13, <2>1, SeqEqual
<1>15. Len(u) - Len(src) = d /\ Len(u) < Len(src) + 16
  BY <1>1, <1>8, <1>9
<1>16. Whole(src, Pack(src))
  BY <1>2, <1>10, <1>11, <1>14, <1>15 DEF Whole
<1>17. \E q \in Seq(Byte) : Unpack(Pack(src)) = src \o q
  BY <1>2, <1>10, <1>11, <1>14
<1> QED BY <1>16, <1>17

(* Packing loses nothing: unpacking gives back any message, whatever its       *)
(* length and its runs, with fewer than sixteen zeros behind it (sprotoPack,   *)
(* sprotoUnpack).                                                              *)
THEOREM NothingLostInPacking == \A src \in Seq(Byte) : Whole(src, Pack(src))
  BY UnpackedWhole

-----------------------------------------------------------------------------
(* Numbers: division, the powers of a base, and numbers as bytes. *)

LEMMA TimesUp ==
    ASSUME NEW a \in Nat, NEW b \in Nat, NEW c \in Nat, b < c
    PROVE  a * b \in Nat /\ a * b + a <= a * c
<1>1. PICK d : d \in Nat /\ c = b + 1 + d
  <2>1. c - b - 1 \in Nat /\ c = b + 1 + (c - b - 1)
    OBVIOUS
  <2> QED BY <2>1
<1>2. a * c = a * b + a + a * d
  BY <1>1
<1>3. a * b \in Nat /\ a * d \in Nat
  BY <1>1
<1> QED BY <1>2, <1>3

Divided(n, p, q, r) == q = n \div p /\ r = n % p

LEMMA Quotient ==
    ASSUME NEW n \in Nat, NEW p \in Nat \ {0}, NEW q, NEW r, Divided(n, p, q, r)
    PROVE  q \in Nat /\ r \in 0 .. p - 1 /\ n = p * q + r
  BY DEF Divided

LEMMA QuotientIs ==
    ASSUME NEW n \in Nat, NEW p \in Nat \ {0}, NEW q \in Nat, NEW r \in 0 .. p - 1, n = p * q + r
    PROVE  n \div p = q /\ n % p = r
<1>1. PICK a, b : a = n \div p /\ b = n % p /\ a \in Nat /\ b \in 0 .. p - 1 /\ n = p * a + b
  <2>1. PICK a, b : a = n \div p /\ b = n % p
    OBVIOUS
  <2>2. Divided(n, p, a, b)
    BY <2>1 DEF Divided
  <2> QED BY <2>1, <2>2, Quotient
<1>2. ~(a < q)
  <2>1. a < q => p * a \in Nat /\ p * a + p <= p * q
    BY <1>1, TimesUp
  <2>2. p * q \in Nat /\ p * a \in Nat
    BY <1>1
  <2> QED BY <1>1, <2>1, <2>2
<1>3. ~(q < a)
  <2>1. q < a => p * q \in Nat /\ p * q + p <= p * a
    BY <1>1, TimesUp
  <2>2. p * q \in Nat /\ p * a \in Nat
    BY <1>1
  <2> QED BY <1>1, <2>1, <2>2
<1>4. a = q
  BY <1>1, <1>2, <1>3
<1>5. b = r
  <2>1. PICK m : m = p * q /\ m \in Nat
    BY <1>4
  <2>2. n = m + b
    BY <1>1, <1>4, <2>1
  <2> QED BY <1>1, <2>1, <2>2
<1> QED BY <1>1, <1>4, <1>5

LEMMA BaseFacts == Base \in Nat \ {0} /\ Base \in 3 .. 256 /\ Base - 1 \in Byte
  BY SprotoAssumption DEF Byte

LEMMA PowersLoop ==
    ASSUME NEW b \in Nat, NEW m \in Nat
    PROVE  \E u \in [0 .. m -> Nat] :
              /\ u[0] = 1
              /\ \A k \in 1 .. m : \A v \in 0 .. m : v + 1 = k => u[k] = b * u[v]
              /\ u = Powers(b, m)
<1> DEFINE n == m
           X == Nat
           x0 == 1
           S(k, x) == b * x
           Eq(f) == f = [k \in 0 .. n |-> IF k = 0 THEN x0 ELSE S(k, f[k - 1])]
           step == [k \in 1 .. n |-> [x \in X |-> S(k, x)]]
<1>1. n \in Nat /\ x0 \in X
  OBVIOUS
<1>2. ASSUME NEW k \in 1 .. n, NEW x \in X PROVE S(k, x) \in X
  BY <1>2
<1>3. \E f : Eq(f)
  <2> HIDE DEF n, X, x0, S
  <2>1. ASSUME NEW k \in 1 .. n, NEW x \in X PROVE step[k][x] \in X
    BY <1>2
  <2>2. PICK f \in [0 .. n -> X] : Iterates(f, n, x0, step)
    <3> HIDE DEF step
    <3> QED BY <1>1, <2>1, IterationExists
  <2>3. ASSUME NEW k \in 0 .. n, k # 0 PROVE step[k][f[k - 1]] = S(k, f[k - 1])
    <3>1. PICK v : v = k - 1 /\ v \in 0 .. n /\ k \in 1 .. n
      BY <1>1, <2>3
    <3>2. step[k][f[v]] = S(k, f[v])
      BY <2>2, <3>1
    <3> QED BY <3>1, <3>2
  <2> HIDE DEF step
  <2>4. f = [k \in 0 .. n |-> IF k = 0 THEN x0 ELSE step[k][f[k - 1]]]
    BY <2>2 DEF Iterates
  <2>5. [k \in 0 .. n |-> IF k = 0 THEN x0 ELSE step[k][f[k - 1]]]
            = [k \in 0 .. n |-> IF k = 0 THEN x0 ELSE S(k, f[k - 1])]
    BY <2>3
  <2>6. Eq(f)
    BY <2>4, <2>5
  <2> QED BY <2>6
<1>4. PICK u : u = CHOOSE f : Eq(f)
  OBVIOUS
<1>5. u = Powers(b, m)
  BY <1>4 DEF Powers
<1>6. Eq(u)
  <2> HIDE DEF Eq
  <2> QED BY <1>3, <1>4
<1> HIDE DEF n, X, x0, S
<1>7. u[0] = x0
  <2>1. 0 \in 0 .. n
    BY <1>1
  <2> QED BY <1>6, <2>1
<1>8. ASSUME NEW k \in 1 .. n, NEW v \in 0 .. n, v + 1 = k PROVE u[k] = S(k, u[v])
  <2>1. k \in 0 .. n /\ k # 0 /\ v = k - 1
    BY <1>1, <1>8
  <2>2. u[k] = S(k, u[k - 1])
    BY <1>6, <2>1
  <2> QED BY <2>1, <2>2
<1> DEFINE T == {k \in 0 .. n : u[k] \in X}
<1>9. 0 \in T
  BY <1>1, <1>7
<1>10. ASSUME NEW k \in 1 .. n, k - 1 \in T PROVE k \in T
  <2>1. PICK v : v = k - 1 /\ v \in 0 .. n /\ v + 1 = k
    BY <1>1
  <2>2. u[v] \in X
    BY <1>10, <2>1
  <2>3. u[k] \in X
    BY <1>2, <1>8, <2>1, <2>2
  <2> QED BY <2>3
<1>11. u \in [0 .. n -> X]
  <2>1. 0 .. n \subseteq T
    <3> HIDE DEF T
    <3> QED BY <1>1, <1>9, <1>10, Upwards
  <2>2. \A k \in 0 .. n : u[k] \in X
    BY <2>1
  <2>3. u = [k \in 0 .. n |-> u[k]]
    BY <1>6
  <2> QED BY <2>2, <2>3
<1> USE DEF S
<1>12. \A k \in 1 .. n : \A v \in 0 .. n : v + 1 = k => u[k] = b * u[v]
  BY <1>8
<1> QED BY <1>5, <1>7, <1>11, <1>12 DEF n, X, x0

LEMMA PowerFacts ==
    /\ Power \in [0 .. 8 -> Nat] /\ Power[0] = 1
    /\ \A k \in 1 .. 8 : \A v \in 0 .. 8 : v + 1 = k => Power[k] = Base * Power[v]
<1>1. Base \in Nat /\ 8 \in Nat
  BY SprotoAssumption
<1>2. PICK u \in [0 .. 8 -> Nat] :
              /\ u[0] = 1
              /\ \A k \in 1 .. 8 : \A v \in 0 .. 8 : v + 1 = k => u[k] = Base * u[v]
              /\ u = Powers(Base, 8)
  BY <1>1, PowersLoop
<1> QED BY <1>2 DEF Power

LEMMA PowerPositive == \A k \in 0 .. 8 : Power[k] \in Nat \ {0}
<1> DEFINE T == {k \in 0 .. 8 : Power[k] \in Nat \ {0}}
<1>1. 0 \in T
  BY PowerFacts
<1>2. ASSUME NEW k \in 1 .. 8, k - 1 \in T PROVE k \in T
  <2>1. PICK v : v = k - 1 /\ v \in 0 .. 8 /\ v + 1 = k /\ v \in T
    BY <1>2
  <2>2. PICK p : p = Power[v] /\ p \in Nat \ {0}
    BY <2>1
  <2>3. Power[k] = Base * p
    BY <2>1, <2>2, PowerFacts
  <2>4. Base \in Nat \ {0}
    BY SprotoAssumption
  <2>5. Base * p \in Nat \ {0}
    BY <2>2, <2>4
  <2> QED BY <2>3, <2>5
<1>3. 0 .. 8 \subseteq T
  <2> HIDE DEF T
  <2>1. 8 \in Nat
    OBVIOUS
  <2> QED BY <1>1, <1>2, <2>1, Upwards
<1> QED BY <1>3

LEMMA BytesTyped ==
    ASSUME NEW n \in Nat, NEW m \in 0 .. 8
    PROVE  /\ Bytes(n, m) \in Seq(Byte) /\ Len(Bytes(n, m)) = m
           /\ \A i \in 1 .. m : \A v \in 0 .. 8 : v + 1 = i => Bytes(n, m)[i] = (n \div Power[v]) % Base
<1>1. ASSUME NEW i \in 1 .. m PROVE (n \div Power[i - 1]) % Base \in Byte
  <2>1. PICK p : p = Power[i - 1] /\ p \in Nat \ {0}
    <3>1. i - 1 \in 0 .. 8
      OBVIOUS
    <3> QED BY <3>1, PowerPositive
  <2>2. PICK q : q = n \div p /\ q \in Nat
    BY <2>1, Quotient
  <2>3. q % Base \in Byte
    BY <2>2, SprotoAssumption DEF Byte
  <2> QED BY <2>1, <2>2, <2>3
<1>2. PICK b : b = Bytes(n, m) /\ b = [i \in 1 .. m |-> (n \div Power[i - 1]) % Base]
  BY DEF Bytes
<1>3. b \in [1 .. m -> Byte]
  <2> HIDE DEF Byte
  <2> QED BY <1>1, <1>2
<1>4. b \in Seq(Byte) /\ Len(b) = m
  <2> HIDE DEF Byte
  <2> QED BY <1>3, IsASeq
<1>5. ASSUME NEW i \in 1 .. m, NEW v \in 0 .. 8, v + 1 = i PROVE b[i] = (n \div Power[v]) % Base
  <2>1. i - 1 = v
    BY <1>5
  <2> QED BY <1>2, <2>1
<1> QED BY <1>2, <1>4, <1>5

LEMMA UnsignedLoop ==
    ASSUME NEW s, NEW m \in 0 .. 8, \A i \in 1 .. m : s[i] \in Nat
    PROVE  \E u \in [0 .. m -> Nat] :
              /\ u[0] = 0
              /\ \A k \in 1 .. m : \A v \in 0 .. m : v + 1 = k => u[k] = u[v] + s[k] * Power[k - 1]
              /\ u[m] = Unsigned(s, m)
<1> DEFINE n == m
           X == Nat
           x0 == 0
           S(k, x) == x + s[k] * Power[k - 1]
           Eq(f) == f = [k \in 0 .. n |-> IF k = 0 THEN x0 ELSE S(k, f[k - 1])]
           step == [k \in 1 .. n |-> [x \in X |-> S(k, x)]]
<1>1. n \in Nat /\ x0 \in X
  OBVIOUS
<1>2. ASSUME NEW k \in 1 .. n, NEW x \in X PROVE S(k, x) \in X
  BY <1>2, PowerFacts
<1>3. \E f : Eq(f)
  <2> HIDE DEF n, X, x0, S
  <2>1. ASSUME NEW k \in 1 .. n, NEW x \in X PROVE step[k][x] \in X
    BY <1>2
  <2>2. PICK f \in [0 .. n -> X] : Iterates(f, n, x0, step)
    <3> HIDE DEF step
    <3> QED BY <1>1, <2>1, IterationExists
  <2>3. ASSUME NEW k \in 0 .. n, k # 0 PROVE step[k][f[k - 1]] = S(k, f[k - 1])
    <3>1. PICK v : v = k - 1 /\ v \in 0 .. n /\ k \in 1 .. n
      BY <1>1, <2>3
    <3>2. step[k][f[v]] = S(k, f[v])
      BY <2>2, <3>1
    <3> QED BY <3>1, <3>2
  <2> HIDE DEF step
  <2>4. f = [k \in 0 .. n |-> IF k = 0 THEN x0 ELSE step[k][f[k - 1]]]
    BY <2>2 DEF Iterates
  <2>5. [k \in 0 .. n |-> IF k = 0 THEN x0 ELSE step[k][f[k - 1]]]
            = [k \in 0 .. n |-> IF k = 0 THEN x0 ELSE S(k, f[k - 1])]
    BY <2>3
  <2>6. Eq(f)
    BY <2>4, <2>5
  <2> QED BY <2>6
<1>4. PICK u : u = CHOOSE f : Eq(f)
  OBVIOUS
<1>5. u[m] = Unsigned(s, m)
  BY <1>4 DEF Unsigned
<1>6. Eq(u)
  <2> HIDE DEF Eq
  <2> QED BY <1>3, <1>4
<1> HIDE DEF n, X, x0, S
<1>7. u[0] = x0
  <2>1. 0 \in 0 .. n
    BY <1>1
  <2> QED BY <1>6, <2>1
<1>8. ASSUME NEW k \in 1 .. n, NEW v \in 0 .. n, v + 1 = k PROVE u[k] = S(k, u[v])
  <2>1. k \in 0 .. n /\ k # 0 /\ v = k - 1
    BY <1>1, <1>8
  <2>2. u[k] = S(k, u[k - 1])
    BY <1>6, <2>1
  <2> QED BY <2>1, <2>2
<1> DEFINE T == {k \in 0 .. n : u[k] \in X}
<1>9. 0 \in T
  BY <1>1, <1>7
<1>10. ASSUME NEW k \in 1 .. n, k - 1 \in T PROVE k \in T
  <2>1. PICK v : v = k - 1 /\ v \in 0 .. n /\ v + 1 = k
    BY <1>1
  <2>2. u[v] \in X
    BY <1>10, <2>1
  <2>3. u[k] \in X
    BY <1>2, <1>8, <2>1, <2>2
  <2> QED BY <2>3
<1>11. u \in [0 .. n -> X]
  <2>1. 0 .. n \subseteq T
    <3> HIDE DEF T
    <3> QED BY <1>1, <1>9, <1>10, Upwards
  <2>2. \A k \in 0 .. n : u[k] \in X
    BY <2>1
  <2>3. u = [k \in 0 .. n |-> u[k]]
    BY <1>6
  <2> QED BY <2>2, <2>3
<1> USE DEF S
<1>12. \A k \in 1 .. n : \A v \in 0 .. n : v + 1 = k => u[k] = u[v] + s[k] * Power[k - 1]
  BY <1>8
<1> QED BY <1>5, <1>7, <1>11, <1>12 DEF n, X, x0

(* One more digit of a number. *)
Digit(n, p, b, x, d, m) == x = n % p /\ d = (n \div p) % b /\ m = b * p

LEMMA DigitStep ==
    ASSUME NEW n \in Nat, NEW p \in Nat \ {0}, NEW b \in Nat \ {0}, NEW x, NEW d, NEW m,
           Digit(n, p, b, x, d, m)
    PROVE  x + d * p = n % m
<1>1. PICK q : q = n \div p
  OBVIOUS
<1>2. q \in Nat /\ x \in 0 .. p - 1 /\ n = p * q + x
  <2>1. Divided(n, p, q, x)
    BY <1>1 DEF Divided, Digit
  <2> QED BY <2>1, Quotient
<1>3. PICK c : c = q \div b
  OBVIOUS
<1>4. c \in Nat /\ d \in 0 .. b - 1 /\ q = b * c + d
  <2>1. Divided(q, b, c, d)
    BY <1>1, <1>3 DEF Divided, Digit
  <2> QED BY <1>2, <2>1, Quotient
<1>5. PICK e : m = b * p /\ m \in Nat \ {0} /\ e = d * p /\ e \in Nat
  <2>1. b * p \in Nat \ {0} /\ d * p \in Nat
    BY <1>4
  <2> QED BY <2>1 DEF Digit
<1>6. e + p <= m
  <2>1. p * d \in Nat /\ p * d + p <= p * b
    BY <1>4, TimesUp
  <2>2. p * d = e /\ p * b = m
    BY <1>4, <1>5
  <2> QED BY <2>1, <2>2
<1>7. n = m * c + (x + e)
  <2>1. PICK t : t = b * c /\ t \in Nat
    BY <1>4
  <2>2. p * (t + d) = p * t + p * d
    BY <1>4, <2>1
  <2>3. p * t = m * c /\ p * d = e
    BY <1>4, <1>5, <2>1
  <2>4. m * c \in Nat
    BY <1>4, <1>5
  <2>5. q = t + d
    BY <1>4, <2>1
  <2>6. p * q = m * c + e
    BY <2>2, <2>3, <2>5
  <2>7. PICK g : g = m * c /\ g \in Nat
    BY <2>4
  <2>8. n = (g + e) + x
    BY <1>2, <2>6, <2>7
  <2>9. x \in Nat /\ e \in Nat
    BY <1>2, <1>5
  <2>10. n = g + (x + e)
    BY <2>7, <2>8, <2>9
  <2> QED BY <2>7, <2>10
<1>8. x + e \in 0 .. m - 1
  BY <1>2, <1>5, <1>6
<1>9. PICK y : y = x + e
  OBVIOUS
<1>10. n % m = y
  BY <1>4, <1>5, <1>7, <1>8, <1>9, QuotientIs
<1> QED BY <1>5, <1>9, <1>10

LEMMA UnsignedIs ==
    ASSUME NEW n \in Nat, NEW m \in 0 .. 8, NEW b, b = Bytes(n, m), NEW s, \A i \in 1 .. m : s[i] = b[i]
    PROVE  Unsigned(s, m) = n % Power[m]
<1>1. \A i \in 1 .. m : s[i] \in Nat
  <2>1. b \in Seq(Byte) /\ Len(b) = m
    BY BytesTyped
  <2>2. \A i \in 1 .. m : b[i] \in Byte
    <3> HIDE DEF Byte
    <3> QED BY <2>1
  <2>3. \A i \in 1 .. m : s[i] \in Byte
    <3> HIDE DEF Byte
    <3> QED BY <2>2
  <2> QED BY <2>3 DEF Byte
<1>2. PICK u \in [0 .. m -> Nat] :
              /\ u[0] = 0
              /\ \A k \in 1 .. m : \A v \in 0 .. m : v + 1 = k => u[k] = u[v] + s[k] * Power[k - 1]
              /\ u[m] = Unsigned(s, m)
  BY <1>1, UnsignedLoop
<1> DEFINE T == {k \in 0 .. m : u[k] = n % Power[k]}
<1>3. 0 \in T
  <2>1. n % 1 = 0
    OBVIOUS
  <2> QED BY <1>2, <2>1, PowerFacts
<1>4. ASSUME NEW k \in 1 .. m, k - 1 \in T PROVE k \in T
  <2>1. PICK v : v = k - 1 /\ v \in 0 .. m /\ v \in 0 .. 8 /\ v + 1 = k /\ k \in 1 .. 8 /\ u[v] = n % Power[v]
    <3>1. PICK v : v = k - 1
      OBVIOUS
    <3>2. v \in 0 .. m /\ v \in 0 .. 8 /\ v + 1 = k /\ k \in 1 .. 8
      BY <3>1
    <3>3. u[v] = n % Power[v]
      BY <1>4, <3>1
    <3> QED BY <3>1, <3>2, <3>3
  <2> HIDE DEF T
  <2>2. PICK p : p = Power[v] /\ p \in Nat \ {0}
    BY <2>1, PowerPositive
  <2>3. Power[k] = Base * p
    BY <2>1, <2>2, PowerFacts
  <2>4. s[k] = (n \div p) % Base
    <3>1. b[k] = (n \div Power[v]) % Base
      BY <2>1, BytesTyped
    <3> QED BY <2>2, <3>1
  <2>5. u[k] = u[v] + ((n \div p) % Base) * p
    <3>1. u[k] = u[v] + s[k] * Power[k - 1]
      BY <1>2, <2>1
    <3> QED BY <2>1, <2>2, <2>4, <3>1
  <2>6. u[v] = n % p
    BY <2>1, <2>2
  <2>7. PICK base : base = Base /\ base \in Nat \ {0}
    BY BaseFacts
  <2>8. PICK x, d, e : x = u[v] /\ d = (n \div p) % Base /\ e = Base * p
    OBVIOUS
  <2>9. x + d * p = n % e
    <3>1. Digit(n, p, base, x, d, e)
      BY <2>6, <2>7, <2>8 DEF Digit
    <3>2. p \in Nat \ {0} /\ base \in Nat \ {0}
      BY <2>2, <2>7
    <3> QED BY <3>1, <3>2, DigitStep
  <2>10. u[k] = n % Power[k]
    BY <2>3, <2>5, <2>8, <2>9
  <2> QED BY <2>10 DEF T
<1>5. 0 .. m \subseteq T
  <2> HIDE DEF T
  <2>1. m \in Nat
    OBVIOUS
  <2> QED BY <1>3, <1>4, <2>1, Upwards
<1>6. m \in T
  BY <1>5
<1> QED BY <1>2, <1>6

LEMMA SmallIs ==
    ASSUME NEW n \in Nat, NEW p \in Nat, n < p
    PROVE  n % p = n
<1>1. n = p * 0 + n /\ n \in 0 .. p - 1 /\ p \in Nat \ {0}
  OBVIOUS
<1> QED BY <1>1, QuotientIs

-----------------------------------------------------------------------------
(* Loading a field: a loop over its words. *)

(* What a word leaves of a field; fields that are loaded. *)
RawField == [tag : Int, type : Int, name : STRING \cup {Null}, st : Int \cup {Null}, key : Int, extra : Int,
             array : BOOLEAN]
FieldState == [ok : BOOLEAN, tag : Int, f : RawField]

FieldOf(d) ==
    [tag |-> d.tag, type |-> IF d.st = Null THEN d.type ELSE TStruct, name |-> d.name, st |-> d.st, key |-> -1,
     extra |-> CASE d.extra = Null -> 0
                 [] d.extra # Null /\ d.type = TInteger -> CalcPow(10, d.extra)
                 [] OTHER -> d.extra,
     array |-> d.array]

LEMMA CalcPowTyped == \A v \in Nat : CalcPow(10, v) \in Nat
<1>1. ASSUME NEW v \in Nat PROVE CalcPow(10, v) \in Nat
  <2>1. PICK b : b = 10 /\ b \in Nat
    OBVIOUS
  <2>2. PICK u \in [0 .. v -> Nat] : u = Powers(b, v)
    BY <2>1, PowersLoop
  <2>3. v \in 0 .. v
    OBVIOUS
  <2> QED BY <2>1, <2>2, <2>3 DEF CalcPow
<1> QED BY <1>1

LEMMA FieldWordTyped ==
    ASSUME NEW f \in RawField, NEW tag \in Int, NEW v \in Nat, NEW n \in Nat
    PROVE  FieldWord(f, tag, v, n) = Failed \/ \E g \in RawField : FieldWord(f, tag, v, n) = Done(g)
<1>1. \A x \in Int : [f EXCEPT !.type = x] \in RawField /\ [f EXCEPT !.extra = x] \in RawField
                    /\ [f EXCEPT !.tag = x] \in RawField /\ [f EXCEPT !.key = x] \in RawField
  BY DEF RawField
<1>2. [f EXCEPT !.array = @ \/ v # 0] \in RawField
  BY DEF RawField
<1>3. \A x, y \in Int : [f EXCEPT !.type = x, !.st = y] \in RawField
  BY DEF RawField
<1>4. CalcPow(10, v) \in Int
  BY CalcPowTyped
<1>5. v \in Int /\ v + 1 \in Int /\ TStruct \in Int
  BY DEF TStruct
<1>6. PICK r : r = FieldWord(f, tag, v, n)
  OBVIOUS
<1>7. \/ r = Done([f EXCEPT !.type = v])
      \/ r = Done([f EXCEPT !.extra = CalcPow(10, v)])
      \/ r = Done([f EXCEPT !.extra = v])
      \/ r = Done([f EXCEPT !.type = TStruct, !.st = v + 1])
      \/ r = Done([f EXCEPT !.tag = v])
      \/ r = Done([f EXCEPT !.array = @ \/ v # 0])
      \/ r = Done([f EXCEPT !.key = v])
      \/ r = Failed
  BY <1>6 DEF FieldWord
<1>8. r = Failed \/ \E g \in RawField : r = Done(g)
  <2> HIDE DEF RawField
  <2> QED BY <1>1, <1>2, <1>3, <1>4, <1>5, <1>7
<1> QED BY <1>6, <1>8

LEMMA FieldStepTyped ==
    ASSUME NEW x \in FieldState, NEW name \in STRING, NEW w \in Nat, NEW n \in Nat
    PROVE  FieldStep(x, name, w, n) \in FieldState
<1>1. PICK tag, r : tag = x.tag + 1 /\ r = FieldWord(x.f, tag, NumberOf(w), n)
  OBVIOUS
<1>2. x.f \in RawField /\ x.ok \in BOOLEAN /\ x.tag \in Int /\ tag \in Int
  BY <1>1 DEF FieldState
<1>3. CASE ~x.ok \/ (w % 2 = 0 /\ (tag = 0 <=> w # 0))
  <2>1. FieldStep(x, name, w, n) = [x EXCEPT !.ok = FALSE]
    BY <1>1, <1>3 DEF FieldStep
  <2> QED BY <2>1 DEF FieldState
<1>4. CASE ~(~x.ok \/ (w % 2 = 0 /\ (tag = 0 <=> w # 0))) /\ w % 2 = 1
  <2>1. FieldStep(x, name, w, n) = [ok |-> TRUE, tag |-> tag + w \div 2, f |-> x.f]
    BY <1>1, <1>4 DEF FieldStep
  <2> QED BY <1>2, <2>1 DEF FieldState
<1>5. CASE ~(~x.ok \/ (w % 2 = 0 /\ (tag = 0 <=> w # 0))) /\ w % 2 # 1 /\ w = 0
  <2>1. FieldStep(x, name, w, n) = [ok |-> TRUE, tag |-> 0, f |-> [x.f EXCEPT !.name = name]]
    BY <1>1, <1>5 DEF FieldStep
  <2>2. [x.f EXCEPT !.name = name] \in RawField
    BY <1>2 DEF RawField
  <2> QED BY <2>1, <2>2 DEF FieldState
<1>6. CASE ~(~x.ok \/ (w % 2 = 0 /\ (tag = 0 <=> w # 0))) /\ w % 2 # 1 /\ w # 0
  <2>1. FieldStep(x, name, w, n) = [ok |-> r.ok, tag |-> tag, f |-> IF r.ok THEN r.val ELSE x.f]
    BY <1>1, <1>6 DEF FieldStep
  <2>2. NumberOf(w) \in Nat
    BY <1>6 DEF NumberOf
  <2>3. r = Failed \/ \E g \in RawField : r = Done(g)
    BY <1>1, <1>2, <2>2, FieldWordTyped
  <2>4. CASE r = Failed
    <3>1. FieldStep(x, name, w, n) = [ok |-> FALSE, tag |-> tag, f |-> x.f]
      BY <2>1, <2>4 DEF Failed
    <3> QED BY <1>2, <3>1 DEF FieldState
  <2>5. ASSUME NEW g \in RawField, r = Done(g) PROVE FieldStep(x, name, w, n) \in FieldState
    <3>1. FieldStep(x, name, w, n) = [ok |-> TRUE, tag |-> tag, f |-> g]
      BY <2>1, <2>5 DEF Done
    <3> QED BY <1>2, <3>1 DEF FieldState
  <2> QED BY <2>3, <2>4, <2>5
<1> QED BY <1>3, <1>4, <1>5, <1>6

LEMMA FieldLoop ==
    ASSUME NEW raw, raw.words \in Seq(Nat), raw.name \in STRING, NEW typeN \in Nat
    PROVE  \E u \in [0 .. Len(raw.words) -> FieldState] :
              /\ u[0] = [ok |-> TRUE, tag |-> -1, f |-> NewField]
              /\ \A k \in 1 .. Len(raw.words) : \A v \in 0 .. Len(raw.words) : v + 1 = k => u[k] = FieldStep(u[v], raw.name, raw.words[k], typeN)
              /\ ImportField(raw, typeN) = IF u[Len(raw.words)].ok /\ u[Len(raw.words)].f.tag >= 0
                                             /\ u[Len(raw.words)].f.type >= 0 /\ u[Len(raw.words)].f.name # Null
                                         THEN Done(u[Len(raw.words)].f) ELSE Failed
<1> DEFINE n == Len(raw.words)
           X == FieldState
           x0 == [ok |-> TRUE, tag |-> -1, f |-> NewField]
           S(k, x) == FieldStep(x, raw.name, raw.words[k], typeN)
           Eq(f) == f = [k \in 0 .. n |-> IF k = 0 THEN x0 ELSE S(k, f[k - 1])]
           step == [k \in 1 .. n |-> [x \in X |-> S(k, x)]]
<1>1. n \in Nat /\ x0 \in X
  BY DEF NewField, FieldState, RawField
<1>2. ASSUME NEW k \in 1 .. n, NEW x \in X PROVE S(k, x) \in X
  <2>1. PICK w : w = raw.words[k] /\ w \in Nat
    OBVIOUS
  <2>2. FieldStep(x, raw.name, w, typeN) \in FieldState
    <3> HIDE DEF S
    <3> QED BY <1>2, <2>1, FieldStepTyped
  <2> QED BY <2>1, <2>2
<1>3. \E f : Eq(f)
  <2> HIDE DEF n, X, x0, S
  <2>1. ASSUME NEW k \in 1 .. n, NEW x \in X PROVE step[k][x] \in X
    BY <1>2
  <2>2. PICK f \in [0 .. n -> X] : Iterates(f, n, x0, step)
    <3> HIDE DEF step
    <3> QED BY <1>1, <2>1, IterationExists
  <2>3. ASSUME NEW k \in 0 .. n, k # 0 PROVE step[k][f[k - 1]] = S(k, f[k - 1])
    <3>1. PICK v : v = k - 1 /\ v \in 0 .. n /\ k \in 1 .. n
      BY <1>1, <2>3
    <3>2. step[k][f[v]] = S(k, f[v])
      BY <2>2, <3>1
    <3> QED BY <3>1, <3>2
  <2> HIDE DEF step
  <2>4. f = [k \in 0 .. n |-> IF k = 0 THEN x0 ELSE step[k][f[k - 1]]]
    BY <2>2 DEF Iterates
  <2>5. [k \in 0 .. n |-> IF k = 0 THEN x0 ELSE step[k][f[k - 1]]]
            = [k \in 0 .. n |-> IF k = 0 THEN x0 ELSE S(k, f[k - 1])]
    BY <2>3
  <2>6. Eq(f)
    BY <2>4, <2>5
  <2> QED BY <2>6
<1>4. PICK u : u = CHOOSE f : Eq(f)
  OBVIOUS
<1>5. ImportField(raw, typeN) = IF u[Len(raw.words)].ok /\ u[Len(raw.words)].f.tag >= 0
                                             /\ u[Len(raw.words)].f.type >= 0 /\ u[Len(raw.words)].f.name # Null
                                         THEN Done(u[Len(raw.words)].f) ELSE Failed
  BY <1>4 DEF ImportField
<1>6. Eq(u)
  <2> HIDE DEF Eq
  <2> QED BY <1>3, <1>4
<1> HIDE DEF n, X, x0, S
<1>7. u[0] = x0
  <2>1. 0 \in 0 .. n
    BY <1>1
  <2> QED BY <1>6, <2>1
<1>8. ASSUME NEW k \in 1 .. n, NEW v \in 0 .. n, v + 1 = k PROVE u[k] = S(k, u[v])
  <2>1. k \in 0 .. n /\ k # 0 /\ v = k - 1
    BY <1>1, <1>8
  <2>2. u[k] = S(k, u[k - 1])
    BY <1>6, <2>1
  <2> QED BY <2>1, <2>2
<1> DEFINE T == {k \in 0 .. n : u[k] \in X}
<1>9. 0 \in T
  BY <1>1, <1>7
<1>10. ASSUME NEW k \in 1 .. n, k - 1 \in T PROVE k \in T
  <2>1. PICK v : v = k - 1 /\ v \in 0 .. n /\ v + 1 = k
    BY <1>1
  <2>2. u[v] \in X
    BY <1>10, <2>1
  <2>3. u[k] \in X
    BY <1>2, <1>8, <2>1, <2>2
  <2> QED BY <2>3
<1>11. u \in [0 .. n -> X]
  <2>1. 0 .. n \subseteq T
    <3> HIDE DEF T
    <3> QED BY <1>1, <1>9, <1>10, Upwards
  <2>2. \A k \in 0 .. n : u[k] \in X
    BY <2>1
  <2>3. u = [k \in 0 .. n |-> u[k]]
    BY <1>6
  <2> QED BY <2>2, <2>3
<1> USE DEF S
<1>12. \A k \in 1 .. n : \A v \in 0 .. n : v + 1 = k => u[k] = FieldStep(u[v], raw.name, raw.words[k], typeN)
  BY <1>8
<1> QED BY <1>5, <1>7, <1>11, <1>12 DEF n, X, x0

-----------------------------------------------------------------------------
(* The words of a field. *)

Joins(S, s, a, b) == a \in Seq(S) /\ b \in Seq(S) /\ s = a \o b

LEMMA Joined ==
    ASSUME NEW S, NEW s, NEW a, NEW b, Joins(S, s, a, b)
    PROVE  /\ s \in Seq(S) /\ Len(s) = Len(a) + Len(b)
           /\ \A k \in 1 .. Len(a) : s[k] = a[k]
           /\ \A k \in 1 .. Len(b) : \A m \in Nat : m = Len(a) + k => s[m] = b[k]
  BY DEF Joins

MakesWords(a, b, c, t, w) == w = <<0>> \o <<a, b>> \o <<c>> \o t

LEMMA FieldWords ==
    ASSUME NEW a \in Nat, NEW b \in Nat, NEW c \in Nat, NEW t \in Seq(Nat), NEW w, MakesWords(a, b, c, t, w)
    PROVE  /\ w \in Seq(Nat) /\ Len(w) = 4 + Len(t) /\ w[1] = 0 /\ w[2] = a /\ w[3] = b /\ w[4] = c
           /\ Len(t) = 1 => w[5] = t[1]
<1>1. PICK p, q, z : p = <<0>> /\ q = <<a, b>> /\ z = <<c>>
  OBVIOUS
<1>2. p \in Seq(Nat) /\ Len(p) = 1 /\ p[1] = 0
  BY <1>1
<1>3. q \in Seq(Nat) /\ Len(q) = 2 /\ q[1] = a /\ q[2] = b
  BY <1>1
<1>4. z \in Seq(Nat) /\ Len(z) = 1 /\ z[1] = c
  BY <1>1
<1>5. PICK x, y : x = p \o q /\ y = x \o z
  OBVIOUS
<1>6. x \in Seq(Nat) /\ Len(x) = 3 /\ x[1] = 0 /\ x[2] = a /\ x[3] = b
  <2>1. Joins(Nat, x, p, q)
    BY <1>2, <1>3, <1>5 DEF Joins
  <2>2. /\ x \in Seq(Nat) /\ Len(x) = Len(p) + Len(q)
        /\ \A k \in 1 .. Len(p) : x[k] = p[k]
        /\ \A k \in 1 .. Len(q) : \A m \in Nat : m = Len(p) + k => x[m] = q[k]
    BY <2>1, Joined
  <2> QED BY <1>2, <1>3, <2>2
<1>7. y \in Seq(Nat) /\ Len(y) = 4 /\ y[1] = 0 /\ y[2] = a /\ y[3] = b /\ y[4] = c
  <2>1. Joins(Nat, y, x, z)
    BY <1>4, <1>5, <1>6 DEF Joins
  <2>2. /\ y \in Seq(Nat) /\ Len(y) = Len(x) + Len(z)
        /\ \A k \in 1 .. Len(x) : y[k] = x[k]
        /\ \A k \in 1 .. Len(z) : \A m \in Nat : m = Len(x) + k => y[m] = z[k]
    BY <2>1, Joined
  <2> QED BY <1>4, <1>6, <2>2
<1>8. w = y \o t
  BY <1>1, <1>5 DEF MakesWords
<1>9. /\ w \in Seq(Nat) /\ Len(w) = Len(y) + Len(t)
      /\ \A k \in 1 .. Len(y) : w[k] = y[k]
      /\ \A k \in 1 .. Len(t) : \A m \in Nat : m = Len(y) + k => w[m] = t[k]
  <2>1. Joins(Nat, w, y, t)
    BY <1>7, <1>8 DEF Joins
  <2> QED BY <2>1, Joined
<1> QED BY <1>7, <1>9

LEMMA PackFieldWords ==
    ASSUME NEW n \in Nat, NEW d \in FieldDef(n)
    PROVE  /\ PackField(d).name = d.name /\ d.name \in STRING
           /\ PackField(d).words \in Seq(Nat)
           /\ Len(PackField(d).words) = (IF d.array THEN 5 ELSE 4)
           /\ PackField(d).words[1] = 0
           /\ PackField(d).words[2] = (IF d.st = Null THEN 2 * (d.type + 1) ELSE 1)
           /\ PackField(d).words[3] = (IF d.st # Null THEN 2 * d.st ELSE IF d.extra = Null THEN 1 ELSE 2 * (d.extra + 1))
           /\ PackField(d).words[4] = 2 * (d.tag + 1)
           /\ d.array => PackField(d).words[5] = 4
<1>1. /\ d.name \in STRING /\ d.tag \in Nat /\ d.array \in BOOLEAN
      /\ d.st = Null => d.type \in Nat /\ (d.extra # Null => d.extra \in Nat)
      /\ d.st # Null => d.st \in 1 .. n
  BY DEF FieldDef, TInteger, TString, TBoolean
<1>2. PICK a, b, c, t, w :
         /\ a = (IF d.st = Null THEN 2 * (d.type + 1) ELSE 1)
         /\ b = (IF d.st # Null THEN 2 * d.st ELSE IF d.extra = Null THEN 1 ELSE 2 * (d.extra + 1))
         /\ c = 2 * (d.tag + 1)
         /\ t = (IF d.array THEN <<EvenWord(1)>> ELSE <<>>)
         /\ w = PackField(d).words
  OBVIOUS
<1>3. a \in Nat /\ b \in Nat /\ c \in Nat
  <2>1. a \in Nat
    BY <1>1, <1>2
  <2>2. b \in Nat
    <3>1. d.st # Null => 2 * d.st \in Nat
      BY <1>1
    <3>2. d.st = Null /\ d.extra # Null => 2 * (d.extra + 1) \in Nat
      BY <1>1
    <3> QED BY <1>2, <3>1, <3>2
  <2>3. c \in Nat
    BY <1>1, <1>2
  <2> QED BY <2>1, <2>2, <2>3
<1>4. t \in Seq(Nat) /\ Len(t) = (IF d.array THEN 1 ELSE 0) /\ (d.array => t[1] = 4)
  <2>1. EvenWord(1) = 4
    BY DEF EvenWord
  <2>2. <<4>> \in Seq(Nat) /\ Len(<<4>>) = 1 /\ <<4>>[1] = 4 /\ <<>> \in Seq(Nat) /\ Len(<<>>) = 0
    OBVIOUS
  <2> QED BY <1>2, <2>1, <2>2
<1>5. (IF d.st = Null THEN <<EvenWord(d.type), IF d.extra = Null THEN 1 ELSE EvenWord(d.extra)>>
                           ELSE <<1, EvenWord(d.st - 1)>>) = <<a, b>>
  <2>1. CASE d.st = Null
    BY <1>1, <1>2, <2>1 DEF EvenWord
  <2>2. CASE d.st # Null
    <3>1. EvenWord(d.st - 1) = b /\ a = 1
      BY <1>1, <1>2, <2>2 DEF EvenWord
    <3> QED BY <2>2, <3>1
  <2> QED BY <2>1, <2>2
<1>6. EvenWord(d.tag) = c
  BY <1>1, <1>2 DEF EvenWord
<1>7. MakesWords(a, b, c, t, w)
  BY <1>2, <1>5, <1>6 DEF PackField, MakesWords
<1>8. /\ w \in Seq(Nat) /\ Len(w) = 4 + Len(t) /\ w[1] = 0 /\ w[2] = a /\ w[3] = b /\ w[4] = c
      /\ Len(t) = 1 => w[5] = t[1]
  <2>1. t \in Seq(Nat)
    BY <1>4
  <2> QED BY <1>3, <1>7, <2>1, FieldWords
<1>9. PackField(d).name = d.name
  BY DEF PackField
<1>10. Len(w) = (IF d.array THEN 5 ELSE 4) /\ (d.array => w[5] = 4)
  BY <1>1, <1>4, <1>8
<1> QED BY <1>1, <1>2, <1>8, <1>9, <1>10

-----------------------------------------------------------------------------
(* A field is loaded as it was written. *)

LEMMA FieldOfTyped ==
    ASSUME NEW n \in Nat, NEW d \in FieldDef(n)
    PROVE  /\ FieldOf(d) \in RawField /\ FieldOf(d) \in Field /\ FieldOf(d).tag = d.tag /\ FieldOf(d).tag \in Nat
           /\ FieldOf(d).type \in Nat /\ FieldOf(d).name = d.name /\ d.name # Null
<1>1. /\ d.name \in STRING /\ d.tag \in Nat /\ d.array \in BOOLEAN
      /\ d.st = Null => d.type \in Nat /\ (d.extra # Null => d.extra \in Nat)
      /\ d.st # Null => d.st \in 1 .. n /\ d.extra = Null
  BY DEF FieldDef, TInteger, TString, TBoolean
<1>2. PICK x : x = FieldOf(d).extra
  OBVIOUS
<1>3. x \in Int
  <2>1. CASE d.extra = Null
    BY <1>2, <2>1 DEF FieldOf
  <2>2. CASE d.extra # Null
    <3>1. PICK v : v = d.extra /\ v \in Nat
      BY <1>1, <2>2
    <3>2. CalcPow(10, v) \in Int
      BY <3>1, CalcPowTyped
    <3>3. x = CalcPow(10, v) \/ x = v
      BY <1>2, <2>2, <3>1 DEF FieldOf
    <3> QED BY <3>1, <3>2, <3>3
  <2> QED BY <2>1, <2>2
<1>4. PICK type : type = (IF d.st = Null THEN d.type ELSE TStruct) /\ type \in Nat
  BY <1>1 DEF TStruct
<1>5. FieldOf(d) = [tag |-> d.tag, type |-> type, name |-> d.name, st |-> d.st, key |-> -1, extra |-> x, array |-> d.array]
  BY <1>2, <1>4 DEF FieldOf
<1>6. d.st \in Int \cup {Null}
  BY <1>1
<1>7. d.name # Null
  BY <1>1, NullAssumption
<1> HIDE DEF FieldOf
<1>8. FieldOf(d) \in RawField /\ FieldOf(d) \in Field
  BY <1>1, <1>3, <1>4, <1>5, <1>6 DEF RawField, Field
<1> QED BY <1>1, <1>4, <1>5, <1>7, <1>8

(* What a word does to a field that has been read up to a tag. *)
At(x, tag, f) == x = [ok |-> TRUE, tag |-> tag, f |-> f]
Skips(x, y, name, n, tag, next, f) == At(x, tag, f) /\ next = tag + 1 /\ y = FieldStep(x, name, 1, n)
Reads1(x, y, name, n, tag, next, f, g, v, w) ==
    /\ At(x, tag, f) /\ next = tag + 1 /\ w = 2 * (v + 1) /\ next # 0
    /\ FieldWord(f, next, v, n) = Done(g) /\ y = FieldStep(x, name, w, n)

LEMMA FieldBegins ==
    ASSUME NEW n \in Nat, NEW d \in FieldDef(n), NEW x0, At(x0, -1, NewField),
           NEW x1, x1 = FieldStep(x0, d.name, 0, n)
    PROVE  At(x1, 0, [NewField EXCEPT !.name = d.name])
<1>1. 0 % 2 = 0 /\ x0.tag + 1 = 0 /\ x0.ok = TRUE /\ x0.f = NewField
  BY DEF At
<1>2. x1 = [ok |-> TRUE, tag |-> 0, f |-> [x0.f EXCEPT !.name = d.name]]
  BY <1>1 DEF FieldStep
<1> QED BY <1>1, <1>2 DEF At

LEMMA SkipStep ==
    ASSUME NEW x, NEW y, NEW name, NEW n, NEW tag \in Int, NEW next, NEW f, Skips(x, y, name, n, tag, next, f)
    PROVE  At(y, next, f)
<1>1. 1 % 2 = 1 /\ 1 \div 2 = 0 /\ x.ok = TRUE /\ x.tag = tag /\ x.f = f /\ (tag + 1) + 0 = next
  BY DEF Skips, At
<1>2. y = [ok |-> TRUE, tag |-> (tag + 1) + 0, f |-> f]
  BY <1>1 DEF FieldStep, Skips
<1> QED BY <1>1, <1>2 DEF At

LEMMA NumberStep ==
    ASSUME NEW x, NEW y, NEW name, NEW n, NEW tag \in Int, NEW next, NEW f, NEW g, NEW v \in Nat, NEW w,
           Reads1(x, y, name, n, tag, next, f, g, v, w)
    PROVE  At(y, next, g)
<1>1. w % 2 = 0 /\ w # 0 /\ NumberOf(w) = v
  BY DEF NumberOf, Reads1
<1>2. x.ok = TRUE /\ x.tag = tag /\ x.f = f /\ tag + 1 = next /\ next # 0
  BY DEF Reads1, At
<1>3. y = [ok |-> Done(g).ok, tag |-> next, f |-> IF Done(g).ok THEN Done(g).val ELSE f]
  BY <1>1, <1>2 DEF FieldStep, Reads1
<1> QED BY <1>3 DEF Done, At

(* A field after its name, its type and what its type needs. *)
Described(d) == [tag |-> -1, type |-> FieldOf(d).type, name |-> d.name, st |-> d.st, key |-> -1,
                 extra |-> FieldOf(d).extra, array |-> FALSE]

ReadsType(n, d, p, q, x1, x2, x3) ==
    /\ p = (IF d.st = Null THEN 2 * (d.type + 1) ELSE 1)
    /\ q = (IF d.st # Null THEN 2 * d.st ELSE IF d.extra = Null THEN 1 ELSE 2 * (d.extra + 1))
    /\ At(x1, 0, [NewField EXCEPT !.name = d.name])
    /\ x2 = FieldStep(x1, d.name, p, n) /\ x3 = FieldStep(x2, d.name, q, n)

LEMMA TypeWords ==
    ASSUME NEW n \in Nat, NEW d \in FieldDef(n), NEW p, NEW q, NEW x1, NEW x2, NEW x3,
           ReadsType(n, d, p, q, x1, x2, x3)
    PROVE  At(x3, 2, Described(d))
<1>1. PICK f : f = [NewField EXCEPT !.name = d.name] /\ At(x1, 0, f)
  BY DEF ReadsType
<1>2. x2 = FieldStep(x1, d.name, p, n) /\ x3 = FieldStep(x2, d.name, q, n)
  BY DEF ReadsType
<1>3. f = [tag |-> -1, type |-> -1, name |-> d.name, st |-> Null, key |-> -1, extra |-> 0, array |-> FALSE]
  BY <1>1 DEF NewField
<1>4. Null \notin Int
  BY NullAssumption
<1>5. CASE d.st # Null
  <2>1. d.st \in 1 .. n /\ d.extra = Null
    BY <1>5 DEF FieldDef
  <2>2. At(x2, 1, f)
    <3>1. p = 1 /\ 0 \in Int /\ 1 = 0 + 1
      BY <1>5 DEF ReadsType
    <3>2. Skips(x1, x2, d.name, n, 0, 1, f)
      BY <1>2, <1>1, <3>1 DEF Skips
    <3> QED BY <3>1, <3>2, SkipStep
  <2>3. PICK v : v = d.st - 1 /\ v \in Nat /\ v < n /\ v + 1 = d.st
    BY <2>1
  <2>4. PICK g : g = [f EXCEPT !.type = TStruct, !.st = v + 1]
    OBVIOUS
  <2>5. FieldWord(f, 2, v, n) = Done(g)
    <3>1. f.type = -1
      BY <1>3
    <3> QED BY <2>3, <2>4, <3>1 DEF FieldWord, TInteger, TString
  <2>6. q = 2 * (v + 1)
    BY <1>5, <2>3 DEF ReadsType
  <2>7. 1 \in Int /\ 2 = 1 + 1 /\ 2 # 0
    OBVIOUS
  <2>8. At(x3, 2, g)
    <3>1. Reads1(x2, x3, d.name, n, 1, 2, f, g, v, q)
      BY <1>2, <2>2, <2>5, <2>6, <2>7 DEF Reads1
    <3> QED BY <2>3, <2>7, <3>1, NumberStep
  <2>9. g = Described(d)
    BY <1>3, <1>5, <2>1, <2>3, <2>4 DEF Described, FieldOf
  <2> QED BY <2>8, <2>9
<1>6. CASE d.st = Null
  <2>1. d.type \in {TInteger, TBoolean, TString} /\ (d.extra # Null => d.extra \in Nat /\ d.type # TBoolean)
    <3>1. \A i \in 1 .. n : i # Null
      BY <1>4
    <3> QED BY <1>6, <3>1 DEF FieldDef, TInteger, TBoolean, TString
  <2>2. PICK v : v = d.type /\ v \in Nat /\ v < TStruct
    BY <2>1 DEF TInteger, TBoolean, TString, TStruct
  <2>3. PICK g : g = [f EXCEPT !.type = v]
    OBVIOUS
  <2>4. FieldWord(f, 1, v, n) = Done(g)
    BY <2>2, <2>3 DEF FieldWord
  <2>5. p = 2 * (v + 1)
    BY <1>6, <2>2 DEF ReadsType
  <2>6. 0 \in Int /\ 1 = 0 + 1 /\ 1 # 0
    OBVIOUS
  <2>7. At(x2, 1, g)
    <3>1. Reads1(x1, x2, d.name, n, 0, 1, f, g, v, p)
      BY <1>2, <1>1, <2>4, <2>5, <2>6 DEF Reads1
    <3> QED BY <2>2, <2>6, <3>1, NumberStep
  <2>8. g = [tag |-> -1, type |-> v, name |-> d.name, st |-> Null, key |-> -1, extra |-> 0, array |-> FALSE]
    BY <1>3, <2>3
  <2>9. CASE d.extra = Null
    <3>1. q = 1 /\ 1 \in Int /\ 2 = 1 + 1
      BY <1>6, <2>9 DEF ReadsType
    <3>2. Skips(x2, x3, d.name, n, 1, 2, g)
      BY <1>2, <2>7, <3>1 DEF Skips
    <3>3. At(x3, 2, g)
      BY <3>1, <3>2, SkipStep
    <3>4. g = Described(d)
      BY <1>6, <2>2, <2>8, <2>9 DEF Described, FieldOf
    <3> QED BY <3>3, <3>4
  <2>10. CASE d.extra # Null
    <3>1. PICK e : e = d.extra /\ e \in Nat
      BY <2>1, <2>10
    <3>2. PICK h : h = [g EXCEPT !.extra = FieldOf(d).extra]
      OBVIOUS
    <3>3. FieldWord(g, 2, e, n) = Done(h)
      <4>1. g.type = v
        BY <2>8
      <4>2. CASE v = TInteger
        <5>1. FieldOf(d).extra = CalcPow(10, e)
          BY <2>2, <2>10, <3>1, <4>2 DEF FieldOf
        <5> QED BY <3>2, <4>1, <4>2, <5>1 DEF FieldWord, TInteger, TString
      <4>3. CASE v = TString
        <5>1. FieldOf(d).extra = e
          BY <2>2, <2>10, <3>1, <4>3 DEF FieldOf, TInteger, TString
        <5> QED BY <3>2, <4>1, <4>3, <5>1 DEF FieldWord, TInteger, TString
      <4> QED BY <2>1, <2>2, <2>10, <4>2, <4>3
    <3>4. q = 2 * (e + 1)
      BY <1>6, <2>10, <3>1 DEF ReadsType
    <3>5. 1 \in Int /\ 2 = 1 + 1 /\ 2 # 0
      OBVIOUS
    <3>6. At(x3, 2, h)
      <4>1. Reads1(x2, x3, d.name, n, 1, 2, g, h, e, q)
        BY <1>2, <2>7, <3>3, <3>4, <3>5 DEF Reads1
      <4> QED BY <3>1, <3>5, <4>1, NumberStep
    <3>7. FieldOf(d).type = v
      BY <1>6, <2>2 DEF FieldOf
    <3>8. h = Described(d)
      BY <1>6, <2>8, <3>2, <3>7 DEF Described
    <3> QED BY <3>6, <3>8
  <2> QED BY <2>9, <2>10
<1> QED BY <1>5, <1>6

LEMMA FieldImported ==
    ASSUME NEW n \in Nat, NEW d \in FieldDef(n)
    PROVE  ImportField(PackField(d), n) = Done(FieldOf(d))
<1>1. PICK raw, w : raw = PackField(d) /\ w = raw.words
  OBVIOUS
<1>2. /\ raw.name = d.name /\ d.name \in STRING
      /\ w \in Seq(Nat)
      /\ Len(w) = (IF d.array THEN 5 ELSE 4)
      /\ w[1] = 0
      /\ w[2] = (IF d.st = Null THEN 2 * (d.type + 1) ELSE 1)
      /\ w[3] = (IF d.st # Null THEN 2 * d.st ELSE IF d.extra = Null THEN 1 ELSE 2 * (d.extra + 1))
      /\ w[4] = 2 * (d.tag + 1)
      /\ d.array => w[5] = 4
  BY <1>1, PackFieldWords
<1>3. PICK u \in [0 .. Len(w) -> FieldState] :
              /\ u[0] = [ok |-> TRUE, tag |-> -1, f |-> NewField]
              /\ \A k \in 1 .. Len(w) : \A v \in 0 .. Len(w) : v + 1 = k => u[k] = FieldStep(u[v], raw.name, w[k], n)
              /\ ImportField(raw, n) = IF u[Len(w)].ok /\ u[Len(w)].f.tag >= 0
                                             /\ u[Len(w)].f.type >= 0 /\ u[Len(w)].f.name # Null
                                         THEN Done(u[Len(w)].f) ELSE Failed
  <2>1. raw.words \in Seq(Nat) /\ raw.name \in STRING
    BY <1>1, <1>2
  <2> QED BY <1>1, <2>1, FieldLoop
<1>4. PICK l : l = Len(w) /\ l \in {4, 5}
  BY <1>2
<1>5. \A k \in 1 .. l : \A v \in 0 .. l : v + 1 = k => u[k] = FieldStep(u[v], d.name, w[k], n)
  BY <1>2, <1>3, <1>4
<1>6. At(u[1], 0, [NewField EXCEPT !.name = d.name])
  <2>1. 1 \in 1 .. l /\ 0 \in 0 .. l /\ 0 + 1 = 1
    BY <1>4
  <2>2. PICK x0, x1 : x0 = u[0] /\ x1 = u[1]
    OBVIOUS
  <2>3. x1 = FieldStep(x0, d.name, 0, n)
    BY <1>2, <1>5, <2>1, <2>2
  <2>4. At(x0, -1, NewField)
    BY <1>3, <2>2 DEF At
  <2> QED BY <2>2, <2>3, <2>4, FieldBegins
<1>7. At(u[3], 2, Described(d))
  <2>1. 2 \in 1 .. l /\ 1 \in 0 .. l /\ 1 + 1 = 2 /\ 3 \in 1 .. l /\ 2 \in 0 .. l /\ 2 + 1 = 3
    BY <1>4
  <2>2. u[2] = FieldStep(u[1], d.name, w[2], n)
    BY <1>5, <2>1
  <2>3. u[3] = FieldStep(u[2], d.name, w[3], n)
    BY <1>5, <2>1
  <2>4. PICK x1, x2, x3, p, q : x1 = u[1] /\ x2 = u[2] /\ x3 = u[3] /\ p = w[2] /\ q = w[3]
    OBVIOUS
  <2>5. ReadsType(n, d, p, q, x1, x2, x3)
    BY <1>2, <1>6, <2>2, <2>3, <2>4 DEF ReadsType
  <2> QED BY <2>4, <2>5, TypeWords
<1>8. PICK g : g = [Described(d) EXCEPT !.tag = d.tag]
  OBVIOUS
<1>9. At(u[4], 3, g)
  <2>1. 4 \in 1 .. l /\ 3 \in 0 .. l /\ 3 + 1 = 4
    BY <1>4
  <2>2. PICK x, y, v, p : x = u[3] /\ y = u[4] /\ v = d.tag /\ p = w[4]
    OBVIOUS
  <2>3. v \in Nat
    BY <2>2, FieldOfTyped
  <2>4. y = FieldStep(x, d.name, p, n)
    BY <1>5, <2>1, <2>2
  <2>5. FieldWord(Described(d), 3, v, n) = Done(g)
    BY <1>8, <2>2 DEF FieldWord
  <2>6. 2 \in Int /\ 3 = 2 + 1 /\ 3 # 0
    OBVIOUS
  <2>7. p = 2 * (v + 1)
    BY <1>2, <2>2
  <2>8. Reads1(x, y, d.name, n, 2, 3, Described(d), g, v, p)
    BY <1>7, <2>2, <2>4, <2>5, <2>6, <2>7 DEF Reads1
  <2> QED BY <2>2, <2>3, <2>6, <2>8, NumberStep
<1>10. /\ g = [tag |-> d.tag, type |-> FieldOf(d).type, name |-> d.name, st |-> d.st, key |-> -1,
                extra |-> FieldOf(d).extra, array |-> FALSE]
       /\ FieldOf(d) = [tag |-> d.tag, type |-> FieldOf(d).type, name |-> d.name, st |-> d.st, key |-> -1,
                         extra |-> FieldOf(d).extra, array |-> d.array]
       /\ d.array \in BOOLEAN
  <2>1. g = [tag |-> d.tag, type |-> FieldOf(d).type, name |-> d.name, st |-> d.st, key |-> -1,
             extra |-> FieldOf(d).extra, array |-> FALSE]
    BY <1>8 DEF Described
  <2>2. d.array \in BOOLEAN
    BY DEF FieldDef
  <2> QED BY <2>1, <2>2 DEF FieldOf
<1>11. u[l].ok = TRUE /\ u[l].f = FieldOf(d)
  <2>1. CASE d.array
    <3>1. l = 5
      BY <1>2, <1>4, <2>1
    <3>2. 5 \in 1 .. l /\ 4 \in 0 .. l /\ 4 + 1 = 5
      BY <3>1
    <3>3. PICK x, y, p : x = u[4] /\ y = u[5] /\ p = w[5]
      OBVIOUS
    <3>4. y = FieldStep(x, d.name, p, n)
      BY <1>5, <3>2, <3>3
    <3>5. PICK h : h = [g EXCEPT !.array = @ \/ 1 # 0]
      OBVIOUS
    <3>6. FieldWord(g, 4, 1, n) = Done(h)
      BY <3>5 DEF FieldWord
    <3>7. 3 \in Int /\ 4 = 3 + 1 /\ 4 # 0 /\ 1 \in Nat /\ p = 2 * (1 + 1)
      BY <1>2, <2>1, <3>3
    <3>8. Reads1(x, y, d.name, n, 3, 4, g, h, 1, p)
      BY <1>9, <3>3, <3>4, <3>6, <3>7 DEF Reads1
    <3>9. At(y, 4, h)
      BY <3>7, <3>8, NumberStep
    <3>10. h = FieldOf(d)
      <4>1. 1 # 0
        OBVIOUS
      <4>2. (g.array \/ 1 # 0) = TRUE
        BY <4>1, Zenon
      <4>3. d.array = TRUE
        BY <1>10, <2>1, Zenon
      <4>4. h = [g EXCEPT !.array = TRUE]
        BY <3>5, <4>2, Zenon
      <4> QED BY <1>10, <4>3, <4>4
    <3> QED BY <3>1, <3>3, <3>9, <3>10 DEF At
  <2>2. CASE ~d.array
    <3>1. l = 4
      BY <1>2, <1>4, <2>2
    <3>2. g = FieldOf(d)
      BY <1>10, <2>2
    <3> QED BY <1>9, <3>1, <3>2 DEF At
  <2> QED BY <2>1, <2>2
<1>12. FieldOf(d).tag >= 0 /\ FieldOf(d).type >= 0 /\ FieldOf(d).name # Null
  BY FieldOfTyped
<1> QED BY <1>1, <1>3, <1>4, <1>11, <1>12

-----------------------------------------------------------------------------
(* A protocol is loaded as it was written. *)

(* Protocols that are loaded. *)
ProtoOf(d) == [name |-> d.name, tag |-> d.tag, request |-> d.request, response |-> d.response,
               confirm |-> IF d.response = Null /\ d.confirm THEN 1 ELSE 0]
ProtoState == {Failed} \cup {Done(p) : p \in Protocol}

LEMMA ProtocolStepTyped ==
    ASSUME NEW x \in ProtoState, NEW i \in Nat, NEW w \in Nat, NEW n \in Nat
    PROVE  ProtocolStep(x, i, w, n) \in ProtoState
<1>1. CASE ~x.ok \/ w % 2 = 1
  <2>1. ProtocolStep(x, i, w, n) = x
    BY <1>1 DEF ProtocolStep
  <2> QED BY <2>1
<1>2. CASE ~(~x.ok \/ w % 2 = 1)
  <2>1. PICK v : v = NumberOf(w) /\ v \in Int
    BY DEF NumberOf
  <2>2. PICK p \in Protocol : x = Done(p)
    <3>1. x # Failed
      BY <1>2 DEF Failed
    <3> QED BY <3>1 DEF ProtoState
  <2>3. x.val = p
    BY <2>2 DEF Done
  <2>4. PICK r : r = ProtocolWord(p, i, v, n)
    OBVIOUS
  <2>5. ProtocolStep(x, i, w, n) = r
    BY <1>2, <2>1, <2>3, <2>4 DEF ProtocolStep
  <2>6. \/ r = Done(p)
        \/ r = Done([p EXCEPT !.tag = v])
        \/ r = Done([p EXCEPT !.request = v + 1])
        \/ r = Done([p EXCEPT !.response = IF v < n THEN v + 1 ELSE Null])
        \/ r = Done([p EXCEPT !.confirm = v])
        \/ r = Failed
    BY <2>4 DEF ProtocolWord
  <2>7. v + 1 \in Int \cup {Null} /\ (IF v < n THEN v + 1 ELSE Null) \in Int \cup {Null}
    BY <2>1
  <2>8. \A y \in Int : [p EXCEPT !.tag = y] \in Protocol /\ [p EXCEPT !.confirm = y] \in Protocol
    BY <2>2 DEF Protocol
  <2>9. \A y \in Int \cup {Null} : [p EXCEPT !.request = y] \in Protocol /\ [p EXCEPT !.response = y] \in Protocol
    BY <2>2 DEF Protocol
  <2>10. r = Failed \/ \E q \in Protocol : r = Done(q)
    BY <2>1, <2>2, <2>6, <2>7, <2>8, <2>9
  <2> QED BY <2>5, <2>10 DEF ProtoState
<1> QED BY <1>1, <1>2

LEMMA NewProtocolTyped ==
    ASSUME NEW name \in STRING
    PROVE  NewProtocol(name) \in Protocol /\ Done(NewProtocol(name)) \in ProtoState
<1>1. NewProtocol(name) \in Protocol
  BY DEF NewProtocol, Protocol
<1> QED BY <1>1 DEF ProtoState

LEMMA ProtocolLoop ==
    ASSUME NEW raw, raw.words \in Seq(Nat), raw.name \in STRING, NEW typeN \in Nat
    PROVE  \E u \in [0 .. Len(raw.words) -> ProtoState] :
              /\ u[0] = Done(NewProtocol(raw.name))
              /\ \A k \in 1 .. Len(raw.words) : \A v \in 0 .. Len(raw.words) : v + 1 = k => u[k] = ProtocolStep(u[v], k, raw.words[k], typeN)
              /\ ImportProtocol(raw, typeN) = HasNameAndTag(raw, u[Len(raw.words)])
<1> DEFINE n == Len(raw.words)
           X == ProtoState
           x0 == Done(NewProtocol(raw.name))
           S(k, x) == ProtocolStep(x, k, raw.words[k], typeN)
           Eq(f) == f = [k \in 0 .. n |-> IF k = 0 THEN x0 ELSE S(k, f[k - 1])]
           step == [k \in 1 .. n |-> [x \in X |-> S(k, x)]]
<1>1. n \in Nat /\ x0 \in X
  <2>1. Done(NewProtocol(raw.name)) \in ProtoState
    BY NewProtocolTyped
  <2> QED BY <2>1
<1>2. ASSUME NEW k \in 1 .. n, NEW x \in X PROVE S(k, x) \in X
  <2>1. PICK w : w = raw.words[k] /\ w \in Nat /\ k \in Nat
    OBVIOUS
  <2>2. ProtocolStep(x, k, w, typeN) \in ProtoState
    <3> HIDE DEF S
    <3> QED BY <1>2, <2>1, ProtocolStepTyped
  <2> QED BY <2>1, <2>2

<1>3. \E f : Eq(f)
  <2> HIDE DEF n, X, x0, S
  <2>1. ASSUME NEW k \in 1 .. n, NEW x \in X PROVE step[k][x] \in X
    BY <1>2
  <2>2. PICK f \in [0 .. n -> X] : Iterates(f, n, x0, step)
    <3> HIDE DEF step
    <3> QED BY <1>1, <2>1, IterationExists
  <2>3. ASSUME NEW k \in 0 .. n, k # 0 PROVE step[k][f[k - 1]] = S(k, f[k - 1])
    <3>1. PICK v : v = k - 1 /\ v \in 0 .. n /\ k \in 1 .. n
      BY <1>1, <2>3
    <3>2. step[k][f[v]] = S(k, f[v])
      BY <2>2, <3>1
    <3> QED BY <3>1, <3>2
  <2> HIDE DEF step
  <2>4. f = [k \in 0 .. n |-> IF k = 0 THEN x0 ELSE step[k][f[k - 1]]]
    BY <2>2 DEF Iterates
  <2>5. [k \in 0 .. n |-> IF k = 0 THEN x0 ELSE step[k][f[k - 1]]]
            = [k \in 0 .. n |-> IF k = 0 THEN x0 ELSE S(k, f[k - 1])]
    BY <2>3
  <2>6. Eq(f)
    BY <2>4, <2>5
  <2> QED BY <2>6
<1>4. PICK u : u = CHOOSE f : Eq(f)
  OBVIOUS
<1>5. ImportProtocol(raw, typeN) = HasNameAndTag(raw, u[Len(raw.words)])
  BY <1>4 DEF ImportProtocol
<1>6. Eq(u)
  <2> HIDE DEF Eq
  <2> QED BY <1>3, <1>4
<1> HIDE DEF n, X, x0, S
<1>7. u[0] = x0
  <2>1. 0 \in 0 .. n
    BY <1>1
  <2> QED BY <1>6, <2>1
<1>8. ASSUME NEW k \in 1 .. n, NEW v \in 0 .. n, v + 1 = k PROVE u[k] = S(k, u[v])
  <2>1. k \in 0 .. n /\ k # 0 /\ v = k - 1
    BY <1>1, <1>8
  <2>2. u[k] = S(k, u[k - 1])
    BY <1>6, <2>1
  <2> QED BY <2>1, <2>2
<1> DEFINE T == {k \in 0 .. n : u[k] \in X}
<1>9. 0 \in T
  BY <1>1, <1>7
<1>10. ASSUME NEW k \in 1 .. n, k - 1 \in T PROVE k \in T
  <2>1. PICK v : v = k - 1 /\ v \in 0 .. n /\ v + 1 = k
    BY <1>1
  <2>2. u[v] \in X
    BY <1>10, <2>1
  <2>3. u[k] \in X
    BY <1>2, <1>8, <2>1, <2>2
  <2> QED BY <2>3
<1>11. u \in [0 .. n -> X]
  <2>1. 0 .. n \subseteq T
    <3> HIDE DEF T
    <3> QED BY <1>1, <1>9, <1>10, Upwards
  <2>2. \A k \in 0 .. n : u[k] \in X
    BY <2>1
  <2>3. u = [k \in 0 .. n |-> u[k]]
    BY <1>6
  <2> QED BY <2>2, <2>3
<1> USE DEF S
<1>12. \A k \in 1 .. n : \A v \in 0 .. n : v + 1 = k => u[k] = ProtocolStep(u[v], k, raw.words[k], typeN)
  BY <1>8
<1> QED BY <1>5, <1>7, <1>11, <1>12 DEF n, X, x0

MakesProtoWords(t, r, s, w) == w = <<0, t>> \o <<r>> \o s

LEMMA ProtoWords ==
    ASSUME NEW t \in Nat, NEW r \in Nat, NEW s \in Seq(Nat), NEW w, MakesProtoWords(t, r, s, w)
    PROVE  /\ w \in Seq(Nat) /\ Len(w) = 3 + Len(s) /\ w[1] = 0 /\ w[2] = t /\ w[3] = r
           /\ Len(s) >= 1 => w[4] = s[1]
           /\ Len(s) = 2 => w[5] = s[2]
<1>1. PICK p, q : p = <<0, t>> /\ q = <<r>>
  OBVIOUS
<1>2. p \in Seq(Nat) /\ Len(p) = 2 /\ p[1] = 0 /\ p[2] = t
  BY <1>1
<1>3. q \in Seq(Nat) /\ Len(q) = 1 /\ q[1] = r
  BY <1>1
<1>4. PICK x : x = p \o q
  OBVIOUS
<1>5. x \in Seq(Nat) /\ Len(x) = 3 /\ x[1] = 0 /\ x[2] = t /\ x[3] = r
  <2>1. Joins(Nat, x, p, q)
    BY <1>2, <1>3, <1>4 DEF Joins
  <2>2. /\ x \in Seq(Nat) /\ Len(x) = Len(p) + Len(q)
        /\ \A k \in 1 .. Len(p) : x[k] = p[k]
        /\ \A k \in 1 .. Len(q) : \A m \in Nat : m = Len(p) + k => x[m] = q[k]
    BY <2>1, Joined
  <2> QED BY <1>2, <1>3, <2>2
<1>6. w = x \o s
  BY <1>1, <1>4 DEF MakesProtoWords
<1>7. /\ w \in Seq(Nat) /\ Len(w) = Len(x) + Len(s)
      /\ \A k \in 1 .. Len(x) : w[k] = x[k]
      /\ \A k \in 1 .. Len(s) : \A m \in Nat : m = Len(x) + k => w[m] = s[k]
  <2>1. Joins(Nat, w, x, s)
    BY <1>5, <1>6 DEF Joins
  <2> QED BY <2>1, Joined
<1>8. Len(s) \in Nat
  OBVIOUS
<1> QED BY <1>5, <1>7, <1>8

(* A word that says nothing, and one that says v. *)
Adds(x, y, i, p, q, v, w, n) == /\ x = Done(p) /\ y = ProtocolStep(x, i, w, n) /\ w = 2 * (v + 1)
                               /\ ProtocolWord(p, i, v, n) = Done(q)

LEMMA ProtocolWordStep ==
    ASSUME NEW x, NEW y, NEW i, NEW p, NEW q, NEW v \in Int, v >= -1, NEW w, NEW n, Adds(x, y, i, p, q, v, w, n)
    PROVE  y = Done(q)
<1>1. w % 2 = 0 /\ NumberOf(w) = v
  BY DEF Adds, NumberOf
<1>2. x.ok = TRUE /\ x.val = p
  BY DEF Adds, Done
<1> QED BY <1>1, <1>2 DEF Adds, ProtocolStep

LEMMA ProtocolSkip ==
    ASSUME NEW x, NEW i, NEW n
    PROVE  ProtocolStep(x, i, 1, n) = x
<1>1. 1 % 2 = 1
  OBVIOUS
<1> QED BY <1>1 DEF ProtocolStep

LEMMA ProtoOfTyped ==
    ASSUME NEW n \in Nat, NEW d \in ProtoDef(n)
    PROVE  /\ d.name \in STRING /\ d.tag \in Nat /\ d.confirm \in BOOLEAN
           /\ d.request = Null \/ d.request \in 1 .. n
           /\ d.response = Null \/ d.response \in 1 .. n
           /\ ProtoOf(d) \in Protocol
<1>1. /\ d.name \in STRING /\ d.tag \in Nat /\ d.confirm \in BOOLEAN
      /\ d.request = Null \/ d.request \in 1 .. n
      /\ d.response = Null \/ d.response \in 1 .. n
  BY DEF ProtoDef
<1>2. PICK c : c = (IF d.response = Null /\ d.confirm THEN 1 ELSE 0) /\ c \in Int
  OBVIOUS
<1>3. ProtoOf(d) = [name |-> d.name, tag |-> d.tag, request |-> d.request, response |-> d.response, confirm |-> c]
  BY <1>2 DEF ProtoOf
<1>4. d.request \in Int \cup {Null} /\ d.response \in Int \cup {Null}
  BY <1>1
<1>5. ProtoOf(d) \in Protocol
  BY <1>1, <1>2, <1>3, <1>4 DEF Protocol
<1> QED BY <1>1, <1>5

LEMMA PackProtocolWords ==
    ASSUME NEW n \in Nat, NEW d \in ProtoDef(n), NEW raw, raw = PackProtocol(d), NEW w, w = raw.words
    PROVE  /\ raw.name = d.name /\ w \in Seq(Nat) /\ w[1] = 0 /\ w[2] = 2 * (d.tag + 1)
           /\ w[3] = (IF d.request = Null THEN 1 ELSE 2 * d.request)
           /\ d.response # Null => Len(w) = 4 /\ w[4] = 2 * d.response
           /\ d.response = Null /\ d.confirm => Len(w) = 5 /\ w[4] = 1 /\ w[5] = 4
           /\ d.response = Null /\ ~d.confirm => Len(w) = 3
<1>1. PICK t, r, s : /\ t = EvenWord(d.tag) /\ r = (IF d.request = Null THEN 1 ELSE EvenWord(d.request - 1))
                     /\ s = (IF d.response # Null THEN <<EvenWord(d.response - 1)>>
                             ELSE IF d.confirm THEN <<1, EvenWord(1)>> ELSE <<>>)
  OBVIOUS
<1>2. t = 2 * (d.tag + 1) /\ t \in Nat
  BY <1>1, ProtoOfTyped DEF EvenWord
<1>3. r = (IF d.request = Null THEN 1 ELSE 2 * d.request) /\ r \in Nat
  BY <1>1, ProtoOfTyped DEF EvenWord
<1>4. /\ s \in Seq(Nat)
      /\ d.response # Null => Len(s) = 1 /\ s[1] = 2 * d.response
      /\ d.response = Null /\ d.confirm => Len(s) = 2 /\ s[1] = 1 /\ s[2] = 4
      /\ d.response = Null /\ ~d.confirm => Len(s) = 0
  <2>1. CASE d.response # Null
    <3>1. PICK e : e = d.response /\ e \in Nat
      BY <2>1, ProtoOfTyped
    <3>2. PICK v : v = EvenWord(e - 1) /\ v = 2 * e /\ v \in Nat
      BY <3>1 DEF EvenWord
    <3>3. s = <<v>>
      BY <1>1, <2>1, <3>1, <3>2
    <3> QED BY <2>1, <3>1, <3>2, <3>3
  <2>2. CASE d.response = Null /\ d.confirm
    <3>1. EvenWord(1) = 4
      BY DEF EvenWord
    <3>2. s = <<1, 4>>
      BY <1>1, <2>2, <3>1
    <3> QED BY <2>2, <3>2
  <2>3. CASE d.response = Null /\ ~d.confirm
    <3>1. s = <<>>
      BY <1>1, <2>3
    <3> QED BY <2>3, <3>1
  <2> QED BY <2>1, <2>2, <2>3
<1>5. MakesProtoWords(t, r, s, w)
  <2>1. (IF d.request = Null THEN <<1>> ELSE <<EvenWord(d.request - 1)>>) = <<r>>
    BY <1>1
  <2> QED BY <1>1, <2>1 DEF MakesProtoWords, PackProtocol
<1>6. /\ w \in Seq(Nat) /\ Len(w) = 3 + Len(s) /\ w[1] = 0 /\ w[2] = t /\ w[3] = r
      /\ Len(s) >= 1 => w[4] = s[1]
      /\ Len(s) = 2 => w[5] = s[2]
  <2>1. s \in Seq(Nat) /\ t \in Nat /\ r \in Nat
    BY <1>2, <1>3, <1>4
  <2>2. PICK y : y = w
    OBVIOUS
  <2>3. MakesProtoWords(t, r, s, y)
    BY <1>5, <2>2
  <2>4. /\ y \in Seq(Nat) /\ Len(y) = 3 + Len(s) /\ y[1] = 0 /\ y[2] = t /\ y[3] = r
        /\ Len(s) >= 1 => y[4] = s[1]
        /\ Len(s) = 2 => y[5] = s[2]
    BY <2>1, <2>3, ProtoWords
  <2> QED BY <2>2, <2>4
<1>7. raw.name = d.name
  BY DEF PackProtocol
<1>8. w[2] = 2 * (d.tag + 1) /\ w[3] = (IF d.request = Null THEN 1 ELSE 2 * d.request)
  BY <1>2, <1>3, <1>6
<1>9. d.response # Null => Len(w) = 4 /\ w[4] = 2 * d.response
  <2>1. Len(s) = 1 => Len(w) = 4 /\ w[4] = s[1]
    BY <1>6
  <2> QED BY <1>4, <2>1, Zenon
<1>10. d.response = Null /\ d.confirm => Len(w) = 5 /\ w[4] = 1 /\ w[5] = 4
  <2>1. Len(s) = 2 => Len(w) = 5 /\ w[4] = s[1] /\ w[5] = s[2]
    BY <1>6
  <2> QED BY <1>4, <2>1, Zenon
<1>11. d.response = Null /\ ~d.confirm => Len(w) = 3
  BY <1>4, <1>6
<1> QED BY <1>6, <1>7, <1>8, <1>9, <1>10, <1>11

LEMMA ProtocolImported ==
    ASSUME NEW n \in Nat, NEW d \in ProtoDef(n)
    PROVE  ImportProtocol(PackProtocol(d), n) = Done(ProtoOf(d))
<1>1. PICK raw, w : raw = PackProtocol(d) /\ w = raw.words
  OBVIOUS
<1>2. /\ raw.name = d.name /\ w \in Seq(Nat) /\ w[1] = 0 /\ w[2] = 2 * (d.tag + 1)
      /\ w[3] = (IF d.request = Null THEN 1 ELSE 2 * d.request)
      /\ d.response # Null => Len(w) = 4 /\ w[4] = 2 * d.response
      /\ d.response = Null /\ d.confirm => Len(w) = 5 /\ w[4] = 1 /\ w[5] = 4
      /\ d.response = Null /\ ~d.confirm => Len(w) = 3
  BY <1>1, PackProtocolWords
<1>3. /\ d.name \in STRING /\ d.tag \in Nat /\ d.confirm \in BOOLEAN
      /\ d.request = Null \/ d.request \in 1 .. n
      /\ d.response = Null \/ d.response \in 1 .. n
  BY ProtoOfTyped
<1>4. PICK u \in [0 .. Len(w) -> ProtoState] :
              /\ u[0] = Done(NewProtocol(d.name))
              /\ \A k \in 1 .. Len(w) : \A v \in 0 .. Len(w) : v + 1 = k => u[k] = ProtocolStep(u[v], k, w[k], n)
              /\ ImportProtocol(raw, n) = HasNameAndTag(raw, u[Len(w)])
  <2>1. raw.words \in Seq(Nat) /\ raw.name \in STRING
    BY <1>1, <1>2, <1>3
  <2> QED BY <1>1, <1>2, <2>1, ProtocolLoop
<1>5. PICK l : l = Len(w) /\ l \in {3, 4, 5}
  BY <1>2, <1>3
<1>6. u[1] = ProtocolStep(u[0], 1, w[1], n) /\ u[2] = ProtocolStep(u[1], 2, w[2], n) /\ u[3] = ProtocolStep(u[2], 3, w[3], n)
  <2>1. 1 \in 1 .. l /\ 0 \in 0 .. l /\ 0 + 1 = 1 /\ 2 \in 1 .. l /\ 1 \in 0 .. l /\ 1 + 1 = 2
        /\ 3 \in 1 .. l /\ 2 \in 0 .. l /\ 2 + 1 = 3
    BY <1>5
  <2> QED BY <1>4, <1>5, <2>1
<1>7. l >= 4 => u[4] = ProtocolStep(u[3], 4, w[4], n)
  <2>1. l >= 4 => 4 \in 1 .. l /\ 3 \in 0 .. l /\ 3 + 1 = 4
    BY <1>5
  <2> QED BY <1>4, <1>5, <2>1
<1>8. l = 5 => u[5] = ProtocolStep(u[4], 5, w[5], n)
  <2>1. l = 5 => 5 \in 1 .. l /\ 4 \in 0 .. l /\ 4 + 1 = 5
    BY <1>5
  <2> QED BY <1>4, <1>5, <2>1
<1>9. PICK p0 : p0 = NewProtocol(d.name) /\ p0 = [name |-> d.name, tag |-> -1, request |-> Null, response |-> Null, confirm |-> 0]
  BY DEF NewProtocol
<1>10. u[1] = Done(p0)
  <2>1. PICK x, y : x = u[0] /\ y = u[1]
    OBVIOUS
  <2>2. ProtocolWord(p0, 1, -1, n) = Done(p0)
    BY DEF ProtocolWord
  <2>3. -1 \in Int /\ -1 >= -1 /\ 0 = 2 * ((-1) + 1)
    OBVIOUS
  <2>4. Adds(x, y, 1, p0, p0, -1, 0, n)
    BY <1>2, <1>4, <1>6, <1>9, <2>1, <2>2, <2>3 DEF Adds
  <2> QED BY <2>1, <2>3, <2>4, ProtocolWordStep
<1>11. PICK p1 : p1 = [p0 EXCEPT !.tag = d.tag] /\ p1 = [name |-> d.name, tag |-> d.tag, request |-> Null, response |-> Null, confirm |-> 0]
  <2>1. [p0 EXCEPT !.tag = d.tag]
            = [[name |-> d.name, tag |-> -1, request |-> Null, response |-> Null, confirm |-> 0] EXCEPT !.tag = d.tag]
    BY <1>9, Zenon
  <2> QED BY <2>1
<1>12. u[2] = Done(p1)
  <2>1. PICK x, y, v : x = u[1] /\ y = u[2] /\ v = d.tag
    OBVIOUS
  <2>2. v \in Int /\ v >= -1 /\ v >= 0
    BY <1>3, <2>1
  <2>3. ProtocolWord(p0, 2, v, n) = Done(p1)
    BY <1>11, <2>1, <2>2 DEF ProtocolWord
  <2>4. PICK z : z = w[2] /\ z = 2 * (v + 1)
    BY <1>2, <2>1
  <2>5. Adds(x, y, 2, p0, p1, v, z, n)
    BY <1>6, <1>10, <2>1, <2>3, <2>4 DEF Adds
  <2> QED BY <2>1, <2>2, <2>5, ProtocolWordStep
<1>13. PICK p2 : p2 = [name |-> d.name, tag |-> d.tag, request |-> d.request, response |-> Null, confirm |-> 0]
  OBVIOUS
<1>14. u[3] = Done(p2)
  <2>1. CASE d.request = Null
    <3>1. w[3] = 1
      BY <1>2, <2>1
    <3>2. u[3] = u[2]
      BY <1>6, <3>1, ProtocolSkip
    <3> QED BY <1>11, <1>12, <1>13, <2>1, <3>2
  <2>2. CASE d.request # Null
    <3>1. PICK x, y, v : x = u[2] /\ y = u[3] /\ v = d.request - 1
      OBVIOUS
    <3>2. v \in Int /\ v >= -1 /\ v \in 0 .. n - 1 /\ v + 1 = d.request
      BY <1>3, <2>2, <3>1
    <3>3. p2 = [p1 EXCEPT !.request = v + 1]
      <4>1. [p1 EXCEPT !.request = v + 1]
                = [[name |-> d.name, tag |-> d.tag, request |-> Null, response |-> Null, confirm |-> 0]
                      EXCEPT !.request = v + 1]
        BY <1>11, Zenon
      <4> QED BY <1>13, <3>2, <4>1
    <3>4. ProtocolWord(p1, 3, v, n) = Done(p2)
      BY <3>2, <3>3 DEF ProtocolWord
    <3>5. PICK z : z = w[3] /\ z = 2 * (v + 1)
      BY <1>2, <2>2, <3>2
    <3>6. Adds(x, y, 3, p1, p2, v, z, n)
      BY <1>6, <1>12, <3>1, <3>4, <3>5 DEF Adds
    <3> QED BY <3>1, <3>2, <3>6, ProtocolWordStep
  <2> QED BY <2>1, <2>2
<1>15. u[l] = Done(ProtoOf(d))
  <2>1. CASE d.response # Null
    <3>1. l = 4
      BY <1>2, <1>5, <2>1
    <3>2. PICK x, y, v : x = u[3] /\ y = u[4] /\ v = d.response - 1
      OBVIOUS
    <3>3. v \in Int /\ v >= -1 /\ v \in 0 .. n /\ v < n /\ v + 1 = d.response
      BY <1>3, <2>1, <3>2
    <3>4. ProtoOf(d) = [p2 EXCEPT !.response = v + 1]
      BY <1>13, <2>1, <3>3 DEF ProtoOf
    <3>5. PICK q : q = ProtoOf(d)
      OBVIOUS
    <3>6. ProtocolWord(p2, 4, v, n) = Done(q)
      BY <3>3, <3>4, <3>5 DEF ProtocolWord
    <3>7. PICK z : z = w[4] /\ z = 2 * (v + 1)
      BY <1>2, <2>1, <3>3
    <3>8. y = ProtocolStep(x, 4, z, n)
      BY <1>7, <3>1, <3>2, <3>7
    <3>9. Adds(x, y, 4, p2, q, v, z, n)
      BY <1>14, <3>2, <3>6, <3>7, <3>8 DEF Adds
    <3>10. y = Done(q)
      BY <3>3, <3>9, ProtocolWordStep
    <3> QED BY <3>1, <3>2, <3>5, <3>10
  <2>2. CASE d.response = Null /\ d.confirm
    <3>1. l = 5
      BY <1>2, <1>5, <2>2
    <3>2. u[4] = u[3]
      BY <1>2, <1>7, <2>2, <3>1, ProtocolSkip
    <3>3. PICK x, y : x = u[4] /\ y = u[5]
      OBVIOUS
    <3>4. ProtoOf(d) = [p2 EXCEPT !.confirm = 1]
      BY <1>13, <2>2 DEF ProtoOf
    <3>5. PICK q : q = ProtoOf(d)
      OBVIOUS
    <3>6. ProtocolWord(p2, 5, 1, n) = Done(q)
      BY <3>4, <3>5 DEF ProtocolWord
    <3>7. PICK z : z = w[5] /\ z = 2 * (1 + 1)
      BY <1>2, <2>2
    <3>8. y = ProtocolStep(x, 5, z, n)
      BY <1>8, <3>1, <3>3, <3>7
    <3>9. Adds(x, y, 5, p2, q, 1, z, n)
      BY <1>14, <3>2, <3>3, <3>6, <3>7, <3>8 DEF Adds
    <3>10. 1 \in Int /\ 1 >= -1
      OBVIOUS
    <3>11. y = Done(q)
      BY <3>9, <3>10, ProtocolWordStep
    <3> QED BY <3>1, <3>3, <3>5, <3>11
  <2>3. CASE d.response = Null /\ ~d.confirm
    <3>1. l = 3
      BY <1>2, <1>5, <2>3
    <3>2. ProtoOf(d) = p2
      BY <1>13, <2>3 DEF ProtoOf
    <3> QED BY <1>14, <3>1, <3>2
  <2> QED BY <2>1, <2>2, <2>3
<1>16. HasNameAndTag(raw, u[l]) = u[l]
  <2>1. PICK end : end = u[l]
    OBVIOUS
  <2>2. end.ok = TRUE /\ end.val = ProtoOf(d) /\ end.val.tag = d.tag
    BY <1>15, <2>1 DEF Done, ProtoOf
  <2>3. raw.words # <<>> /\ raw.words[1] = 0 /\ d.tag >= 0
    BY <1>1, <1>2, <1>3, <1>5
  <2> QED BY <2>1, <2>2, <2>3 DEF HasNameAndTag
<1> QED BY <1>1, <1>4, <1>5, <1>15, <1>16

-----------------------------------------------------------------------------
(* A schema is loaded as it was written. *)

FieldsOf(ds) == [i \in DOMAIN ds |-> FieldOf(ds[i])]
TypeOf(ds) == [n |-> Len(FieldsOf(ds)), base |-> BaseTag(FieldsOf(ds)), maxn |-> MaxWords(FieldsOf(ds)),
               f |-> FieldsOf(ds)]
SchemaOf(d) == [type |-> [i \in DOMAIN d.types |-> TypeOf(d.types[i])],
                proto |-> [i \in DOMAIN d.protos |-> ProtoOf(d.protos[i])]]

LEMMA DoneVal == \A x : Done(x).val = x /\ Done(x).ok = TRUE /\ Done(x).throws = FALSE
  BY DEF Done

LEMMA FieldsOfTyped ==
    ASSUME NEW n \in Nat, NEW ds \in Seq(FieldDef(n)), NEW fs, fs = FieldsOf(ds)
    PROVE  /\ fs \in Seq(Field) /\ Len(fs) = Len(ds) /\ DOMAIN fs = 1 .. Len(ds) /\ DOMAIN ds = 1 .. Len(ds)
           /\ \A i \in 1 .. Len(ds) : fs[i] = FieldOf(ds[i]) /\ fs[i].tag = ds[i].tag /\ fs[i].tag \in Nat
                                       /\ fs[i].name = ds[i].name
<1>1. DOMAIN ds = 1 .. Len(ds) /\ Len(ds) \in Nat
  OBVIOUS
<1>2. ASSUME NEW i \in 1 .. Len(ds)
      PROVE  FieldOf(ds[i]) \in Field /\ FieldOf(ds[i]).tag = ds[i].tag /\ FieldOf(ds[i]).tag \in Nat
             /\ FieldOf(ds[i]).name = ds[i].name
  <2>1. PICK d : d = ds[i] /\ d \in FieldDef(n)
    OBVIOUS
  <2> QED BY <2>1, FieldOfTyped
<1>3. fs = [i \in 1 .. Len(ds) |-> FieldOf(ds[i])]
  BY <1>1 DEF FieldsOf
<1>4. fs \in [1 .. Len(ds) -> Field]
  BY <1>2, <1>3
<1>5. fs \in Seq(Field) /\ Len(fs) = Len(ds)
  BY <1>1, <1>4, IsASeq
<1> QED BY <1>1, <1>2, <1>3, <1>5

LEMMA TypeImported ==
    ASSUME NEW n \in Nat, NEW ds \in Seq(FieldDef(n)), Sorted(ds),
           NEW raw, raw = [j \in DOMAIN ds |-> PackField(ds[j])]
    PROVE  ImportType(raw, n) = Done(TypeOf(ds))
<1>1. DOMAIN ds = 1 .. Len(ds) /\ Len(ds) \in Nat /\ DOMAIN raw = 1 .. Len(ds)
  OBVIOUS
<1>2. PICK fs : fs = [i \in DOMAIN raw |-> ImportField(raw[i], n)]
  OBVIOUS
<1>3. ASSUME NEW i \in 1 .. Len(ds) PROVE fs[i] = Done(FieldOf(ds[i]))
  <2>1. PICK d : d = ds[i] /\ d \in FieldDef(n)
    OBVIOUS
  <2>2. fs[i] = ImportField(PackField(d), n)
    BY <1>1, <1>2, <2>1
  <2> QED BY <2>1, <2>2, FieldImported
<1>4. PICK f : f = [i \in DOMAIN raw |-> fs[i].val]
  OBVIOUS
<1>5. f = FieldsOf(ds)
  <2>1. \A i \in 1 .. Len(ds) : fs[i].val = FieldOf(ds[i])
    BY <1>3, DoneVal
  <2> QED BY <1>1, <1>4, <2>1 DEF FieldsOf
<1>6. \A i \in DOMAIN fs : fs[i].ok
  BY <1>1, <1>2, <1>3 DEF Done
<1>7. Len(fs) = Len(ds)
  BY <1>1, <1>2
<1>8. ASSUME NEW i \in 2 .. Len(fs) PROVE f[i].tag > f[i - 1].tag
  <2>1. PICK j : j = i - 1 /\ j \in 1 .. Len(ds) /\ i \in 1 .. Len(ds) /\ j < i
    BY <1>1, <1>7
  <2>2. ds[j].tag < ds[i].tag
    BY <1>1, <2>1 DEF Sorted
  <2>3. f[i].tag = ds[i].tag /\ f[j].tag = ds[j].tag /\ ds[i].tag \in Nat /\ ds[j].tag \in Nat
    BY <1>5, <2>1, FieldsOfTyped
  <2> QED BY <2>1, <2>2, <2>3
<1>9. ImportType(raw, n) = Done([n |-> Len(f), base |-> BaseTag(f), maxn |-> MaxWords(f), f |-> f])
  BY <1>2, <1>4, <1>6, <1>8 DEF ImportType
<1> QED BY <1>5, <1>9 DEF TypeOf

(* Every schema that sprotoparser takes is loaded from its bundle with all its *)
(* types, fields and protocols, in their order (createFromBundle, importField, *)
(* importProtocol).                                                           *)
THEOREM SchemaLoads ==
    ASSUME NEW d, IsSchema(d)
    PROVE  CreateNew(Bundle(d)) = SchemaOf(d)
<1>1. PICK n : n = Len(d.types) /\ n \in Nat /\ DOMAIN d.types = 1 .. n
  BY DEF IsSchema
<1>2. PICK raw : raw = Bundle(d)
  OBVIOUS
<1>3. /\ raw.types = [i \in DOMAIN d.types |-> [j \in DOMAIN d.types[i] |-> PackField(d.types[i][j])]]
      /\ raw.protos = [i \in DOMAIN d.protos |-> PackProtocol(d.protos[i])]
      /\ Len(raw.types) = n /\ DOMAIN raw.types = DOMAIN d.types /\ DOMAIN raw.protos = DOMAIN d.protos
  BY <1>1, <1>2 DEF Bundle
<1>4. PICK ts, protos : /\ ts = [i \in DOMAIN raw.types |-> ImportType(raw.types[i], n)]
                        /\ protos = [i \in DOMAIN raw.protos |-> ImportProtocol(raw.protos[i], n)]
  OBVIOUS
<1>5. ASSUME NEW i \in DOMAIN d.types PROVE ts[i] = Done(TypeOf(d.types[i]))
  <2>1. PICK ds : ds = d.types[i] /\ ds \in Seq(FieldDef(n)) /\ Sorted(ds)
    BY <1>1 DEF IsSchema
  <2>2. PICK r : r = [j \in DOMAIN ds |-> PackField(ds[j])]
    OBVIOUS
  <2>3. ts[i] = ImportType(r, n)
    BY <1>3, <1>4, <2>1, <2>2
  <2>4. ImportType(r, n) = Done(TypeOf(ds))
    BY <1>1, <2>1, <2>2, TypeImported
  <2> QED BY <2>1, <2>3, <2>4
<1>6. ASSUME NEW i \in DOMAIN d.protos PROVE protos[i] = Done(ProtoOf(d.protos[i]))
  <2>1. PICK p : p = d.protos[i] /\ p \in ProtoDef(n)
    BY <1>1 DEF IsSchema
  <2>2. protos[i] = ImportProtocol(PackProtocol(p), n)
    BY <1>3, <1>4, <2>1
  <2> QED BY <1>1, <2>1, <2>2, ProtocolImported
<1>7. \A r \in Range(ts) \cup Range(protos) : r.ok
  <2>1. \A x : Done(x).ok
    BY DEF Done
  <2>2. \A i \in DOMAIN ts : ts[i].ok
    BY <1>3, <1>4, <1>5, <2>1
  <2>3. \A i \in DOMAIN protos : protos[i].ok
    BY <1>3, <1>4, <1>6, <2>1
  <2> QED BY <2>2, <2>3 DEF Range
<1>8. CreateNew(raw) = [type |-> [i \in DOMAIN ts |-> ts[i].val],
                        proto |-> [i \in DOMAIN protos |-> protos[i].val]]
  <2>1. /\ n = Len(raw.types)
        /\ ts = [i \in DOMAIN raw.types |-> ImportType(raw.types[i], n)]
        /\ protos = [i \in DOMAIN raw.protos |-> ImportProtocol(raw.protos[i], n)]
    BY <1>3, <1>4
  <2> QED BY <1>7, <2>1, Zenon DEF CreateNew
<1>9. [i \in DOMAIN ts |-> ts[i].val] = [i \in DOMAIN d.types |-> TypeOf(d.types[i])]
  <2>1. DOMAIN ts = DOMAIN d.types
    BY <1>3, <1>4
  <2>2. \A i \in DOMAIN d.types : ts[i].val = TypeOf(d.types[i])
    BY <1>5, DoneVal
  <2> QED BY <2>1, <2>2
<1>10. [i \in DOMAIN protos |-> protos[i].val] = [i \in DOMAIN d.protos |-> ProtoOf(d.protos[i])]
  <2>1. DOMAIN protos = DOMAIN d.protos
    BY <1>3, <1>4
  <2>2. \A i \in DOMAIN d.protos : protos[i].val = ProtoOf(d.protos[i])
    BY <1>6, DoneVal
  <2> QED BY <2>1, <2>2
<1> QED BY <1>2, <1>8, <1>9, <1>10 DEF SchemaOf

(* The protocols of a schema that is loaded. *)
LEMMA ProtosLoaded ==
    ASSUME NEW d, IsSchema(d), NEW sch, sch = SchemaOf(d)
    PROVE  /\ sch.proto \in Seq(Protocol) /\ Len(sch.proto) = Len(d.protos)
           /\ DOMAIN d.protos = 1 .. Len(d.protos) /\ Len(d.protos) \in Nat
           /\ \A i \in 1 .. Len(d.protos) : /\ sch.proto[i] = ProtoOf(d.protos[i])
                                            /\ sch.proto[i].tag = d.protos[i].tag /\ sch.proto[i].tag \in Nat
                                            /\ sch.proto[i].name = d.protos[i].name
                                            /\ sch.proto[i].request \in {Null} \cup (1 .. Len(d.types))
                                            /\ sch.proto[i].response \in {Null} \cup (1 .. Len(d.types))
           /\ Sorted(sch.proto)
<1>1. PICK n, ps : n = Len(d.types) /\ n \in Nat /\ ps = d.protos /\ ps \in Seq(ProtoDef(n)) /\ Sorted(ps)
  BY DEF IsSchema
<1>2. DOMAIN ps = 1 .. Len(ps) /\ Len(ps) \in Nat
  BY <1>1
<1>3. PICK q : q = sch.proto /\ q = [i \in 1 .. Len(ps) |-> ProtoOf(ps[i])]
  BY <1>1, <1>2 DEF SchemaOf
<1>4. ASSUME NEW i \in 1 .. Len(ps)
      PROVE  /\ q[i] = ProtoOf(ps[i]) /\ q[i].tag = ps[i].tag /\ q[i].tag \in Nat /\ q[i].name = ps[i].name
             /\ q[i].request \in {Null} \cup (1 .. n) /\ q[i].response \in {Null} \cup (1 .. n)
             /\ ProtoOf(ps[i]) \in Protocol
  <2>1. PICK p : p = ps[i] /\ p \in ProtoDef(n)
    BY <1>1
  <2>2. q[i] = ProtoOf(p)
    BY <1>3, <2>1
  <2>3. /\ ProtoOf(p).tag = p.tag /\ ProtoOf(p).name = p.name /\ ProtoOf(p).request = p.request
        /\ ProtoOf(p).response = p.response
    BY DEF ProtoOf
  <2>4. p.tag \in Nat /\ (p.request = Null \/ p.request \in 1 .. n) /\ (p.response = Null \/ p.response \in 1 .. n)
        /\ ProtoOf(p) \in Protocol
    BY <1>1, <2>1, ProtoOfTyped
  <2> QED BY <2>1, <2>2, <2>3, <2>4
<1>5. q \in Seq(Protocol) /\ Len(q) = Len(ps)
  <2>1. q \in [1 .. Len(ps) -> Protocol]
    BY <1>3, <1>4
  <2> QED BY <1>2, <2>1, IsASeq
<1>6. Sorted(q)
  <2>1. DOMAIN q = 1 .. Len(ps)
    BY <1>3
  <2> QED BY <1>1, <1>2, <1>4, <2>1 DEF Sorted
<1> QED BY <1>1, <1>2, <1>3, <1>4, <1>5, <1>6

-----------------------------------------------------------------------------
(* Looking things up: by name, and the halving search. *)

LEMMA NameFound ==
    ASSUME NEW sch, NEW n \in Nat, DOMAIN sch.proto = 1 .. n, Len(sch.proto) = n, NEW name,
           \E i \in 1 .. n : sch.proto[i].name = name
    PROVE  \E i \in 1 .. n : ProtoByName(sch, name) = sch.proto[i] /\ sch.proto[i].name = name
<1>1. PICK I : I = {i \in 1 .. Len(sch.proto) : sch.proto[i].name = name}
  OBVIOUS
<1>2. I # {} /\ I \subseteq Nat /\ \A i \in I : i \in 1 .. n /\ sch.proto[i].name = name
  BY <1>1
<1>3. PICK m : m = SelectInSeq(sch.proto, LAMBDA p : p.name = name)
  OBVIOUS
<1>4. m = Min(I)
  BY <1>1, <1>2, <1>3 DEF SelectInSeq
<1>5. m \in I
  <2>1. \E x \in I : \A y \in I : x <= y
    BY <1>2, LeastNat
  <2> QED BY <1>4, <2>1 DEF Min
<1>6. m # 0
  BY <1>2, <1>5
<1>7. ProtoByName(sch, name) = sch.proto[m]
  BY <1>3, <1>6 DEF ProtoByName
<1> QED BY <1>2, <1>5, <1>7

-----------------------------------------------------------------------------
(* The halving search *)

Tagged(s) == s \in Seq(Protocol) \/ s \in Seq(Field)
BisectState(n) == [begin : 0 .. n, end : 0 .. n, at : 0 .. n]

(* What the search has found, and where what it looks for can be. *)
Searching(s, tag, x) ==
    /\ x.at # 0 => s[x.at].tag = tag
    /\ x.at = 0 => \A i \in 1 .. Len(s) : s[i].tag = tag => x.begin < i /\ i <= x.end

LEMMA TaggedFacts ==
    ASSUME NEW s, Tagged(s)
    PROVE  Len(s) \in Nat /\ DOMAIN s = 1 .. Len(s) /\ \A i \in 1 .. Len(s) : s[i].tag \in Int
<1>1. CASE s \in Seq(Protocol)
  <2>1. \A p \in Protocol : p.tag \in Int
    BY DEF Protocol
  <2>2. \A i \in 1 .. Len(s) : s[i] \in Protocol
    BY <1>1
  <2> QED BY <1>1, <2>1, <2>2
<1>2. CASE s \in Seq(Field)
  <2>1. \A p \in Field : p.tag \in Int
    BY DEF Field
  <2>2. \A i \in 1 .. Len(s) : s[i] \in Field
    BY <1>2
  <2> QED BY <1>2, <2>1, <2>2
<1> QED BY <1>1, <1>2 DEF Tagged

LEMMA BisectStepIs ==
    ASSUME NEW s, Tagged(s), NEW n \in Nat, n = Len(s), NEW tag \in Int, NEW x \in BisectState(n),
           NEW y, y = BisectStep(s, tag, x)
    PROVE  /\ y \in BisectState(n)
           /\ Sorted(s) /\ Searching(s, tag, x) => Searching(s, tag, y)
           /\ \/ y.at # 0
              \/ x.begin >= x.end /\ y = x
              \/ x.at = 0 /\ y.at = 0 /\ y.end - y.begin < x.end - x.begin
<1>1. PICK b, e, a : x = [begin |-> b, end |-> e, at |-> a] /\ b \in 0 .. n /\ e \in 0 .. n /\ a \in 0 .. n
                     /\ x.begin = b /\ x.end = e /\ x.at = a
  BY DEF BisectState
<1>2. PICK mid : mid = (b + e) \div 2 /\ mid \in Nat
  BY <1>1
<1>3. CASE a # 0 \/ b >= e
  <2>1. y = x
    BY <1>1, <1>3 DEF BisectStep
  <2> QED BY <1>1, <1>3, <2>1
<1>4. CASE a = 0 /\ b < e
  <2>1. mid \in 0 .. n - 1 /\ b <= mid /\ mid < e
    BY <1>1, <1>2, <1>4
  <2>2. PICK m, t : m = mid + 1 /\ m \in 1 .. n /\ t = s[m].tag /\ t \in Int
    BY <2>1, TaggedFacts
  <2>3. CASE t = tag
    <3>0. x.at = 0 /\ x.begin < x.end /\ mid = (x.begin + x.end) \div 2 /\ s[mid + 1].tag = tag
      BY <1>1, <1>2, <1>4, <2>2, <2>3
    <3>1. y = [x EXCEPT !.at = m]
      <4>1. y = [x EXCEPT !.at = mid + 1]
        BY <3>0 DEF BisectStep
      <4> QED BY <2>2, <4>1
    <3>2. y = [begin |-> b, end |-> e, at |-> m]
      BY <1>1, <3>1
    <3>3. y \in BisectState(n)
      BY <1>1, <2>2, <3>2 DEF BisectState
    <3>4. y.at = m /\ m # 0 /\ s[m].tag = tag
      BY <2>2, <2>3, <3>2
    <3>5. y.at # 0 /\ s[y.at].tag = tag
      BY <3>4, Zenon
    <3> QED BY <3>3, <3>5 DEF Searching
  <2>4. CASE t < tag
    <3>1. y = [x EXCEPT !.begin = m]
      BY <1>1, <1>2, <1>4, <2>2, <2>4 DEF BisectStep
    <3>2. y = [begin |-> m, end |-> e, at |-> 0] /\ y.begin = m /\ y.end = e /\ y.at = 0
      BY <1>1, <1>4, <3>1
    <3>3. y \in BisectState(n)
      BY <1>1, <2>2, <3>2 DEF BisectState
    <3>4. y.end - y.begin < x.end - x.begin
      BY <1>1, <2>1, <2>2, <3>2
    <3>5. ASSUME Sorted(s), Searching(s, tag, x) PROVE Searching(s, tag, y)
      <4>1. ASSUME NEW i \in 1 .. n, s[i].tag = tag PROVE m < i /\ i <= e
        <5>1. i <= e
          BY <1>1, <1>4, <3>5, <4>1 DEF Searching
        <5>2. i # m
          BY <2>2, <2>4, <4>1
        <5>3. ~(i < m)
          <6>1. i < m => s[i].tag < s[m].tag
            <7>1. i \in DOMAIN s /\ m \in DOMAIN s
              BY <2>2, TaggedFacts
            <7> QED BY <3>5, <7>1 DEF Sorted
          <6> QED BY <2>2, <2>4, <4>1, <6>1
        <5> QED BY <2>2, <5>1, <5>2, <5>3
      <4> QED BY <3>2, <4>1 DEF Searching
    <3> QED BY <1>1, <1>4, <3>2, <3>3, <3>4, <3>5
  <2>5. CASE t > tag
    <3>1. y = [x EXCEPT !.end = mid]
      BY <1>1, <1>2, <1>4, <2>2, <2>5 DEF BisectStep
    <3>2. y = [begin |-> b, end |-> mid, at |-> 0] /\ y.begin = b /\ y.end = mid /\ y.at = 0
      BY <1>1, <1>4, <3>1
    <3>3. y \in BisectState(n)
      BY <1>1, <2>1, <3>2 DEF BisectState
    <3>4. y.end - y.begin < x.end - x.begin
      BY <1>1, <2>1, <2>2, <3>2
    <3>5. ASSUME Sorted(s), Searching(s, tag, x) PROVE Searching(s, tag, y)
      <4>1. ASSUME NEW i \in 1 .. n, s[i].tag = tag PROVE b < i /\ i <= mid
        <5>1. b < i
          BY <1>1, <1>4, <3>5, <4>1 DEF Searching
        <5>2. i # m
          BY <2>2, <2>5, <4>1
        <5>3. ~(m < i)
          <6>1. m < i => s[m].tag < s[i].tag
            <7>1. i \in DOMAIN s /\ m \in DOMAIN s
              BY <2>2, TaggedFacts
            <7> QED BY <3>5, <7>1 DEF Sorted
          <6> QED BY <2>2, <2>5, <4>1, <6>1
        <5> QED BY <2>1, <2>2, <5>1, <5>2, <5>3
      <4> QED BY <3>2, <4>1 DEF Searching
    <3> QED BY <1>1, <1>4, <3>2, <3>3, <3>4, <3>5
  <2> QED BY <2>2, <2>3, <2>4, <2>5
<1> QED BY <1>1, <1>3, <1>4

LEMMA BisectLoop ==
    ASSUME NEW s, Tagged(s), NEW tag \in Int
    PROVE  \E u \in [0 .. Len(s) -> BisectState(Len(s))] :
              /\ u[0] = [begin |-> 0, end |-> Len(s), at |-> 0]
              /\ \A k \in 1 .. Len(s) : \A v \in 0 .. Len(s) : v + 1 = k => u[k] = BisectStep(s, tag, u[v])
              /\ Bisect(s, tag) = u[Len(s)].at
<1> DEFINE n == Len(s)
           X == BisectState(Len(s))
           x0 == [begin |-> 0, end |-> Len(s), at |-> 0]
           S(k, x) == BisectStep(s, tag, x)
           Eq(f) == f = [k \in 0 .. n |-> IF k = 0 THEN x0 ELSE S(k, f[k - 1])]
           step == [k \in 1 .. n |-> [x \in X |-> S(k, x)]]
<1>1. n \in Nat /\ x0 \in X
  <2>1. Len(s) \in Nat /\ 0 \in 0 .. Len(s) /\ Len(s) \in 0 .. Len(s)
    BY TaggedFacts
  <2> QED BY <2>1 DEF BisectState
<1>2. ASSUME NEW k \in 1 .. n, NEW x \in X PROVE S(k, x) \in X
  <2>1. Len(s) \in Nat
    BY TaggedFacts
  <2>2. PICK y : y = BisectStep(s, tag, x)
    OBVIOUS
  <2>3. y \in BisectState(Len(s))
    <3> HIDE DEF S, x0
    <3> QED BY <1>2, <2>1, <2>2, BisectStepIs
  <2> QED BY <2>2, <2>3
<1>3. \E f : Eq(f)
  <2> HIDE DEF n, X, x0, S
  <2>1. ASSUME NEW k \in 1 .. n, NEW x \in X PROVE step[k][x] \in X
    BY <1>2
  <2>2. PICK f \in [0 .. n -> X] : Iterates(f, n, x0, step)
    <3> HIDE DEF step
    <3> QED BY <1>1, <2>1, IterationExists
  <2>3. ASSUME NEW k \in 0 .. n, k # 0 PROVE step[k][f[k - 1]] = S(k, f[k - 1])
    <3>1. PICK v : v = k - 1 /\ v \in 0 .. n /\ k \in 1 .. n
      BY <1>1, <2>3
    <3>2. step[k][f[v]] = S(k, f[v])
      BY <2>2, <3>1
    <3> QED BY <3>1, <3>2
  <2> HIDE DEF step
  <2>4. f = [k \in 0 .. n |-> IF k = 0 THEN x0 ELSE step[k][f[k - 1]]]
    BY <2>2 DEF Iterates
  <2>5. [k \in 0 .. n |-> IF k = 0 THEN x0 ELSE step[k][f[k - 1]]]
            = [k \in 0 .. n |-> IF k = 0 THEN x0 ELSE S(k, f[k - 1])]
    BY <2>3
  <2>6. Eq(f)
    BY <2>4, <2>5
  <2> QED BY <2>6
<1>4. PICK u : u = CHOOSE f : Eq(f)
  OBVIOUS
<1>5. Bisect(s, tag) = u[Len(s)].at
  BY <1>4 DEF Bisect
<1>6. Eq(u)
  <2> HIDE DEF Eq
  <2> QED BY <1>3, <1>4
<1> HIDE DEF n, X, x0, S
<1>7. u[0] = x0
  <2>1. 0 \in 0 .. n
    BY <1>1
  <2> QED BY <1>6, <2>1
<1>8. ASSUME NEW k \in 1 .. n, NEW v \in 0 .. n, v + 1 = k PROVE u[k] = S(k, u[v])
  <2>1. k \in 0 .. n /\ k # 0 /\ v = k - 1
    BY <1>1, <1>8
  <2>2. u[k] = S(k, u[k - 1])
    BY <1>6, <2>1
  <2> QED BY <2>1, <2>2
<1> DEFINE T == {k \in 0 .. n : u[k] \in X}
<1>9. 0 \in T
  BY <1>1, <1>7
<1>10. ASSUME NEW k \in 1 .. n, k - 1 \in T PROVE k \in T
  <2>1. PICK v : v = k - 1 /\ v \in 0 .. n /\ v + 1 = k
    BY <1>1
  <2>2. u[v] \in X
    BY <1>10, <2>1
  <2>3. u[k] \in X
    BY <1>2, <1>8, <2>1, <2>2
  <2> QED BY <2>3
<1>11. u \in [0 .. n -> X]
  <2>1. 0 .. n \subseteq T
    <3> HIDE DEF T
    <3> QED BY <1>1, <1>9, <1>10, Upwards
  <2>2. \A k \in 0 .. n : u[k] \in X
    BY <2>1
  <2>3. u = [k \in 0 .. n |-> u[k]]
    BY <1>6
  <2> QED BY <2>2, <2>3
<1> USE DEF S
<1>12. \A k \in 1 .. n : \A v \in 0 .. n : v + 1 = k => u[k] = BisectStep(s, tag, u[v])
  BY <1>8
<1> QED BY <1>5, <1>7, <1>11, <1>12 DEF n, X, x0

(* The halving search over increasing tags finds the index of a tag, and 0     *)
(* only when no field has it (findTag, queryProto).                            *)
THEOREM BisectFinds ==
    ASSUME NEW s, Tagged(s), NEW tag \in Int, Sorted(s), NEW i, i = Bisect(s, tag)
    PROVE  /\ i \in 0 .. Len(s)
           /\ i # 0 => s[i].tag = tag
           /\ i = 0 => \A j \in 1 .. Len(s) : s[j].tag # tag
<1>1. PICK n : n = Len(s) /\ n \in Nat
  BY TaggedFacts
<1>2. PICK u \in [0 .. n -> BisectState(n)] :
              /\ u[0] = [begin |-> 0, end |-> n, at |-> 0]
              /\ \A k \in 1 .. n : \A v \in 0 .. n : v + 1 = k => u[k] = BisectStep(s, tag, u[v])
              /\ i = u[n].at
  BY <1>1, BisectLoop
<1> DEFINE T == {k \in 0 .. n : Searching(s, tag, u[k])
                    /\ (u[k].at # 0 \/ u[k].end <= u[k].begin \/ u[k].end - u[k].begin <= n - k)}
<1>3. 0 \in T
  <2>1. u[0].begin = 0 /\ u[0].end = n /\ u[0].at = 0
    BY <1>2
  <2>2. Searching(s, tag, u[0])
    BY <1>1, <2>1 DEF Searching
  <2> QED BY <1>1, <2>1, <2>2
<1>4. ASSUME NEW k \in 1 .. n, k - 1 \in T PROVE k \in T
  <2>1. PICK v : v = k - 1 /\ v \in 0 .. n /\ v + 1 = k /\ k \in 0 .. n
    BY <1>1
  <2>2. PICK x, y : x = u[v] /\ y = u[k] /\ x \in BisectState(n)
    BY <1>2, <2>1
  <2>3. y = BisectStep(s, tag, x)
    BY <1>2, <2>1, <2>2
  <2>4. Searching(s, tag, x) /\ (x.at # 0 \/ x.end <= x.begin \/ x.end - x.begin <= n - v)
    BY <1>4, <2>1, <2>2
  <2> HIDE DEF T
  <2>5. /\ y \in BisectState(n)
        /\ Searching(s, tag, y)
        /\ \/ y.at # 0
           \/ x.begin >= x.end /\ y = x
           \/ x.at = 0 /\ y.at = 0 /\ y.end - y.begin < x.end - x.begin
    BY <1>1, <2>2, <2>3, <2>4, BisectStepIs
  <2>6. x.begin \in Nat /\ x.end \in Nat /\ y.begin \in Nat /\ y.end \in Nat
    BY <2>2, <2>5 DEF BisectState
  <2>7. y.at # 0 \/ y.end <= y.begin \/ y.end - y.begin <= n - k
    <3>1. n \in Nat /\ v \in Nat /\ k = v + 1
      BY <1>1, <2>1
    <3>2. CASE y.at # 0
      BY <3>2
    <3>3. CASE x.begin >= x.end /\ y = x
      BY <2>6, <3>3
    <3>4. CASE x.at = 0 /\ y.at = 0 /\ y.end - y.begin < x.end - x.begin
      <4>1. x.end - x.begin <= n - v \/ x.end <= x.begin
        BY <2>4, <3>4
      <4> QED BY <2>6, <3>1, <3>4, <4>1
    <3> QED BY <2>5, <3>2, <3>3, <3>4
  <2> QED BY <2>1, <2>2, <2>5, <2>7 DEF T
<1>5. n \in T
  <2>1. 0 .. n \subseteq T
    <3> HIDE DEF T
    <3> QED BY <1>1, <1>3, <1>4, Upwards
  <2>2. n \in 0 .. n
    BY <1>1
  <2> HIDE DEF T
  <2> QED BY <2>1, <2>2
<1>6. PICK x : x = u[n] /\ x \in BisectState(n) /\ i = x.at
  BY <1>1, <1>2
<1>7. Searching(s, tag, x) /\ (x.at # 0 \/ x.end <= x.begin)
  <2>1. Searching(s, tag, x) /\ (x.at # 0 \/ x.end <= x.begin \/ x.end - x.begin <= n - n)
    BY <1>5, <1>6
  <2>2. x.begin \in Nat /\ x.end \in Nat
    BY <1>6 DEF BisectState
  <2> QED BY <1>1, <2>1, <2>2
<1>8. x.at \in 0 .. n /\ x.begin \in Nat /\ x.end \in Nat
  BY <1>6 DEF BisectState
<1>9. i = 0 => \A j \in 1 .. n : s[j].tag # tag
  BY <1>1, <1>6, <1>7, <1>8 DEF Searching
<1>10. i # 0 => s[i].tag = tag
  BY <1>6, <1>7 DEF Searching
<1> QED BY <1>1, <1>6, <1>8, <1>9, <1>10

(* A protocol is found by its tag and by its name, and no other.              *)
LEMMA ProtocolQueried ==
    ASSUME NEW d, IsSchema(d), NEW sch, sch = SchemaOf(d), NEW tag \in Int, NEW p, p = QueryProto(sch, tag)
    PROVE  /\ p # Null => \E i \in 1 .. Len(d.protos) : p = sch.proto[i] /\ p.tag = tag
           /\ \A i \in 1 .. Len(d.protos) : d.protos[i].tag = tag => p = sch.proto[i]
<1>1. PICK s : s = sch.proto /\ s \in Seq(Protocol) /\ Len(s) = Len(d.protos) /\ Sorted(s) /\ Len(s) \in Nat
               /\ \A i \in 1 .. Len(d.protos) : s[i].tag = d.protos[i].tag /\ s[i].tag \in Nat
  BY ProtosLoaded
<1>2. PICK i : i = Bisect(s, tag)
  OBVIOUS
<1>3. /\ i \in 0 .. Len(s)
      /\ i # 0 => s[i].tag = tag
      /\ i = 0 => \A j \in 1 .. Len(s) : s[j].tag # tag
  <2>1. Tagged(s) /\ Sorted(s)
    BY <1>1 DEF Tagged
  <2> QED BY <1>2, <2>1, BisectFinds
<1>4. p = IF i = 0 THEN Null ELSE s[i]
  BY <1>1, <1>2 DEF QueryProto
<1>5. p # Null => \E j \in 1 .. Len(d.protos) : p = s[j] /\ p.tag = tag
  BY <1>1, <1>3, <1>4
<1>6. ASSUME NEW j \in 1 .. Len(d.protos), d.protos[j].tag = tag PROVE p = s[j]
  <2>1. s[j].tag = tag
    BY <1>1, <1>6
  <2>2. i \in 1 .. Len(s) /\ s[i].tag = tag
    BY <1>1, <1>3, <2>1
  <2>3. DOMAIN s = 1 .. Len(s) /\ i \in DOMAIN s /\ j \in DOMAIN s
    BY <1>1, <2>2
  <2>4. ~(i < j) /\ ~(j < i)
    BY <2>1, <2>2, <2>3, <1>1 DEF Sorted
  <2>5. i = j
    BY <1>1, <2>2, <2>4
  <2> QED BY <1>4, <2>2, <2>5
<1> QED BY <1>1, <1>5, <1>6

-----------------------------------------------------------------------------
(* Cutting byte strings. *)

(* A piece b of a sequence, from its place m to its place k. *)
Cut(S, s, m, k, b) ==
    /\ s \in Seq(S) /\ b \in Seq(S) /\ m \in Nat \ {0} /\ k = m - 1 + Len(b) /\ k <= Len(s)
    /\ \A i \in 1 .. Len(b) : \A j \in Nat : j = m - 1 + i => s[j] = b[i]

LEMMA CutIs ==
    ASSUME NEW S, NEW s, NEW m, NEW k, NEW b, Cut(S, s, m, k, b)
    PROVE  SubSeq(s, m, k) = b
<1>1. /\ s \in Seq(S) /\ b \in Seq(S) /\ m \in Nat \ {0} /\ k = m - 1 + Len(b) /\ k <= Len(s)
      /\ \A i \in 1 .. Len(b) : \A j \in Nat : j = m - 1 + i => s[j] = b[i]
  BY DEF Cut
<1>2. PICK l : l = Len(b)
  OBVIOUS
<1>3. l \in Nat /\ k \in Nat /\ k = m - 1 + l
  BY <1>1, <1>2
<1>4. \A i \in m .. k : s[i] \in S
  <2>1. m .. k \subseteq 1 .. Len(s)
    BY <1>1, <1>3
  <2> QED BY <1>1, <2>1
<1>5. PICK t : t = SubSeq(s, m, k)
  OBVIOUS
<1>6. t \in Seq(S) /\ Len(t) = (IF m <= k THEN k - m + 1 ELSE 0) /\ \A i \in 1 .. k - m + 1 : t[i] = s[m + i - 1]
  <2>1. m \in Int /\ k \in Int
    BY <1>1, <1>3
  <2> QED BY <1>4, <1>5, <2>1, SubSeqProperties
<1>7. Len(t) = l
  BY <1>1, <1>3, <1>6
<1>8. ASSUME NEW i \in 1 .. l PROVE t[i] = b[i]
  <2>1. PICK j : j = m + i - 1 /\ j \in Nat /\ j = m - 1 + i /\ i \in 1 .. k - m + 1
    BY <1>1, <1>3
  <2>2. t[i] = s[j]
    BY <1>6, <2>1
  <2>3. s[j] = b[i]
    BY <1>1, <1>2, <2>1
  <2> QED BY <2>2, <2>3
<1>9. t = b
  BY <1>1, <1>2, <1>6, <1>7, <1>8, SeqEqual
<1> QED BY <1>5, <1>9

LEMMA DropIs ==
    ASSUME NEW S, NEW s, NEW a, NEW b, Joins(S, s, a, b), NEW n, n = Len(a)
    PROVE  Drop(s, n) = b
<1>1. a \in Seq(S) /\ b \in Seq(S) /\ n \in Nat /\ Len(b) \in Nat
  BY DEF Joins
<1>2. /\ s \in Seq(S) /\ Len(s) = n + Len(b)
      /\ \A k \in 1 .. Len(b) : \A m \in Nat : m = n + k => s[m] = b[k]
  BY Joined
<1>3. PICK m, k : m = n + 1 /\ k = Len(s)
  OBVIOUS
<1>4. m \in Nat \ {0} /\ k = m - 1 + Len(b) /\ k <= Len(s) /\ m - 1 = n
  BY <1>1, <1>2, <1>3
<1>5. Cut(S, s, m, k, b)
  BY <1>1, <1>2, <1>4 DEF Cut
<1>6. SubSeq(s, m, k) = b
  BY <1>5, CutIs
<1> QED BY <1>3, <1>6 DEF Drop

-----------------------------------------------------------------------------
(* Numbers *)

LEMMA PowerSizes == /\ Power[2] \in Nat /\ Power[2] >= 9 /\ Power[4] \in Nat /\ Power[4] >= 81
                    /\ Power[8] \in Nat /\ SafeMax \in Nat /\ Power[4] < SafeMax /\ 2 * SafeMax < Power[8]
<1>1. Power[0] = 1 /\ Power[1] = Base * Power[0] /\ Power[2] = Base * Power[1] /\ Power[3] = Base * Power[2]
      /\ Power[4] = Base * Power[3]
  <2>1. 1 \in 1 .. 8 /\ 0 \in 0 .. 8 /\ 0 + 1 = 1 /\ 2 \in 1 .. 8 /\ 1 \in 0 .. 8 /\ 1 + 1 = 2
        /\ 3 \in 1 .. 8 /\ 2 \in 0 .. 8 /\ 2 + 1 = 3 /\ 4 \in 1 .. 8 /\ 3 \in 0 .. 8 /\ 3 + 1 = 4
    OBVIOUS
  <2> QED BY <2>1, PowerFacts
<1>2. PICK c \in Nat : Base = 3 + c
  <2>1. Base - 3 \in Nat /\ Base = 3 + (Base - 3)
    BY BaseFacts
  <2> QED BY <2>1
<1>3. ASSUME NEW p \in Nat PROVE Base * p \in Nat /\ Base * p >= 3 * p
  <2>1. Base * p = 3 * p + c * p /\ c * p \in Nat
    BY <1>2
  <2> QED BY <2>1
<1>4. Power[1] \in Nat /\ Power[1] >= 3
  BY <1>1, <1>3
<1>5. Power[2] \in Nat /\ Power[2] >= 9
  BY <1>1, <1>3, <1>4
<1>6. Power[3] \in Nat /\ Power[3] >= 27
  BY <1>1, <1>3, <1>5
<1>7. Power[4] \in Nat /\ Power[4] >= 81
  BY <1>1, <1>3, <1>6
<1>8. Power[8] \in Nat
  BY PowerPositive
<1> QED BY <1>5, <1>7, <1>8, SprotoAssumption

(* Bytes are read back as the number they were written from.                  *)
LEMMA NumberRead ==
    ASSUME NEW n \in Nat, NEW m \in 0 .. 8, n < Power[m], NEW b, b = Bytes(n, m),
           NEW s, \A i \in 1 .. m : s[i] = b[i]
    PROVE  Unsigned(s, m) = n
<1>1. Unsigned(s, m) = n % Power[m]
  BY UnsignedIs
<1>2. PICK p : p = Power[m] /\ p \in Nat
  BY PowerPositive
<1> QED BY <1>1, <1>2, SmallIs

NumberField(f) == f.type = TInteger /\ f.extra = 0 /\ f.array = FALSE

(* A word and data that are read as the number n. *)
Carries(w, data, n, f) ==
    /\ w \in 0 .. Power[2] - 1 /\ w % 2 = 0 /\ data \in Seq(Byte)
    /\ \/ w # 0 /\ data = <<>> /\ DecodeInline(f, NumberOf(w)) = Done(Val("number", n))
       \/ w = 0 /\ \E s \in Seq(Byte) : /\ Len(s) \in {4, 8} /\ data = FillSize(s)
                                        /\ DecodeInteger(f, s) = Done(Val("number", n))

LEMMA FillSizeTyped ==
    ASSUME NEW s \in Seq(Byte), Len(s) \in {0, 4, 8}, NEW data, data = FillSize(s)
    PROVE  /\ data \in Seq(Byte) /\ Len(data) = Len(s) + 4
           /\ \E b : /\ b = Dword(Len(s)) /\ b \in Seq(Byte) /\ Len(b) = 4 /\ data = b \o s
<1>1. PICK n, b : n = Len(s) /\ n \in Nat /\ b = Bytes(n, 4)
  OBVIOUS
<1>2. 4 \in 0 .. 8
  OBVIOUS
<1>3. b \in Seq(Byte) /\ Len(b) = 4
  BY <1>1, <1>2, BytesTyped
<1>4. data = b \o s
  BY <1>1 DEF FillSize, Dword
<1>5. Joins(Byte, data, b, s)
  BY <1>3, <1>4 DEF Joins
<1>6. data \in Seq(Byte) /\ Len(data) = 4 + n
  <2>1. data \in Seq(Byte) /\ Len(data) = Len(b) + Len(s)
    BY <1>5, Joined
  <2> QED BY <1>1, <1>3, <2>1
<1> QED BY <1>1, <1>3, <1>4, <1>6 DEF Dword

LEMMA SmallNumberRead ==
    ASSUME NEW f, NumberField(f), NEW v \in Nat, v <= SafeMax
    PROVE  IntegerIn(f, ToNumber(v)) = Val("number", v)
<1>1. Exactly(v)
  BY PowerSizes DEF Exactly
<1> QED BY <1>1 DEF IntegerIn, ToNumber, NumberField

LEMMA FourBytesRead ==
    ASSUME NEW f, NEW s, Len(s) = 4
    PROVE  DecodeInteger(f, s) = Done(IntegerIn(f, Expand64(s)))
  BY DEF DecodeInteger

LEMMA InlineRead ==
    ASSUME NEW f, NEW v, NumberField(f)
    PROVE  DecodeInline(f, v) = Done(IntegerIn(f, ToNumber(v)))
<1>1. f.type # TBoolean /\ f.type = TInteger /\ ~f.array
  BY DEF NumberField, TInteger, TBoolean
<1> QED
  BY <1>1, Zenon DEF DecodeInline

(* A number between 0 and 2^53 - 1 that is written as an integer, in the       *)
(* header word or behind it, is read back as the same number (encodeInteger,   *)
(* decodeInteger).                                                            *)
THEOREM NumberCarried ==
    ASSUME NEW f, NumberField(f), NEW n \in 0 .. SafeMax, NEW r, r = EncodeInteger(n)
    PROVE  Carries(r.word, r.data, n, f)
<1>1. PICK p2, p4, p8 : /\ p2 = Power[2] /\ p4 = Power[4] /\ p8 = Power[8]
                        /\ p2 \in Nat /\ p2 >= 9 /\ p4 \in Nat /\ p4 >= 81 /\ p8 \in Nat /\ SafeMax \in Nat /\ p4 < SafeMax /\ 2 * SafeMax < p8
  BY PowerSizes
<1>2. n \in Nat /\ n <= SafeMax
  BY <1>1
<1>3. IntegerIn(f, ToNumber(n)) = Val("number", n)
  BY <1>2, SmallNumberRead
<1>4. 4 \in 0 .. 8 /\ 8 \in 0 .. 8
  OBVIOUS
<1>5. CASE FitsInt32(n)
  <2>1. 2 * n < p4 /\ n < p4
    BY <1>1, <1>2, <1>5 DEF FitsInt32
  <2>2. n % Power[4] = n
    BY <1>1, <1>2, <2>1, SmallIs
  <2>3. CASE Inline(n)
    <3>1. r = [word |-> 2 * (n + 1), data |-> <<>>]
      BY <1>5, <2>2, <2>3 DEF EncodeInteger
    <3>2. PICK w : w = 2 * (n + 1) /\ r.word = w /\ r.data = <<>>
      BY <3>1
    <3>3. PICK q, e : q = p2 \div 2 /\ e = p2 % 2 /\ q \in Nat /\ e \in 0 .. 1 /\ p2 = 2 * q + e
      BY <1>1
    <3>4. n < q - 1
      BY <1>1, <2>3, <3>3 DEF Inline
    <3>5. w \in 0 .. p2 - 1 /\ w % 2 = 0 /\ w # 0
      <4>1. PICK m : m = n + 1 /\ m \in Nat /\ m >= 1 /\ m <= q - 1 /\ w = 2 * m
        BY <1>2, <3>2, <3>3, <3>4
      <4>2. w \in 0 .. p2 - 1 /\ w # 0
        BY <1>1, <3>3, <4>1
      <4>3. w % 2 = 0
        BY <4>1
      <4> QED BY <4>2, <4>3
    <3>6. NumberOf(w) = n
      BY <1>2, <3>2 DEF NumberOf
    <3>7. DecodeInline(f, n) = Done(Val("number", n))
      BY <1>3, InlineRead
    <3>8. <<>> \in Seq(Byte)
      OBVIOUS
    <3> QED BY <1>1, <3>2, <3>5, <3>6, <3>7, <3>8 DEF Carries
  <2>4. CASE ~Inline(n)
    <3>1. r = Data(Dword(n))
      BY <1>5, <2>2, <2>4 DEF EncodeInteger
    <3>2. PICK s : s = Bytes(n, 4) /\ s \in Seq(Byte) /\ Len(s) = 4
      BY <1>2, <1>4, BytesTyped
    <3>3. r = [word |-> 0, data |-> FillSize(s)]
      BY <3>1, <3>2 DEF Data, Dword
    <3>4. FillSize(s) \in Seq(Byte)
      BY <3>2, FillSizeTyped
    <3>5. Unsigned(s, 4) = n
      BY <1>1, <1>2, <1>4, <2>1, <3>2, NumberRead
    <3>6. Expand64(s) = ToNumber(n)
      BY <1>1, <2>1, <3>5 DEF Expand64, ToDword, Signed
    <3>7. DecodeInteger(f, s) = Done(Val("number", n))
      <4>1. DecodeInteger(f, s) = Done(IntegerIn(f, Expand64(s)))
        BY <3>2, FourBytesRead
      <4> QED BY <1>3, <3>6, <4>1, Zenon
    <3>8. 0 \in 0 .. Power[2] - 1 /\ 0 % 2 = 0
      BY <1>1
    <3>9. r.word = 0 /\ r.data = FillSize(s)
      BY <3>3
    <3> QED BY <3>2, <3>4, <3>7, <3>8, <3>9 DEF Carries
  <2> QED BY <2>3, <2>4
<1>6. CASE ~FitsInt32(n)
  <2>1. r = Data(Bytes(n, 8))
    BY <1>6 DEF EncodeInteger
  <2>2. PICK s : s = Bytes(n, 8) /\ s \in Seq(Byte) /\ Len(s) = 8
    BY <1>2, <1>4, BytesTyped
  <2>3. r = [word |-> 0, data |-> FillSize(s)]
    BY <2>1, <2>2 DEF Data
  <2>4. FillSize(s) \in Seq(Byte)
    BY <2>2, FillSizeTyped
  <2>5. n < Power[8] /\ 2 * n < p8
    BY <1>1, <1>2
  <2>6. Unsigned(s, 8) = n
    BY <1>2, <1>4, <2>2, <2>5, NumberRead
  <2>7. Int64(s) = ToNumber(n)
    <3>1. Signed(n, 8) = n
      BY <1>1, <2>5 DEF Signed
    <3>2. ~(n < 0 \/ n > SafeMax)
      BY <1>1, <1>2
    <3> QED BY <2>6, <3>1, <3>2 DEF Int64, NumberOrBigInt
  <2>8. DecodeInteger(f, s) = Done(Val("number", n))
    BY <1>3, <2>2, <2>7 DEF DecodeInteger
  <2>9. 0 \in 0 .. Power[2] - 1 /\ 0 % 2 = 0
    BY <1>1
  <2>10. r.word = 0 /\ r.data = FillSize(s)
    BY <2>3
  <2> QED BY <2>2, <2>4, <2>8, <2>9, <2>10 DEF Carries
<1> QED BY <1>5, <1>6

-----------------------------------------------------------------------------
(* The header of a package. *)

PackageField(f, tag, name) == NumberField(f) /\ f.tag = tag /\ f.name = name /\ f # Null /\ f # Undefined
IsPackage(t) == /\ t.n = 2 /\ t.base = 0 /\ t.maxn = 2 /\ Len(t.f) = 2
                /\ PackageField(t.f[1], 0, "type") /\ PackageField(t.f[2], 1, "session")

LEMMA PackageFieldIs ==
    ASSUME NEW n \in Nat, NEW d \in FieldDef(n), NEW tag \in Nat, NEW name,
           d = [name |-> name, tag |-> tag, type |-> TInteger, st |-> Null, extra |-> Null, array |-> FALSE]
    PROVE  PackageField(FieldOf(d), tag, name)
<1>1. FieldOf(d) = [tag |-> tag, type |-> TInteger, name |-> name, st |-> Null, key |-> -1, extra |-> 0, array |-> FALSE]
  BY DEF FieldOf
<1>2. FieldOf(d) \in Field
  BY FieldOfTyped
<1>3. FieldOf(d) # Null /\ FieldOf(d) # Undefined
  BY <1>2, NullAssumption
<1> HIDE DEF FieldOf
<1> QED BY <1>1, <1>3 DEF PackageField, NumberField

LEMMA TwoOf ==
    ASSUME NEW S, NEW s \in Seq(S), DOMAIN s = 1 .. 2
    PROVE  s[1] \in S /\ s[2] \in S
<1>1. 1 \in DOMAIN s /\ 2 \in DOMAIN s
  OBVIOUS
<1>2. \A i \in DOMAIN s : s[i] \in S
  OBVIOUS
<1> QED BY <1>1, <1>2

LEMMA PackageTypeIs ==
    ASSUME NEW d, IsSchema(d), d.types # <<>>, d.types[1] = PackageDef, NEW sch, sch = SchemaOf(d)
    PROVE  IsPackage(sch.type[1])
<1>1. PICK ds : ds = PackageDef
  OBVIOUS
<1>2. /\ DOMAIN ds = 1 .. 2
      /\ ds[1] = [name |-> "type", tag |-> 0, type |-> TInteger, st |-> Null, extra |-> Null, array |-> FALSE]
      /\ ds[2] = [name |-> "session", tag |-> 1, type |-> TInteger, st |-> Null, extra |-> Null, array |-> FALSE]
  <2>1. 1 \in 1 .. 2 /\ 2 \in 1 .. 2 /\ 1 - 1 = 0 /\ 2 - 1 = 1 /\ <<"type", "session">>[1] = "type"
        /\ <<"type", "session">>[2] = "session"
    OBVIOUS
  <2>2. /\ DOMAIN ds = 1 .. 2
        /\ ds[1] = [name |-> <<"type", "session">>[1], tag |-> 1 - 1, type |-> TInteger, st |-> Null, extra |-> Null, array |-> FALSE]
        /\ ds[2] = [name |-> <<"type", "session">>[2], tag |-> 2 - 1, type |-> TInteger, st |-> Null, extra |-> Null, array |-> FALSE]
    BY <1>1, <2>1 DEF PackageDef
  <2> QED BY <2>1, <2>2
<1>3. PICK fs : fs = FieldsOf(ds)
  OBVIOUS
<1>4. DOMAIN fs = 1 .. 2 /\ Len(fs) = 2 /\ fs[1] = FieldOf(ds[1]) /\ fs[2] = FieldOf(ds[2])
  <2>1. fs = [i \in 1 .. 2 |-> FieldOf(ds[i])]
    BY <1>2, <1>3 DEF FieldsOf
  <2>2. 2 \in Nat /\ 1 \in 1 .. 2 /\ 2 \in 1 .. 2
    OBVIOUS
  <2> QED BY <2>1, <2>2
<1>5. PackageField(fs[1], 0, "type") /\ PackageField(fs[2], 1, "session")
  <2>1. 0 \in Nat /\ 1 \in Nat
    OBVIOUS
  <2>2. PICK n : n = Len(d.types) /\ n \in Nat /\ d.types \in Seq(Seq(FieldDef(n))) /\ ds \in Seq(FieldDef(n))
    <3>1. d.types \in Seq(Seq(FieldDef(Len(d.types))))
      BY DEF IsSchema
    <3>2. 1 \in 1 .. Len(d.types)
      BY <3>1
    <3>3. d.types[1] \in Seq(FieldDef(Len(d.types)))
      BY <3>1, <3>2
    <3> QED BY <1>1, <3>1, <3>3
  <2>3. PICK a, b : a = ds[1] /\ b = ds[2]
    OBVIOUS
  <2>4. a \in FieldDef(n) /\ b \in FieldDef(n)
    <3>1. ds \in Seq(FieldDef(n)) /\ DOMAIN ds = 1 .. 2
      BY <1>2, <2>2
    <3>2. ds[1] \in FieldDef(n) /\ ds[2] \in FieldDef(n)
      BY <3>1, TwoOf
    <3> QED BY <2>3, <3>2
  <2>5. PackageField(FieldOf(a), 0, "type")
    BY <1>2, <2>1, <2>2, <2>3, <2>4, PackageFieldIs
  <2>6. PackageField(FieldOf(b), 1, "session")
    BY <1>2, <2>1, <2>2, <2>3, <2>4, PackageFieldIs
  <2> QED BY <1>4, <2>3, <2>5, <2>6
<1>6. fs[1].tag = 0 /\ fs[2].tag = 1
  BY <1>5 DEF PackageField
<1>7. MaxWords(fs) = 2
  <2>1. {i \in DOMAIN fs : fs[i].tag > 1 + IF i = 1 THEN -1 ELSE fs[i - 1].tag} = {}
    <3>1. ASSUME NEW i \in 1 .. 2 PROVE ~(fs[i].tag > 1 + IF i = 1 THEN -1 ELSE fs[i - 1].tag)
      <4>1. CASE i = 1
        BY <1>6, <4>1
      <4>2. CASE i = 2
        <5>1. 2 - 1 = 1
          OBVIOUS
        <5>2. fs[i - 1].tag = 0
          BY <1>6, <4>2, <5>1
        <5> QED BY <1>6, <4>2, <5>2
      <4> QED BY <4>1, <4>2
    <3> QED BY <1>4, <3>1
  <2>2. Cardinality({i \in DOMAIN fs : fs[i].tag > 1 + IF i = 1 THEN -1 ELSE fs[i - 1].tag}) = 0
    BY <2>1, FS_EmptySet
  <2>3. MaxWords(fs) = 2 + 0
    BY <1>4, <2>2 DEF MaxWords
  <2> QED BY <2>3
<1>8. BaseTag(fs) = 0
  <2>1. fs # <<>>
    BY <1>4
  <2>2. Last(fs).tag - fs[1].tag + 1 = Len(fs)
    BY <1>4, <1>6 DEF Last
  <2> QED BY <1>6, <2>1, <2>2, Zenon DEF BaseTag
<1>9. 1 \in DOMAIN d.types
  <2>1. d.types \in Seq(Seq(FieldDef(Len(d.types))))
    BY DEF IsSchema
  <2> QED BY <2>1
<1>10. sch.type[1] = TypeOf(ds)
  BY <1>1, <1>9 DEF SchemaOf
<1>11. TypeOf(ds) = [n |-> 2, base |-> 0, maxn |-> 2, f |-> fs]
  BY <1>3, <1>4, <1>7, <1>8 DEF TypeOf
<1> QED BY <1>4, <1>5, <1>10, <1>11 DEF IsPackage

-----------------------------------------------------------------------------
(* A header is written: two steps, and the layout. *)

Acc0 == [words |-> <<>>, data |-> <<>>, last |-> -1]

LEMMA TwoFields ==
    ASSUME NEW sch, NEW st, NEW obj, NEW t, t = sch.type[st], Len(t.f) = 2
    PROVE  EncodeObject(sch, st, obj) = Layout(t, EncodeStep(sch, EncodeStep(sch, Acc0, t.f[1], obj), t.f[2], obj))
<1> DEFINE Eq(g) == g = [i \in 0 .. 2 |-> IF i = 0 THEN Acc0 ELSE EncodeStep(sch, g[i - 1], t.f[i], obj)]
<1>1. PICK x1, x2 : x1 = EncodeStep(sch, Acc0, t.f[1], obj) /\ x2 = EncodeStep(sch, x1, t.f[2], obj)
  OBVIOUS
<1>2. PICK h : h = [i \in 0 .. 2 |-> IF i = 0 THEN Acc0 ELSE IF i = 1 THEN x1 ELSE x2]
  OBVIOUS
<1>3. Eq(h)
  <2>1. h[0] = Acc0 /\ h[1] = x1 /\ h[2] = x2
    BY <1>2
  <2>2. ASSUME NEW i \in 0 .. 2
        PROVE  (IF i = 0 THEN Acc0 ELSE IF i = 1 THEN x1 ELSE x2)
                   = (IF i = 0 THEN Acc0 ELSE EncodeStep(sch, h[i - 1], t.f[i], obj))
    <3>1. CASE i = 0
      BY <3>1
    <3>2. CASE i = 1
      <4>1. i - 1 = 0
        BY <3>2
      <4> QED BY <1>1, <2>1, <3>2, <4>1
    <3>3. CASE i = 2
      <4>1. i - 1 = 1
        BY <3>3
      <4> QED BY <1>1, <2>1, <3>3, <4>1
    <3> QED BY <3>1, <3>2, <3>3
  <2> QED BY <1>2, <2>2
<1>4. PICK g : g = CHOOSE f : Eq(f)
  OBVIOUS
<1>5. Eq(g)
  <2> HIDE DEF Eq
  <2> QED BY <1>3, <1>4
<1>6. g[0] = Acc0
  BY <1>5
<1>7. g[1] = x1
  <2>1. g[1] = EncodeStep(sch, g[1 - 1], t.f[1], obj)
    BY <1>5
  <2>2. 1 - 1 = 0
    OBVIOUS
  <2> QED BY <1>1, <1>6, <2>1, <2>2
<1>8. g[2] = x2
  <2>1. g[2] = EncodeStep(sch, g[2 - 1], t.f[2], obj)
    BY <1>5
  <2>2. 2 - 1 = 1
    OBVIOUS
  <2> QED BY <1>1, <1>7, <2>1, <2>2
<1>9. EncodeObject(sch, st, obj) = Layout(t, g[2])
  BY <1>4, Zenon DEF EncodeObject, Acc0
<1> QED BY <1>1, <1>8, <1>9

Adding(y, acc, f, w) == y = AddField(acc, f, w)

LEMMA FieldWritten ==
    ASSUME NEW sch, NEW acc, NEW f, NumberField(f), NEW obj, NEW n \in Nat,
           f.name \in DOMAIN obj, obj[f.name] = Val("number", n)
    PROVE  EncodeStep(sch, acc, f, obj) = AddField(acc, f, EncodeInteger(n))
<1>1. f.array = FALSE /\ f.type = TInteger /\ f.extra = 0
  BY DEF NumberField
<1>2. PICK x : x = obj[f.name] /\ x.v = n
  BY DEF Val
<1>3. IntegerOf(f, x) = n
  BY <1>1, <1>2 DEF IntegerOf
<1>4. EncodeField(sch, f, x) = EncodeInteger(n)
  <2>1. f.type # TBoolean
    BY <1>1 DEF TInteger, TBoolean
  <2>2. EncodeField(sch, f, x) = EncodeInteger(IntegerOf(f, x))
    BY <1>1, <2>1, Zenon DEF EncodeField
  <2> QED BY <1>3, <2>2
<1>5. EncodeStep(sch, acc, f, obj) = AddField(acc, f, EncodeField(sch, f, x))
  BY <1>2, Zenon DEF EncodeStep
<1> QED BY <1>4, <1>5

LEMMA FieldLeftOut ==
    ASSUME NEW sch, NEW acc, NEW f, NumberField(f), NEW obj, f.name \notin DOMAIN obj
    PROVE  EncodeStep(sch, acc, f, obj) = acc
<1>1. ~f.array
  BY DEF NumberField
<1> QED BY <1>1, Zenon DEF EncodeStep

LEMMA Pair ==
    ASSUME NEW a, NEW b
    PROVE  <<a>> \o <<b>> = <<a, b>>
<1>1. PICK x, y, s, t, S : x = <<a>> /\ y = <<b>> /\ s = x \o y /\ t = <<a, b>> /\ S = {a, b}
  OBVIOUS
<1>2. x \in Seq(S) /\ Len(x) = 1 /\ x[1] = a
  BY <1>1
<1>3. y \in Seq(S) /\ Len(y) = 1 /\ y[1] = b
  BY <1>1
<1>4. t \in Seq(S) /\ Len(t) = 2 /\ t[1] = a /\ t[2] = b
  BY <1>1
<1>5. s \in Seq(S) /\ Len(s) = 2 /\ s[1] = a /\ s[2] = b
  <2>1. Joins(S, s, x, y)
    BY <1>1, <1>2, <1>3 DEF Joins
  <2>2. /\ s \in Seq(S) /\ Len(s) = Len(x) + Len(y)
        /\ \A k \in 1 .. Len(x) : s[k] = x[k]
        /\ \A k \in 1 .. Len(y) : \A m \in Nat : m = Len(x) + k => s[m] = y[k]
    BY <2>1, Joined
  <2> QED BY <1>2, <1>3, <2>2
<1>6. s = t
  <2>1. \A i \in 1 .. 2 : s[i] = t[i]
    BY <1>4, <1>5
  <2> QED BY <1>4, <1>5, <2>1, SeqEqual
<1> QED BY <1>1, <1>6

LEMMA FirstAdded ==
    ASSUME NEW f, f.tag = 0, NEW w, w.data \in Seq(Byte), NEW y, Adding(y, Acc0, f, w)
    PROVE  y = [words |-> <<w.word>>, data |-> w.data, last |-> 0]
<1>1. y = [words |-> <<>> \o <<>> \o <<w.word>>, data |-> <<>> \o w.data, last |-> 0]
  BY DEF Adding, AddField, Acc0
<1>2. <<>> \o w.data = w.data
  OBVIOUS
<1>3. <<>> \o <<>> \o <<w.word>> = <<w.word>>
  OBVIOUS
<1> QED BY <1>1, <1>2, <1>3

LEMMA SecondAloneAdded ==
    ASSUME NEW f, f.tag = 1, NEW w, w.data \in Seq(Byte), NEW y, Adding(y, Acc0, f, w)
    PROVE  y = [words |-> <<1, w.word>>, data |-> w.data, last |-> 1]
<1>1. y = [words |-> <<>> \o <<1>> \o <<w.word>>, data |-> <<>> \o w.data, last |-> 1]
  BY DEF Adding, AddField, Acc0
<1>2. <<>> \o w.data = w.data
  OBVIOUS
<1>3. <<>> \o <<1>> \o <<w.word>> = <<1, w.word>>
  <2>1. <<>> \o <<1>> = <<1>>
    OBVIOUS
  <2> QED BY <2>1, Pair
<1> QED BY <1>1, <1>2, <1>3

LEMMA SecondAdded ==
    ASSUME NEW f, f.tag = 1, NEW w, NEW a, NEW b, NEW acc, acc = [words |-> <<a>>, data |-> b, last |-> 0],
           NEW y, Adding(y, acc, f, w)
    PROVE  y = [words |-> <<a, w.word>>, data |-> b \o w.data, last |-> 1]
<1>1. y = [words |-> <<a>> \o <<>> \o <<w.word>>, data |-> b \o w.data, last |-> 1]
  BY DEF Adding, AddField
<1>2. <<a>> \o <<>> \o <<w.word>> = <<a, w.word>>
  <2>1. <<a>> \o <<>> = <<a>>
    OBVIOUS
  <2> QED BY <2>1, Pair
<1> QED BY <1>1, <1>2

(* The bytes of a header. *)
Headed(h, ws, data) ==
    /\ ws \in Seq(0 .. Power[2] - 1) /\ Len(ws) \in {1, 2} /\ data \in Seq(Byte)
    /\ h = Word(Len(ws)) \o (WordBytes(ws) \o data)

LEMMA LaidOut ==
    ASSUME NEW t, t.maxn = 2, NEW acc, NEW ws, NEW data, acc.words = ws, acc.data = data,
           ws \in Seq(0 .. Power[2] - 1), Len(ws) \in {1, 2}, data \in Seq(Byte), NEW h, h = Layout(t, acc)
    PROVE  Headed(h, ws, data)
<1>1. 2 * (Len(acc.words) - t.maxn) <= 0
  <2>1. PICK l : l = Len(ws) /\ l \in {1, 2}
    OBVIOUS
  <2>2. 2 * (1 - 2) <= 0 /\ 2 * (2 - 2) <= 0
    OBVIOUS
  <2>3. Len(acc.words) = l /\ t.maxn = 2
    BY <2>1
  <2> QED BY <2>1, <2>2, <2>3
<1>2. h = Word(Len(ws)) \o (WordBytes(ws) \o data)
  BY <1>1 DEF Layout
<1> QED BY <1>2 DEF Headed

(* The headers of a push, a response and a request. *)
PushHead(t, h, tag) == \E w, data : Carries(w, data, tag, t.f[1]) /\ Headed(h, <<w>>, data)
ResponseHead(t, h, id) == \E w, data : Carries(w, data, id, t.f[2]) /\ Headed(h, <<1, w>>, data)
RequestHead(t, h, tag, id) ==
    \E w1, d1, w2, d2 : /\ Carries(w1, d1, tag, t.f[1]) /\ Carries(w2, d2, id, t.f[2])
                        /\ Headed(h, <<w1, w2>>, d1 \o d2)

PutsIn(y, x, name, v) == y = Put(x, name, v)
NumberIn(y, x, name, n) == y = NumOrNone(x, name, n)
Extended(y, x, name, v) ==
    DOMAIN y = DOMAIN x \cup {name} /\ y[name] = v /\ \A m \in DOMAIN x : m # name => y[m] = x[m]

LEMMA PutIs ==
    ASSUME NEW y, NEW x, NEW name, NEW v, PutsIn(y, x, name, v)
    PROVE  Extended(y, x, name, v)
  BY DEF PutsIn, Put, Extended

LEMMA NumberPut ==
    ASSUME NEW y, NEW x, NEW name, NEW n, NumberIn(y, x, name, n)
    PROVE  /\ n = Null => y = x
           /\ n # Null => Extended(y, x, name, Val("number", n))
<1>1. CASE n = Null
  BY <1>1 DEF NumOrNone, NumberIn
<1>2. CASE n # Null
  <2>1. PICK v : v = Val("number", n)
    OBVIOUS
  <2>2. PutsIn(y, x, name, v)
    BY <1>2, <2>1 DEF NumOrNone, NumberIn, PutsIn
  <2>3. Extended(y, x, name, v)
    BY <2>2, PutIs
  <2> QED BY <1>2, <2>1, <2>3
<1> QED BY <1>1, <1>2

LEMMA HeaderObject ==
    ASSUME NEW tag, NEW id, NEW obj, obj = HeaderOf(tag, id)
    PROVE  /\ tag # Null /\ id = Null => DOMAIN obj = {"type"} /\ obj["type"] = Val("number", tag)
           /\ tag = Null /\ id # Null => DOMAIN obj = {"session"} /\ obj["session"] = Val("number", id)
           /\ tag # Null /\ id # Null => /\ DOMAIN obj = {"type", "session"} /\ obj["type"] = Val("number", tag)
                                         /\ obj["session"] = Val("number", id)
<1>1. PICK x, a, t, s : x = Nothing /\ t = "type" /\ s = "session" /\ a = NumOrNone(x, t, tag)
  OBVIOUS
<1>2. DOMAIN x = {}
  BY <1>1 DEF Nothing
<1>3. NumberIn(obj, a, s, id)
  BY <1>1 DEF HeaderOf, NumberIn
<1>4. NumberIn(a, x, t, tag)
  BY <1>1 DEF NumberIn
<1>5. /\ tag = Null => a = x
      /\ tag # Null => DOMAIN a = DOMAIN x \cup {t} /\ a[t] = Val("number", tag)
  BY <1>4, NumberPut DEF Extended
<1>6. /\ id = Null => obj = a
      /\ id # Null => /\ DOMAIN obj = DOMAIN a \cup {s} /\ obj[s] = Val("number", id)
                      /\ \A m \in DOMAIN a : m # s => obj[m] = a[m]
  <2>1. /\ id = Null => obj = a
        /\ id # Null => Extended(obj, a, s, Val("number", id))
    BY <1>3, NumberPut
  <2> QED BY <2>1 DEF Extended
<1>7. t # s
  BY <1>1
<1>8. tag # Null /\ id = Null => DOMAIN obj = {t} /\ obj[t] = Val("number", tag)
  BY <1>2, <1>5, <1>6
<1>9. tag = Null /\ id # Null => DOMAIN obj = {s} /\ obj[s] = Val("number", id)
  BY <1>2, <1>5, <1>6
<1>10. tag # Null /\ id # Null => DOMAIN obj = {t, s} /\ obj[t] = Val("number", tag) /\ obj[s] = Val("number", id)
  <2>1. CASE tag # Null /\ id # Null
    <3>1. DOMAIN a = {t} /\ a[t] = Val("number", tag)
      BY <1>2, <1>5, <2>1
    <3>2. DOMAIN obj = {t, s} /\ obj[s] = Val("number", id) /\ obj[t] = a[t]
      BY <1>6, <1>7, <2>1, <3>1
    <3> QED BY <3>1, <3>2
  <2> QED BY <2>1
<1> QED BY <1>1, <1>8, <1>9, <1>10

LEMMA CarriesTyped ==
    ASSUME NEW w, NEW data, NEW n, NEW f, Carries(w, data, n, f)
    PROVE  w \in 0 .. Power[2] - 1 /\ data \in Seq(Byte) /\ 1 \in 0 .. Power[2] - 1
  BY PowerSizes DEF Carries

LEMMA WordSeqs ==
    ASSUME NEW S, NEW a \in S, NEW b \in S
    PROVE  /\ <<a>> \in Seq(S) /\ Len(<<a>>) = 1 /\ <<a>>[1] = a
           /\ <<a, b>> \in Seq(S) /\ Len(<<a, b>>) = 2 /\ <<a, b>>[1] = a /\ <<a, b>>[2] = b
  OBVIOUS

LEMMA HeaderWritten ==
    ASSUME NEW sch, NEW t, t = sch.type[1], IsPackage(t), NEW tag \in {Null} \cup (0 .. SafeMax),
           NEW id \in {Null} \cup (0 .. SafeMax), NEW h, h = EncodeHeader(sch, tag, id)
    PROVE  /\ tag # Null /\ id = Null => PushHead(t, h, tag)
           /\ tag = Null /\ id # Null => ResponseHead(t, h, id)
           /\ tag # Null /\ id # Null => RequestHead(t, h, tag, id)
<1>1. PICK obj, f1, f2 : obj = HeaderOf(tag, id) /\ f1 = t.f[1] /\ f2 = t.f[2]
  OBVIOUS
<1>2. PICK x1, x2 : x1 = EncodeStep(sch, Acc0, f1, obj) /\ x2 = EncodeStep(sch, x1, f2, obj)
  OBVIOUS
<1>3. h = Layout(t, x2) /\ t.maxn = 2
  <2>1. Len(t.f) = 2 /\ t.maxn = 2
    BY DEF IsPackage
  <2> QED BY <1>1, <1>2, <2>1, TwoFields DEF EncodeHeader
<1>4. NumberField(f1) /\ f1.tag = 0 /\ f1.name = "type" /\ NumberField(f2) /\ f2.tag = 1 /\ f2.name = "session"
  BY <1>1 DEF IsPackage, PackageField
<1>5. /\ tag # Null /\ id = Null => DOMAIN obj = {"type"} /\ obj["type"] = Val("number", tag)
      /\ tag = Null /\ id # Null => DOMAIN obj = {"session"} /\ obj["session"] = Val("number", id)
      /\ tag # Null /\ id # Null => /\ DOMAIN obj = {"type", "session"} /\ obj["type"] = Val("number", tag)
                                    /\ obj["session"] = Val("number", id)
  <2>1. obj = HeaderOf(tag, id)
    BY <1>1
  <2> QED BY <2>1, HeaderObject
<1>6. \A n : n \in 0 .. SafeMax => n \in Nat
  BY PowerSizes
<1>7. CASE tag # Null /\ id = Null
  <2>1. tag \in 0 .. SafeMax /\ tag \in Nat /\ f1.name \in DOMAIN obj /\ obj[f1.name] = Val("number", tag) /\ f2.name \notin DOMAIN obj
    BY <1>4, <1>5, <1>6, <1>7
  <2>2. PICK r : r = EncodeInteger(tag)
    OBVIOUS
  <2>3. Carries(r.word, r.data, tag, f1)
    BY <1>4, <2>1, <2>2, NumberCarried
  <2>4. PICK w, data : w = r.word /\ data = r.data
    OBVIOUS
  <2>5. w \in 0 .. Power[2] - 1 /\ data \in Seq(Byte)
    BY <2>3, <2>4, CarriesTyped
  <2>6. x1 = AddField(Acc0, f1, r)
    BY <1>2, <1>4, <2>1, <2>2, FieldWritten
  <2>7. Adding(x1, Acc0, f1, r) /\ r.data \in Seq(Byte)
    BY <2>4, <2>5, <2>6 DEF Adding
  <2>8. x1 = [words |-> <<w>>, data |-> data, last |-> 0]
    BY <1>4, <2>4, <2>7, FirstAdded
  <2>9. x2 = x1
    BY <1>2, <1>4, <2>1, FieldLeftOut
  <2>10. PICK ws : ws = <<w>> /\ ws \in Seq(0 .. Power[2] - 1) /\ Len(ws) = 1
    <3>1. PICK S : S = 0 .. Power[2] - 1 /\ w \in S
      BY <2>5
    <3>2. <<w>> \in Seq(S) /\ Len(<<w>>) = 1
      BY <3>1, WordSeqs
    <3> QED BY <3>1, <3>2
  <2>11. x2.words = ws /\ x2.data = data
    BY <2>8, <2>9, <2>10
  <2>12. Headed(h, ws, data)
    BY <1>3, <2>5, <2>10, <2>11, LaidOut
  <2> QED BY <1>1, <1>7, <2>3, <2>4, <2>10, <2>12 DEF PushHead
<1>8. CASE tag = Null /\ id # Null
  <2>1. id \in 0 .. SafeMax /\ id \in Nat /\ f1.name \notin DOMAIN obj /\ obj[f2.name] = Val("number", id) /\ f2.name \in DOMAIN obj
    BY <1>4, <1>5, <1>6, <1>8
  <2>2. PICK r : r = EncodeInteger(id)
    OBVIOUS
  <2>3. Carries(r.word, r.data, id, f2)
    BY <1>4, <2>1, <2>2, NumberCarried
  <2>4. PICK w, data : w = r.word /\ data = r.data
    OBVIOUS
  <2>5. w \in 0 .. Power[2] - 1 /\ data \in Seq(Byte) /\ 1 \in 0 .. Power[2] - 1
    BY <2>3, <2>4, CarriesTyped
  <2>6. x1 = Acc0
    BY <1>2, <1>4, <2>1, FieldLeftOut
  <2>7. x2 = AddField(Acc0, f2, r)
    BY <1>2, <1>4, <2>1, <2>2, <2>6, FieldWritten
  <2>8. Adding(x2, Acc0, f2, r) /\ r.data \in Seq(Byte)
    BY <2>4, <2>5, <2>7 DEF Adding
  <2>9. x2 = [words |-> <<1, w>>, data |-> data, last |-> 1]
    BY <1>4, <2>4, <2>8, SecondAloneAdded
  <2>10. PICK ws : ws = <<1, w>> /\ ws \in Seq(0 .. Power[2] - 1) /\ Len(ws) = 2
    <3>1. PICK S : S = 0 .. Power[2] - 1 /\ w \in S /\ 1 \in S
      BY <2>5
    <3>2. <<1, w>> \in Seq(S) /\ Len(<<1, w>>) = 2
      BY <3>1, WordSeqs
    <3> QED BY <3>1, <3>2
  <2>11. x2.words = ws /\ x2.data = data
    BY <2>9, <2>10
  <2>12. Headed(h, ws, data)
    BY <1>3, <2>5, <2>10, <2>11, LaidOut
  <2> QED BY <1>1, <1>8, <2>3, <2>4, <2>10, <2>12 DEF ResponseHead
<1>9. CASE tag # Null /\ id # Null
  <2>1. /\ tag \in 0 .. SafeMax /\ tag \in Nat /\ f1.name \in DOMAIN obj /\ obj[f1.name] = Val("number", tag)
        /\ id \in 0 .. SafeMax /\ id \in Nat /\ f2.name \in DOMAIN obj /\ obj[f2.name] = Val("number", id)
    BY <1>4, <1>5, <1>6, <1>9
  <2>2. PICK r, q : r = EncodeInteger(tag) /\ q = EncodeInteger(id)
    OBVIOUS
  <2>3. Carries(r.word, r.data, tag, f1) /\ Carries(q.word, q.data, id, f2)
    BY <1>4, <2>1, <2>2, NumberCarried
  <2>4. PICK w, data, v, more : w = r.word /\ data = r.data /\ v = q.word /\ more = q.data
    OBVIOUS
  <2>5. w \in 0 .. Power[2] - 1 /\ data \in Seq(Byte) /\ v \in 0 .. Power[2] - 1 /\ more \in Seq(Byte)
    BY <2>3, <2>4, CarriesTyped
  <2>6. x1 = AddField(Acc0, f1, r)
    BY <1>2, <1>4, <2>1, <2>2, FieldWritten
  <2>7. Adding(x1, Acc0, f1, r) /\ r.data \in Seq(Byte)
    BY <2>4, <2>5, <2>6 DEF Adding
  <2>8. x1 = [words |-> <<w>>, data |-> data, last |-> 0]
    BY <1>4, <2>4, <2>7, FirstAdded
  <2>9. x2 = AddField(x1, f2, q)
    BY <1>2, <1>4, <2>1, <2>2, FieldWritten
  <2>10. Adding(x2, x1, f2, q)
    BY <2>9 DEF Adding
  <2>11. x2 = [words |-> <<w, v>>, data |-> data \o more, last |-> 1]
    <3>1. x2 = [words |-> <<w, q.word>>, data |-> data \o q.data, last |-> 1]
      BY <1>4, <2>8, <2>10, SecondAdded
    <3> QED BY <2>4, <3>1
  <2>12. PICK ws, all : ws = <<w, v>> /\ all = data \o more /\ ws \in Seq(0 .. Power[2] - 1) /\ Len(ws) = 2 /\ all \in Seq(Byte)
    <3>1. data \o more \in Seq(Byte)
      BY <2>5
    <3>2. PICK S : S = 0 .. Power[2] - 1 /\ w \in S /\ v \in S
      BY <2>5
    <3>3. <<w, v>> \in Seq(S) /\ Len(<<w, v>>) = 2
      BY <3>2, WordSeqs
    <3> QED BY <3>1, <3>2, <3>3
  <2>13. x2.words = ws /\ x2.data = all
    BY <2>11, <2>12
  <2>14. Headed(h, ws, all)
    BY <1>3, <2>12, <2>13, LaidOut
  <2> QED BY <1>1, <1>9, <2>3, <2>4, <2>12, <2>14 DEF RequestHead
<1> QED BY <1>7, <1>8, <1>9

-----------------------------------------------------------------------------
(* Reading words, and the bytes that a header is followed by. *)

LEMMA TwoBytes ==
    ASSUME NEW n \in Nat, NEW b, b = Bytes(n, 2)
    PROVE  b \in Seq(Byte) /\ Len(b) = 2
<1>1. 2 \in 0 .. 8
  OBVIOUS
<1> QED BY <1>1, BytesTyped

(* A byte of a sequence of them. *)
LEMMA ByteInSeq ==
    ASSUME NEW s, s \in Seq(Byte), NEW i \in 1 .. Len(s)
    PROVE  s[i] \in Byte
<1> HIDE DEF Byte
<1> QED OBVIOUS

WordAt(ws, i, wb) == wb = Word(ws[i])

Written(ws, k, b) == k = Len(ws) /\ k \in {1, 2} /\ ws \in Seq(0 .. Power[2] - 1) /\ b = WordBytes(ws)

LEMMA WordBytesAt ==
    ASSUME NEW ws, NEW k, NEW b, Written(ws, k, b), NEW i \in 1 .. k, NEW wb, WordAt(ws, i, wb)
    PROVE  /\ DOMAIN b = 1 .. 2 * k /\ wb \in Seq(Byte) /\ Len(wb) = 2
           /\ b[2 * i - 1] = wb[1] /\ b[2 * i] = wb[2] /\ ws[i] \in Nat /\ ws[i] < Power[2]
<1> USE DEF Written
<1>1. ws[i] \in Nat /\ ws[i] < Power[2]
  <2>1. i \in DOMAIN ws
    OBVIOUS
  <2>2. ws[i] \in 0 .. Power[2] - 1
    <3>1. PICK S : S = 0 .. Power[2] - 1
      OBVIOUS
    <3>2. ws \in Seq(S)
      BY <3>1
    <3>3. ws[i] \in S
      BY <2>1, <3>2
    <3> QED BY <3>1, <3>3
  <2>3. PICK q : q = Power[2] /\ q \in Nat
    BY PowerSizes
  <2> QED BY <2>2, <2>3
<1>2. PICK v : v = ws[i] /\ wb = Bytes(v, 2) /\ v \in Nat
  BY <1>1 DEF Word, WordAt
<1>3. wb \in Seq(Byte) /\ Len(wb) = 2
  BY <1>2, TwoBytes
<1>4. b = [j \in 1 .. 2 * k |-> Word(ws[(j + 1) \div 2])[2 - (j % 2)]]
  BY DEF WordBytes
<1>5. PICK j1, j2 : j1 = 2 * i - 1 /\ j2 = 2 * i
  OBVIOUS
<1>6. j1 \in 1 .. 2 * k /\ j2 \in 1 .. 2 * k /\ (j1 + 1) \div 2 = i /\ (j2 + 1) \div 2 = i /\ (j1 % 2) = 1 /\ (j2 % 2) = 0
  <2>1. i = 1 \/ i = 2
    OBVIOUS
  <2> QED BY <1>5, <2>1
<1>7. wb = Word(ws[i])
  BY DEF WordAt
<1>8. b[j1] = wb[2 - (j1 % 2)]
  BY <1>4, <1>6, <1>7
<1>9. b[j2] = wb[2 - (j2 % 2)]
  BY <1>4, <1>6, <1>7
<1>10. 2 - 1 = 1 /\ 2 - 0 = 2
  OBVIOUS
<1> QED BY <1>1, <1>3, <1>4, <1>5, <1>6, <1>8, <1>9, <1>10

LEMMA WordBytesTyped ==
    ASSUME NEW ws, NEW k, NEW b, Written(ws, k, b)
    PROVE  b \in Seq(Byte) /\ Len(b) = 2 * k
<1>1. DOMAIN b = 1 .. 2 * k /\ b = [j \in DOMAIN b |-> b[j]] /\ k \in {1, 2}
  BY DEF WordBytes, Written
<1>2. ASSUME NEW i \in 1 .. k PROVE b[2 * i - 1] \in Byte /\ b[2 * i] \in Byte
  <2>1. PICK wb : wb = Word(ws[i])
    OBVIOUS
  <2>2. wb \in Seq(Byte) /\ Len(wb) = 2 /\ b[2 * i - 1] = wb[1] /\ b[2 * i] = wb[2]
    <3>1. i \in 1 .. k /\ WordAt(ws, i, wb)
      BY <2>1 DEF WordAt
    <3> HIDE DEF Byte
    <3> QED BY <3>1, WordBytesAt
  <2>3. wb[1] \in Byte /\ wb[2] \in Byte
    <3>1. 1 \in 1 .. Len(wb) /\ 2 \in 1 .. Len(wb)
      BY <2>2
    <3>2. \A j \in 1 .. Len(wb) : wb[j] \in Byte
      <4> HIDE DEF Byte
      <4> QED BY <2>2, ByteInSeq
    <3> QED BY <3>1, <3>2
  <2> QED BY <2>2, <2>3
<1>3. ASSUME NEW j \in 1 .. 2 * k PROVE b[j] \in Byte
  <2>1. \E i \in 1 .. k : j = 2 * i - 1 \/ j = 2 * i
    <3>1. j \in {1, 2} \/ (k = 2 /\ j \in {3, 4})
      BY <1>1
    <3>2. (j = 1 => j = 2 * 1 - 1) /\ (j = 2 => j = 2 * 1) /\ (j = 3 => j = 2 * 2 - 1) /\ (j = 4 => j = 2 * 2)
      OBVIOUS
    <3>3. 1 \in 1 .. k /\ (k = 2 => 2 \in 1 .. k)
      BY <1>1
    <3> QED BY <3>1, <3>2, <3>3
  <2> QED BY <1>2, <2>1
<1>4. b \in Seq(Byte)
  <2>1. 2 * k \in Nat
    BY <1>1
  <2>2. b \in [1 .. 2 * k -> Byte]
    <3> HIDE DEF Byte
    <3> QED BY <1>1, <1>3
  <2> QED
    <3> HIDE DEF Byte
    <3> QED BY <2>1, <2>2
<1>5. Len(b) = 2 * k
  BY <1>1, <1>4
<1> QED BY <1>4, <1>5

LEMMA Regroup ==
    ASSUME NEW S, NEW x, NEW y, NEW z, NEW l, NEW r, Joins(S, l, x, y), Joins(S, r, y, z)
    PROVE  l \o z = x \o r
<1>1. x \in Seq(S) /\ y \in Seq(S) /\ z \in Seq(S) /\ l = x \o y /\ r = y \o z
  BY DEF Joins
<1>2. (x \o y) \o z = x \o (y \o z)
  BY <1>1, ConcatAssociative
<1> QED BY <1>1, <1>2

HeadPart(bin, ws, p, a, b, r) ==
    /\ Joins(Byte, bin, p, r) /\ Joins(Byte, p, a, b)
    /\ a = Word(Len(ws)) /\ Len(a) = 2 /\ b = WordBytes(ws) /\ Len(b) = 2 * Len(ws)
    /\ Len(ws) \in {1, 2} /\ ws \in Seq(0 .. Power[2] - 1)

Followed(bin, h, more) == more \in Seq(Byte) /\ bin = h \o more

(* A header is read back.  bin is a header and what follows it.               *)
LEMMA HeaderParts ==
    ASSUME NEW h, NEW ws, NEW data, Headed(h, ws, data), NEW more, NEW bin, Followed(bin, h, more)
    PROVE  \E p, a, b, r : HeadPart(bin, ws, p, a, b, r) /\ Joins(Byte, r, data, more) /\ Joins(Byte, bin, h, more)
<1>1. more \in Seq(Byte) /\ bin = h \o more
  BY DEF Followed
<1>2. Len(ws) \in {1, 2} /\ ws \in Seq(0 .. Power[2] - 1)
  BY DEF Headed
<1>3. PICK k : k = Len(ws)
  OBVIOUS
<1>4. k = Len(ws) /\ k \in {1, 2} /\ k \in Nat
  BY <1>2, <1>3
<1>5. PICK a, b, r : a = Bytes(k, 2) /\ b = WordBytes(ws) /\ r = data \o more
  OBVIOUS
<1>6. a \in Seq(Byte) /\ Len(a) = 2
  <2>1. 2 \in 0 .. 8
    OBVIOUS
  <2> QED BY <1>4, <1>5, <2>1, BytesTyped
<1>7. b \in Seq(Byte) /\ Len(b) = 2 * k
  <2>1. Written(ws, k, b)
    BY <1>2, <1>4, <1>5 DEF Written
  <2> QED BY <2>1, WordBytesTyped
<1>8. data \in Seq(Byte) /\ h = a \o (b \o data)
  BY <1>4, <1>5 DEF Headed, Word
<1>9. PICK c, p : c = b \o data /\ p = a \o b
  OBVIOUS
<1>10. Joins(Byte, r, data, more)
  BY <1>1, <1>5, <1>8 DEF Joins
<1>11. Joins(Byte, p, a, b) /\ Joins(Byte, c, b, data)
  BY <1>6, <1>7, <1>8, <1>9 DEF Joins
<1>12. r \in Seq(Byte) /\ p \in Seq(Byte) /\ c \in Seq(Byte)
  BY <1>10, <1>11, Joined
<1>13. h = a \o c
  BY <1>8, <1>9
<1>14. Joins(Byte, h, a, c)
  BY <1>6, <1>12, <1>13 DEF Joins
<1>15. h \in Seq(Byte)
  BY <1>14, Joined
<1>16. PICK d, e : d = c \o more /\ e = b \o r
  OBVIOUS
<1>17. Joins(Byte, d, c, more) /\ Joins(Byte, e, b, r)
  BY <1>1, <1>7, <1>12, <1>16 DEF Joins
<1>18. h \o more = a \o d
  BY <1>14, <1>17, Regroup
<1>19. c \o more = b \o r
  BY <1>10, <1>11, Regroup
<1>20. p \o r = a \o e
  BY <1>11, <1>17, Regroup
<1>21. bin = p \o r
  BY <1>1, <1>16, <1>18, <1>19, <1>20
<1>22. Joins(Byte, bin, p, r)
  BY <1>12, <1>21 DEF Joins
<1>23. Joins(Byte, bin, h, more)
  BY <1>1, <1>15 DEF Joins
<1>24. a = Word(Len(ws))
  BY <1>4, <1>5 DEF Word
<1>25. Len(b) = 2 * Len(ws)
  BY <1>4, <1>7
<1>26. HeadPart(bin, ws, p, a, b, r)
  BY <1>2, <1>5, <1>6, <1>11, <1>22, <1>24, <1>25 DEF HeadPart
<1> QED BY <1>10, <1>23, <1>26

LEMMA CountRead ==
    ASSUME NEW bin, NEW ws, NEW p, NEW a, NEW b, NEW r, HeadPart(bin, ws, p, a, b, r), NEW k, k = Len(ws)
    PROVE  FieldCount(bin) = k /\ Len(bin) >= 2 + 2 * k /\ Drop(bin, 2 + 2 * k) = r
<1>1. k \in {1, 2} /\ Len(a) = 2 /\ Len(b) = 2 * k /\ a = Word(k) /\ Joins(Byte, bin, p, r) /\ Joins(Byte, p, a, b)
  BY DEF HeadPart
<1>2. k \in Nat /\ k < 9 /\ 1 \in 1 .. 2 /\ 2 \in 1 .. 2 /\ 2 \in 0 .. 8
  <2>1. k = 1 \/ k = 2
    BY <1>1
  <2> QED BY <2>1
<1>3. Joins(Byte, p, a, b)
  BY DEF HeadPart
<1>4. /\ Len(p) = Len(a) + Len(b)
       /\ \A i \in 1 .. Len(a) : p[i] = a[i]
  <2> HIDE DEF Byte
  <2> QED BY <1>3, Joined
<1>5. Len(p) = 2 + 2 * k
  BY <1>1, <1>2, <1>4
<1>6. Len(bin) = Len(p) + Len(r) /\ Len(r) \in Nat
  <2>1. Len(bin) = Len(p) + Len(r)
    BY <1>1, Joined
  <2>2. r \in Seq(Byte)
    BY <1>1 DEF Joins
  <2> QED BY <2>1, <2>2
<1>7. \A i \in 1 .. 2 : bin[i] = a[i]
  <2>1. \A i \in 1 .. Len(p) : bin[i] = p[i]
    BY <1>1, Joined
  <2> QED BY <1>1, <1>2, <1>5, <1>4, <2>1
<1>8. Unsigned(bin, 2) = k
  <2>1. k < Power[2]
    BY <1>2, PowerSizes
  <2>2. a = Bytes(k, 2)
    BY <1>1 DEF Word
  <2> QED BY <1>2, <1>7, <2>1, <2>2, NumberRead
<1>9. Drop(bin, 2 + 2 * k) = r
  <2>1. PICK n : n = 2 + 2 * k
    OBVIOUS
  <2>2. Drop(bin, n) = r
    BY <1>1, <1>5, <2>1, DropIs
  <2> QED BY <2>1, <2>2
<1>10. FieldCount(bin) = k
  BY <1>8 DEF FieldCount, ToWord
<1>11. Len(bin) >= 2 + 2 * k
  BY <1>2, <1>5, <1>6
<1> QED BY <1>9, <1>10, <1>11

LEMMA WordRead ==
    ASSUME NEW bin, NEW ws, NEW p, NEW a, NEW b, NEW r, HeadPart(bin, ws, p, a, b, r), NEW k, k = Len(ws), NEW i \in 1 .. k
    PROVE  HeaderWords(bin)[i] = ws[i]
<1>1. k \in {1, 2} /\ Len(a) = 2 /\ Len(b) = 2 * k /\ b = WordBytes(ws) /\ Joins(Byte, bin, p, r) /\ Joins(Byte, p, a, b)
      /\ ws \in Seq(0 .. Power[2] - 1)
  BY DEF HeadPart
<1>2. PICK wb, v : wb = Word(ws[i]) /\ v = ws[i]
  OBVIOUS
<1>3. wb \in Seq(Byte) /\ Len(wb) = 2 /\ b[2 * i - 1] = wb[1] /\ b[2 * i] = wb[2] /\ ws[i] \in Nat /\ ws[i] < Power[2]
  <2>1. WordAt(ws, i, wb) /\ Written(ws, k, b)
    BY <1>1, <1>2 DEF WordAt, Written
  <2> HIDE DEF Byte
  <2> QED BY <2>1, WordBytesAt
<1>4. /\ \A j \in 1 .. Len(p) : bin[j] = p[j]
      /\ \A j \in 1 .. Len(b) : \A m \in Nat : m = Len(a) + j => p[m] = b[j]
      /\ Len(p) = 2 + 2 * k /\ bin \in Seq(Byte)
  <2>1. \A j \in 1 .. Len(p) : bin[j] = p[j]
    BY <1>1, Joined
  <2>2. Len(p) = Len(a) + Len(b) /\ \A j \in 1 .. Len(b) : \A m \in Nat : m = Len(a) + j => p[m] = b[j]
    <3>1. Joins(Byte, p, a, b)
      BY DEF HeadPart
    <3> HIDE DEF Byte
    <3> QED BY <3>1, Joined
  <2>3. bin \in Seq(Byte)
    BY <1>1, Joined
  <2>4. Len(p) = 2 + 2 * k
    BY <1>1, <2>2
  <2> QED BY <2>1, <2>2, <2>3, <2>4
<1>5. PICK m1, m2, j1, j2 : m1 = 2 * i + 1 /\ m2 = 2 * i + 2 /\ j1 = 2 * i - 1 /\ j2 = 2 * i
  OBVIOUS
<1>6. /\ m1 \in 1 .. 2 + 2 * k /\ m2 \in 1 .. 2 + 2 * k /\ j1 \in 1 .. 2 * k /\ j2 \in 1 .. 2 * k
      /\ m1 \in Nat /\ m2 \in Nat /\ m1 = 2 + j1 /\ m2 = 2 + j2 /\ m1 # 0
  <2>1. i = 1 \/ i = 2
    BY <1>1
  <2>2. i <= k /\ k \in Nat
    BY <1>1
  <2> QED BY <1>5, <2>1, <2>2
<1>7. bin[m1] = wb[1] /\ bin[m2] = wb[2]
  <2>1. bin[m1] = p[m1] /\ bin[m2] = p[m2]
    BY <1>4, <1>6
  <2>2. p[m1] = b[j1] /\ p[m2] = b[j2]
    BY <1>1, <1>4, <1>6
  <2> QED BY <1>3, <1>5, <2>1, <2>2
<1>8. Cut(Byte, bin, m1, m2, wb)
  <2>1. m1 \in Nat \ {0} /\ m2 = m1 - 1 + Len(wb)
    BY <1>3, <1>5, <1>6
  <2>2. m2 <= Len(bin)
    <3>1. Len(bin) = Len(p) + Len(r) /\ r \in Seq(Byte)
      <4>1. Len(bin) = Len(p) + Len(r)
        BY <1>1, Joined
      <4> QED BY <1>1, <4>1 DEF Joins
    <3>2. Len(r) \in Nat
      BY <3>1
    <3> QED BY <1>4, <1>6, <3>1, <3>2, <1>1
  <2>3. ASSUME NEW x \in 1 .. Len(wb), NEW j \in Nat, j = m1 - 1 + x PROVE bin[j] = wb[x]
    <3>1. x = 1 \/ x = 2
      BY <1>3
    <3>2. (x = 1 => j = m1) /\ (x = 2 => j = m2)
      BY <1>5, <1>6, <2>3, <3>1
    <3> QED BY <1>7, <3>1, <3>2
  <2> HIDE DEF Byte
  <2> QED BY <1>3, <1>4, <2>1, <2>2, <2>3 DEF Cut
<1>9. SubSeq(bin, m1, m2) = wb
  <2> HIDE DEF Byte
  <2> QED BY <1>8, CutIs
<1>10. ToWord(wb) = v
  <2>1. v \in Nat /\ v < Power[2] /\ 2 \in 0 .. 8 /\ wb = Bytes(v, 2)
    BY <1>2, <1>3 DEF Word
  <2>2. \A x \in 1 .. 2 : wb[x] = wb[x]
    OBVIOUS
  <2>3. Unsigned(wb, 2) = v
    BY <2>1, <2>2, NumberRead
  <2> QED BY <2>3 DEF ToWord
<1>11. Chunk(bin, i + 1, 2) = wb
  <2>1. (i + 1 - 1) * 2 + 1 = m1 /\ (i + 1) * 2 = m2
    BY <1>5
  <2> QED BY <1>9, <2>1 DEF Chunk
<1>12. FieldCount(bin) = k
  BY CountRead
<1> QED BY <1>2, <1>10, <1>11, <1>12 DEF HeaderWords

-----------------------------------------------------------------------------
(* Reading the fields of a header. *)

(* What is being decoded: the tag passed last, what is left of the data, the  *)
(* object so far.                                                             *)
Reading(acc, tag, rest, obj) == acc = [is |-> Done(<<>>), tag |-> tag, rest |-> rest, obj |-> obj]

Given(o, f, n) == Put(o, f.name, Val("number", n))

LEMMA PieceRead ==
    ASSUME NEW s \in Seq(Byte), Len(s) \in {4, 8}, NEW data, data = FillSize(s), NEW more, NEW r, Joins(Byte, r, data, more)
    PROVE  ~CutShort(r) /\ Piece(r) = s /\ After(r) = more
<1>1. PICK n : n = Len(s)
  OBVIOUS
<1>2. n \in {4, 8} /\ n \in Nat /\ n < 81 /\ 4 \in 0 .. 8
  <2>1. n = 4 \/ n = 8
    BY <1>1
  <2> QED BY <2>1
<1>3. data \in Seq(Byte) /\ Len(data) = n + 4
  BY <1>1, <1>2, FillSizeTyped
<1>4. PICK b : b = Dword(Len(s)) /\ b \in Seq(Byte) /\ Len(b) = 4 /\ data = b \o s
  BY <1>1, <1>2, FillSizeTyped
<1>5. /\ r \in Seq(Byte) /\ Len(r) = Len(data) + Len(more)
      /\ \A k \in 1 .. Len(data) : r[k] = data[k]
  BY Joined
<1>6. Joins(Byte, data, b, s)
  BY <1>4 DEF Joins
<1>7. /\ \A k \in 1 .. Len(b) : data[k] = b[k]
      /\ \A k \in 1 .. Len(s) : \A m \in Nat : m = Len(b) + k => data[m] = s[k]
  <2> HIDE DEF Byte
  <2> QED BY <1>6, Joined
<1>8. more \in Seq(Byte) /\ Len(more) \in Nat
  <2>1. more \in Seq(Byte)
    BY DEF Joins
  <2> QED BY <2>1
<1>9. ToDword(r) = n
  <2>1. \A i \in 1 .. 4 : r[i] = b[i]
    <3>1. ASSUME NEW i \in 1 .. 4 PROVE r[i] = b[i]
      <4>1. i \in 1 .. Len(b) /\ i \in 1 .. Len(data)
        BY <1>2, <1>3, <1>4
      <4> QED BY <1>5, <1>7, <4>1
    <3> QED BY <3>1
  <2>2. n < Power[4]
    BY <1>2, PowerSizes
  <2>3. b = Bytes(n, 4)
    BY <1>1, <1>4 DEF Dword
  <2>4. Unsigned(r, 4) = n
    BY <1>2, <2>1, <2>2, <2>3, NumberRead
  <2> QED BY <2>4 DEF ToDword
<1>10. ~CutShort(r)
  BY <1>2, <1>3, <1>5, <1>8, <1>9 DEF CutShort
<1>11. Piece(r) = s
  <2>1. PICK m, k : m = 5 /\ k = n + 4
    OBVIOUS
  <2>2. m \in Nat \ {0} /\ k = m - 1 + Len(s) /\ k <= Len(r)
    BY <1>1, <1>2, <1>3, <1>5, <1>8, <2>1
  <2>3. ASSUME NEW i \in 1 .. Len(s), NEW j \in Nat, j = m - 1 + i PROVE r[j] = s[i]
    <3>1. j = Len(b) + i /\ j \in 1 .. Len(data)
      BY <1>1, <1>2, <1>3, <1>4, <2>1, <2>3
    <3> QED BY <1>5, <1>7, <3>1
  <2>4. Cut(Byte, r, m, k, s)
    <3> HIDE DEF Byte
    <3> QED BY <1>5, <2>2, <2>3 DEF Cut
  <2>5. SubSeq(r, m, k) = s
    <3> HIDE DEF Byte
    <3> QED BY <2>4, CutIs
  <2> QED BY <1>9, <2>1, <2>5 DEF Piece
<1>12. After(r) = more
  <2>1. PICK k : k = n + 4
    OBVIOUS
  <2>2. Drop(r, k) = more
    <3> HIDE DEF Byte
    <3> QED BY <1>3, <2>1, DropIs
  <2> QED BY <1>9, <2>1, <2>2 DEF After
<1> QED BY <1>10, <1>11, <1>12

LEMMA NumberIntegerData ==
    ASSUME NEW sch, NEW f, NumberField(f), NEW s
    PROVE  DecodeData(sch, f, s) = DecodeInteger(f, s)
<1>1. ~f.array /\ f.type = TInteger /\ f.type # TString /\ f.type # TStruct
  BY DEF NumberField, TInteger, TString, TStruct
<1> QED BY <1>1, Zenon DEF DecodeData

LEMMA FieldTaken ==
    ASSUME NEW sch, NEW acc, NEW w, NEW f, f # Null, f # Undefined
    PROVE  TakesValue(sch, acc, w, f) = Puts(Passes(acc, w), f, ValueOf(sch, f, w, acc.rest))
  BY Zenon DEF TakesValue

LEMMA Passing ==
    ASSUME NEW i, NEW t, NEW r, NEW o, NEW acc, acc = [is |-> i, tag |-> t, rest |-> r, obj |-> o], NEW t1, NEW r1
    PROVE  [acc EXCEPT !.tag = t1, !.rest = r1] = [is |-> i, tag |-> t1, rest |-> r1, obj |-> o]
<1>1. PICK a : a = [acc EXCEPT !.tag = t1]
  OBVIOUS
<1>2. a = [is |-> i, tag |-> t1, rest |-> r, obj |-> o]
  BY <1>1
<1>3. [acc EXCEPT !.tag = t1, !.rest = r1] = [a EXCEPT !.rest = r1]
  BY <1>1, Zenon
<1> QED BY <1>2, <1>3

LEMMA WordPasses ==
    ASSUME NEW acc, NEW tag \in Int, NEW rest, NEW obj, Reading(acc, tag, rest, obj), NEW w,
           NEW left, left = IF w = 0 THEN After(rest) ELSE rest
    PROVE  Reading(Passes(acc, w), tag + 1, left, obj)
<1>1. acc = [is |-> Done(<<>>), tag |-> tag, rest |-> rest, obj |-> obj]
  BY DEF Reading
<1>2. acc.tag = tag /\ acc.rest = rest
  BY <1>1
<1>3. PICK t : t = tag + 1
  OBVIOUS
<1>4. Passes(acc, w) = [acc EXCEPT !.tag = t, !.rest = left]
  BY <1>2, <1>3 DEF Passes
<1>5. Passes(acc, w) = [is |-> Done(<<>>), tag |-> t, rest |-> left, obj |-> obj]
  BY <1>1, <1>4, Passing
<1> QED BY <1>3, <1>5 DEF Reading

LEMMA InlinePasses ==
    ASSUME NEW acc, NEW tag \in Int, NEW rest, NEW obj, Reading(acc, tag, rest, obj), NEW w, w # 0
    PROVE  Reading(Passes(acc, w), tag + 1, rest, obj)
  BY WordPasses

LEMMA DataPasses ==
    ASSUME NEW acc, NEW tag \in Int, NEW rest, NEW obj, Reading(acc, tag, rest, obj), NEW w, w = 0
    PROVE  Reading(Passes(acc, w), tag + 1, After(rest), obj)
  BY WordPasses

LEMMA ValuePut ==
    ASSUME NEW acc, NEW tag, NEW rest, NEW obj, Reading(acc, tag, rest, obj), NEW f, NEW v, NEW r, r = Done(v)
    PROVE  Reading(Puts(acc, f, r), tag, rest, Put(obj, f.name, v))
<1>1. acc = [is |-> Done(<<>>), tag |-> tag, rest |-> rest, obj |-> obj]
  BY DEF Reading
<1>2. r.ok /\ r.val = v
  BY DEF Done
<1>3. Puts(acc, f, r) = [acc EXCEPT !.obj = Put(@, f.name, r.val)]
  <2>1. "val" \in DOMAIN r /\ "val" \notin DOMAIN Unset
    BY DEF Done, Unset
  <2>2. r # Unset
    BY <2>1
  <2> QED BY <1>2, <2>2 DEF Puts
<1>4. PICK o : o = Put(acc.obj, f.name, r.val)
  OBVIOUS
<1>5. Puts(acc, f, r) = [acc EXCEPT !.obj = o]
  BY <1>3, <1>4
<1>6. acc.obj = obj
  BY <1>1
<1>7. o = Put(obj, f.name, v)
  BY <1>2, <1>4, <1>6
<1> QED BY <1>1, <1>5, <1>7 DEF Reading

FieldHere(sch, st, tag, f) == NumberField(f) /\ f # Null /\ f # Undefined /\ FindTag(sch.type[st], tag) = f
Steps(end, sch, st, acc, w) == end = DecodeStep(sch, st, acc, w)
Gives(o, obj, f, n) == o = Given(obj, f, n)

LEMMA FieldRead ==
    ASSUME NEW sch, NEW st, NEW acc, NEW tag \in Int, NEW r, NEW obj, Reading(acc, tag, r, obj), NEW next, next = tag + 1,
           NEW f, FieldHere(sch, st, next, f), NEW w, NEW data, NEW n, Carries(w, data, n, f), NEW more,
           Joins(Byte, r, data, more), NEW end, Steps(end, sch, st, acc, w), NEW o, Gives(o, obj, f, n)
    PROVE  Reading(end, next, more, o)
<1>1. NumberField(f) /\ f # Null /\ f # Undefined /\ FindTag(sch.type[st], tag + 1) = f
  BY DEF FieldHere
<1>2. end = DecodeStep(sch, st, acc, w)
  BY DEF Steps
<1>3. acc = [is |-> Done(<<>>), tag |-> tag, rest |-> r, obj |-> obj]
  BY DEF Reading
<1>4. acc.is.ok /\ acc.tag = tag /\ acc.rest = r
  BY <1>3 DEF Done
<1>5. w \in 0 .. Power[2] - 1 /\ w % 2 # 1 /\ data \in Seq(Byte)
  BY DEF Carries
<1>6. PICK x : x = Val("number", n)
  OBVIOUS
<1>7. ~CutShort(r) \/ w # 0
  <2>1. CASE w = 0
    <3>1. PICK s \in Seq(Byte) : Len(s) \in {4, 8} /\ data = FillSize(s) /\ DecodeInteger(f, s) = Done(Val("number", n))
      BY <2>1 DEF Carries
    <3> QED BY <3>1, PieceRead
  <2> QED BY <2>1
<1>8. end = TakesValue(sch, acc, w, f)
  BY <1>1, <1>2, <1>4, <1>5, <1>7 DEF DecodeStep
<1>9. PICK y, v : y = Passes(acc, w) /\ v = ValueOf(sch, f, w, r)
  OBVIOUS
<1>10. end = Puts(y, f, v)
  BY <1>1, <1>4, <1>8, <1>9, FieldTaken
<1>11. Reading(y, tag + 1, more, obj) /\ v = Done(x)
  <2>1. CASE w = 0
    <3>1. PICK s \in Seq(Byte) : Len(s) \in {4, 8} /\ data = FillSize(s) /\ DecodeInteger(f, s) = Done(Val("number", n))
      BY <2>1 DEF Carries
    <3>2. Piece(r) = s /\ After(r) = more
      BY <3>1, PieceRead
    <3>3. v = DecodeData(sch, f, s)
      BY <1>9, <2>1, <3>2 DEF ValueOf
    <3>4. v = Done(x)
      BY <1>1, <1>6, <3>1, <3>3, NumberIntegerData
    <3>5. Reading(y, tag + 1, After(r), obj)
      BY <1>9, <2>1, DataPasses
    <3> QED BY <3>2, <3>4, <3>5
  <2>2. CASE w # 0
    <3>1. data = <<>> /\ DecodeInline(f, NumberOf(w)) = Done(Val("number", n))
      BY <2>2 DEF Carries
    <3>2. v = Done(x)
      BY <1>6, <1>9, <2>2, <3>1 DEF ValueOf
    <3>3. r = more
      <4>1. more \in Seq(Byte) /\ r = data \o more
        BY DEF Joins
      <4> QED BY <3>1, <4>1
    <3>4. Reading(y, tag + 1, r, obj)
      BY <1>9, <2>2, InlinePasses
    <3> QED BY <3>2, <3>3, <3>4
  <2> QED BY <2>1, <2>2
<1>12. o = Put(obj, f.name, x)
  BY <1>6 DEF Gives, Given
<1>13. Reading(y, next, more, obj)
  BY <1>11
<1>14. Reading(Puts(y, f, v), next, more, Put(obj, f.name, x))
  BY <1>11, <1>13, ValuePut
<1> QED BY <1>10, <1>12, <1>14

-----------------------------------------------------------------------------
(* One word, and two. *)

LEMMA OneWord ==
    ASSUME NEW sch, NEW st, NEW s, FieldCount(s) = 1, Len(s) >= 2 + 2 * 1, Len(s) \in Nat
    PROVE  DecodeObject(sch, st, s) = Result(s, DecodeStep(sch, st, NotBegun(s), HeaderWords(s)[1]))
<1> DEFINE Eq(g) == g = [i \in 0 .. 1 |-> IF i = 0 THEN NotBegun(s) ELSE DecodeStep(sch, st, g[i - 1], HeaderWords(s)[i])]
<1>1. PICK x0, x1 : x0 = NotBegun(s) /\ x1 = DecodeStep(sch, st, x0, HeaderWords(s)[1])
  OBVIOUS
<1>2. PICK h : h = [i \in 0 .. 1 |-> IF i = 0 THEN x0 ELSE x1]
  OBVIOUS
<1>3. Eq(h)
  <2>1. h[0] = x0 /\ h[1] = x1
    BY <1>2
  <2>2. ASSUME NEW i \in 0 .. 1
        PROVE  (IF i = 0 THEN x0 ELSE x1) = (IF i = 0 THEN NotBegun(s) ELSE DecodeStep(sch, st, h[i - 1], HeaderWords(s)[i]))
    <3>1. CASE i = 0
      BY <1>1, <3>1
    <3>2. CASE i = 1
      <4>1. i - 1 = 0
        BY <3>2
      <4> QED BY <1>1, <2>1, <3>2, <4>1
    <3> QED BY <3>1, <3>2
  <2> QED BY <1>2, <2>2
<1>4. PICK g : g = CHOOSE f : Eq(f)
  OBVIOUS
<1>5. Eq(g)
  <2> HIDE DEF Eq
  <2> QED BY <1>3, <1>4
<1>6. g[0] = x0
  BY <1>1, <1>5
<1>7. g[1] = x1
  <2>1. g[1] = DecodeStep(sch, st, g[1 - 1], HeaderWords(s)[1])
    BY <1>5
  <2>2. 1 - 1 = 0
    OBVIOUS
  <2> QED BY <1>1, <1>6, <2>1, <2>2
<1>8. ~(Len(s) < 2 \/ Len(s) < 2 + 2 * FieldCount(s))
  <2>1. Len(s) >= 4
    OBVIOUS
  <2>2. 2 + 2 * FieldCount(s) = 4
    OBVIOUS
  <2> QED BY <2>1, <2>2
<1>9. DecodeObject(sch, st, s) = Result(s, g[1])
  BY <1>4, <1>8, Zenon DEF DecodeObject
<1> QED BY <1>1, <1>7, <1>9

LEMMA TwoWords ==
    ASSUME NEW sch, NEW st, NEW s, FieldCount(s) = 2, Len(s) >= 2 + 2 * 2, Len(s) \in Nat
    PROVE  DecodeObject(sch, st, s) =
             Result(s, DecodeStep(sch, st, DecodeStep(sch, st, NotBegun(s), HeaderWords(s)[1]), HeaderWords(s)[2]))
<1> DEFINE Eq(g) == g = [i \in 0 .. 2 |-> IF i = 0 THEN NotBegun(s) ELSE DecodeStep(sch, st, g[i - 1], HeaderWords(s)[i])]
<1>1. PICK x0, x1, x2 : x0 = NotBegun(s) /\ x1 = DecodeStep(sch, st, x0, HeaderWords(s)[1])
                        /\ x2 = DecodeStep(sch, st, x1, HeaderWords(s)[2])
  OBVIOUS
<1>2. PICK h : h = [i \in 0 .. 2 |-> IF i = 0 THEN x0 ELSE IF i = 1 THEN x1 ELSE x2]
  OBVIOUS
<1>3. Eq(h)
  <2>1. h[0] = x0 /\ h[1] = x1 /\ h[2] = x2
    BY <1>2
  <2>2. ASSUME NEW i \in 0 .. 2
        PROVE  (IF i = 0 THEN x0 ELSE IF i = 1 THEN x1 ELSE x2)
                 = (IF i = 0 THEN NotBegun(s) ELSE DecodeStep(sch, st, h[i - 1], HeaderWords(s)[i]))
    <3>1. CASE i = 0
      BY <1>1, <3>1
    <3>2. CASE i = 1
      <4>1. i - 1 = 0
        BY <3>2
      <4> QED BY <1>1, <2>1, <3>2, <4>1
    <3>3. CASE i = 2
      <4>1. i - 1 = 1
        BY <3>3
      <4> QED BY <1>1, <2>1, <3>3, <4>1
    <3> QED BY <3>1, <3>2, <3>3
  <2> QED BY <1>2, <2>2
<1>4. PICK g : g = CHOOSE f : Eq(f)
  OBVIOUS
<1>5. Eq(g)
  <2> HIDE DEF Eq
  <2> QED BY <1>3, <1>4
<1>6. g[0] = x0
  BY <1>1, <1>5
<1>7. g[1] = x1
  <2>1. g[1] = DecodeStep(sch, st, g[1 - 1], HeaderWords(s)[1])
    BY <1>5
  <2>2. 1 - 1 = 0
    OBVIOUS
  <2> QED BY <1>1, <1>6, <2>1, <2>2
<1>8. g[2] = x2
  <2>1. g[2] = DecodeStep(sch, st, g[2 - 1], HeaderWords(s)[2])
    BY <1>5
  <2>2. 2 - 1 = 1
    OBVIOUS
  <2> QED BY <1>1, <1>7, <2>1, <2>2
<1>9. ~(Len(s) < 2 \/ Len(s) < 2 + 2 * FieldCount(s))
  <2>1. Len(s) >= 6
    OBVIOUS
  <2>2. 2 + 2 * FieldCount(s) = 6
    OBVIOUS
  <2> QED BY <2>1, <2>2
<1>10. DecodeObject(sch, st, s) = Result(s, g[2])
  BY <1>4, <1>9, Zenon DEF DecodeObject
<1> QED BY <1>1, <1>8, <1>10

Results(d, s, end) == d = Result(s, end)
(* What is read is the object o, in the place of h.                           *)
ReadAs(d, o, h) == d = Done([obj |-> o, used |-> Len(h)])

LEMMA ResultIs ==
    ASSUME NEW end, NEW tag, NEW rest, NEW obj, Reading(end, tag, rest, obj), NEW s, NEW h, Len(s) - Len(rest) = Len(h),
           NEW d, Results(d, s, end)
    PROVE  ReadAs(d, obj, h)
<1>1. end = [is |-> Done(<<>>), tag |-> tag, rest |-> rest, obj |-> obj]
  BY DEF Reading
<1>2. end.is.ok /\ end.obj = obj /\ end.rest = rest
  BY <1>1 DEF Done
<1>3. d = Result(s, end)
  BY DEF Results
<1>4. d = Done([obj |-> end.obj, used |-> Len(s) - Len(end.rest)])
  BY <1>2, <1>3 DEF Result
<1> QED BY <1>2, <1>4 DEF ReadAs

LEMMA PackageTags ==
    ASSUME NEW t, IsPackage(t)
    PROVE  FindTag(t, 0) = t.f[1] /\ FindTag(t, 1) = t.f[2]
<1>1. t.n = 2 /\ t.base = 0
  BY DEF IsPackage
<1>2. FindTag(t, 0) = FieldAt(t, 1) /\ FindTag(t, 1) = FieldAt(t, 2)
  <2>1. t.base >= 0 /\ 0 - t.base + 1 = 1 /\ 1 - t.base + 1 = 2
    BY <1>1
  <2> QED BY <2>1 DEF FindTag
<1>3. FieldAt(t, 1) = t.f[1]
  <2>1. ~(1 < 1 \/ 1 > t.n + 1) /\ 1 # t.n + 1
    BY <1>1
  <2> QED BY <2>1, Zenon DEF FieldAt
<1>4. FieldAt(t, 2) = t.f[2]
  <2>1. ~(2 < 1 \/ 2 > t.n + 1) /\ 2 # t.n + 1
    BY <1>1
  <2> QED BY <2>1, Zenon DEF FieldAt
<1> QED BY <1>2, <1>3, <1>4

(* A word that skips one tag. *)
LEMMA GapPassed ==
    ASSUME NEW sch, NEW st, NEW acc, NEW r, NEW obj, Reading(acc, -1, r, obj)
    PROVE  Reading(DecodeStep(sch, st, acc, 1), 0, r, obj)
<1>1. acc = [is |-> Done(<<>>), tag |-> -1, rest |-> r, obj |-> obj]
  BY DEF Reading
<1>2. acc.is.ok /\ 1 % 2 = 1 /\ acc.tag + 1 + 1 \div 2 = 0
  BY <1>1 DEF Done
<1>3. DecodeStep(sch, st, acc, 1) = [acc EXCEPT !.tag = 0]
  BY <1>2 DEF DecodeStep
<1> QED BY <1>1, <1>3 DEF Reading

-----------------------------------------------------------------------------
(* A header is read back. *)

(* A header with k words, and after it data and more.                         *)
Opened(bin, h, ws, data, more, r, k) ==
    /\ FieldCount(bin) = k /\ Len(bin) >= 2 + 2 * k /\ Len(bin) \in Nat
    /\ \A i \in 1 .. k : HeaderWords(bin)[i] = ws[i]
    /\ Reading(NotBegun(bin), -1, r, Nothing)
    /\ Joins(Byte, r, data, more) /\ Len(bin) - Len(more) = Len(h)

LEMMA HeaderOpened ==
    ASSUME NEW h, NEW ws, NEW data, Headed(h, ws, data), NEW more, NEW bin, Followed(bin, h, more), NEW k, k = Len(ws)
    PROVE  \E r : Opened(bin, h, ws, data, more, r, k)
<1>1. PICK p, a, b, r : HeadPart(bin, ws, p, a, b, r) /\ Joins(Byte, r, data, more) /\ Joins(Byte, bin, h, more)
  BY HeaderParts
<1>2. HeadPart(bin, ws, p, a, b, r)
  BY <1>1
<1>3. FieldCount(bin) = k /\ Len(bin) >= 2 + 2 * k /\ Drop(bin, 2 + 2 * k) = r
  BY <1>2, CountRead
<1>4. \A i \in 1 .. k : HeaderWords(bin)[i] = ws[i]
  BY <1>2, WordRead
<1>5. Reading(NotBegun(bin), -1, r, Nothing)
  BY <1>3 DEF Reading, NotBegun, Nothing
<1>6. Len(bin) = Len(h) + Len(more) /\ bin \in Seq(Byte) /\ h \in Seq(Byte)
  <2>1. Joins(Byte, bin, h, more)
    BY <1>1
  <2>2. Len(bin) = Len(h) + Len(more) /\ bin \in Seq(Byte)
    <3> HIDE DEF Byte
    <3> QED BY <2>1, Joined
  <2> QED BY <1>1, <2>2 DEF Joins
<1>7. Len(bin) - Len(more) = Len(h) /\ Len(bin) \in Nat
  <2>1. Len(h) \in Nat /\ Len(more) \in Nat
    BY <1>6 DEF Followed
  <2> QED BY <1>6, <2>1
<1> QED BY <1>1, <1>3, <1>4, <1>5, <1>7 DEF Opened

TypeOne(sch, t) == t = sch.type[1] /\ IsPackage(t)

LEMMA PushRead ==
    ASSUME NEW sch, NEW t, TypeOne(sch, t), NEW tag, NEW h, PushHead(t, h, tag),
           NEW more, NEW bin, Followed(bin, h, more)
    PROVE  \E o : ReadAs(DecodeObject(sch, 1, bin), o, h) /\ DOMAIN o = {"type"} /\ o["type"].v = tag
<1>1. t = sch.type[1] /\ IsPackage(t)
  BY DEF TypeOne
<1>2. PICK f : f = t.f[1]
  OBVIOUS
<1>3. PICK w, data : Carries(w, data, tag, f) /\ Headed(h, <<w>>, data)
  BY <1>2 DEF PushHead
<1>4. PICK ws : ws = <<w>>
  OBVIOUS
<1>5. Len(ws) = 1 /\ ws[1] = w /\ Headed(h, ws, data) /\ 1 \in 1 .. 1 /\ 1 \in Nat /\ -1 \in Int /\ -1 + 1 = 0
  BY <1>3, <1>4
<1>6. PICK r : Opened(bin, h, ws, data, more, r, 1)
  BY <1>5, HeaderOpened
<1>7. NumberField(f) /\ f.name = "type" /\ f # Null /\ f # Undefined /\ FindTag(t, 0) = f
  <2>1. FindTag(t, 0) = f
    BY <1>2, <1>1, PackageTags
  <2> QED BY <1>2, <2>1, <1>1 DEF IsPackage, PackageField
<1>8. PICK x0, x1 : x0 = NotBegun(bin) /\ x1 = DecodeStep(sch, 1, x0, w)
  OBVIOUS
<1>9. Reading(x0, -1, r, Nothing) /\ Joins(Byte, r, data, more) /\ HeaderWords(bin)[1] = w
  BY <1>5, <1>6, <1>8 DEF Opened
<1>10. PICK o : o = Given(Nothing, f, tag)
  OBVIOUS
<1>11. Reading(x1, 0, more, o)
  <2>1. FieldHere(sch, 1, 0, f) /\ Steps(x1, sch, 1, x0, w) /\ Gives(o, Nothing, f, tag)
    BY <1>7, <1>8, <1>10, <1>1 DEF FieldHere, Steps, Gives
  <2>2. PICK m, next : m = -1 /\ next = 0
    OBVIOUS
  <2>3. m \in Int /\ next = m + 1 /\ Reading(x0, m, r, Nothing) /\ FieldHere(sch, 1, next, f)
    BY <1>9, <2>1, <2>2
  <2>4. Reading(x1, next, more, o)
    BY <1>3, <1>9, <2>1, <2>3, FieldRead
  <2> QED BY <2>2, <2>4
<1>12. DecodeObject(sch, 1, bin) = Result(bin, x1)
  <2>1. FieldCount(bin) = 1 /\ Len(bin) >= 2 + 2 * 1 /\ Len(bin) \in Nat
    BY <1>6 DEF Opened
  <2> QED BY <1>8, <1>9, <2>1, OneWord
<1>13. PICK d : d = DecodeObject(sch, 1, bin)
  OBVIOUS
<1>14. ReadAs(d, o, h)
  <2>1. Len(bin) - Len(more) = Len(h)
    BY <1>6 DEF Opened
  <2>2. Results(d, bin, x1)
    BY <1>12, <1>13 DEF Results
  <2> QED BY <1>11, <2>1, <2>2, ResultIs
<1>15. DOMAIN o = {"type"} /\ o["type"].v = tag
  BY <1>7, <1>10 DEF Given, Put, Nothing, Val
<1> QED BY <1>13, <1>14, <1>15

LEMMA ResponseRead ==
    ASSUME NEW sch, NEW t, TypeOne(sch, t), NEW id, NEW h, ResponseHead(t, h, id),
           NEW more, NEW bin, Followed(bin, h, more)
    PROVE  \E o : ReadAs(DecodeObject(sch, 1, bin), o, h) /\ DOMAIN o = {"session"} /\ o["session"].v = id
<1>1. t = sch.type[1] /\ IsPackage(t)
  BY DEF TypeOne
<1>2. PICK f : f = t.f[2]
  OBVIOUS
<1>3. PICK w, data : Carries(w, data, id, f) /\ Headed(h, <<1, w>>, data)
  BY <1>2 DEF ResponseHead
<1>4. PICK ws : ws = <<1, w>>
  OBVIOUS
<1>5. Len(ws) = 2 /\ ws[1] = 1 /\ ws[2] = w /\ Headed(h, ws, data) /\ 1 \in 1 .. 2 /\ 2 \in 1 .. 2 /\ 0 + 1 = 1 /\ 0 \in Int
  BY <1>3, <1>4
<1>6. PICK r : Opened(bin, h, ws, data, more, r, 2)
  BY <1>5, HeaderOpened
<1>7. NumberField(f) /\ f.name = "session" /\ f # Null /\ f # Undefined /\ FindTag(t, 1) = f
  <2>1. FindTag(t, 1) = f
    BY <1>2, <1>1, PackageTags
  <2> QED BY <1>2, <2>1, <1>1 DEF IsPackage, PackageField
<1>8. PICK x0, x1, x2 : x0 = NotBegun(bin) /\ x1 = DecodeStep(sch, 1, x0, 1) /\ x2 = DecodeStep(sch, 1, x1, w)
  OBVIOUS
<1>9. Reading(x0, -1, r, Nothing) /\ Joins(Byte, r, data, more) /\ HeaderWords(bin)[1] = 1 /\ HeaderWords(bin)[2] = w
  BY <1>5, <1>6, <1>8 DEF Opened
<1>10. Reading(x1, 0, r, Nothing)
  BY <1>8, <1>9, GapPassed
<1>11. PICK o : o = Given(Nothing, f, id)
  OBVIOUS
<1>12. Reading(x2, 1, more, o)
  <2>1. FieldHere(sch, 1, 1, f) /\ Steps(x2, sch, 1, x1, w) /\ Gives(o, Nothing, f, id)
    BY <1>7, <1>8, <1>11, <1>1 DEF FieldHere, Steps, Gives
  <2>2. PICK m, next : m = 0 /\ next = 1
    OBVIOUS
  <2>3. m \in Int /\ next = m + 1 /\ Reading(x1, m, r, Nothing) /\ FieldHere(sch, 1, next, f)
    BY <1>10, <2>1, <2>2
  <2>4. Reading(x2, next, more, o)
    BY <1>3, <1>9, <2>1, <2>3, FieldRead
  <2> QED BY <2>2, <2>4
<1>13. DecodeObject(sch, 1, bin) = Result(bin, x2)
  <2>1. FieldCount(bin) = 2 /\ Len(bin) >= 2 + 2 * 2 /\ Len(bin) \in Nat
    BY <1>6 DEF Opened
  <2> QED BY <1>8, <1>9, <2>1, TwoWords
<1>14. PICK d : d = DecodeObject(sch, 1, bin)
  OBVIOUS
<1>15. ReadAs(d, o, h)
  <2>1. Len(bin) - Len(more) = Len(h)
    BY <1>6 DEF Opened
  <2>2. Results(d, bin, x2)
    BY <1>13, <1>14 DEF Results
  <2> QED BY <1>12, <2>1, <2>2, ResultIs
<1>16. DOMAIN o = {"session"} /\ o["session"].v = id
  BY <1>7, <1>11 DEF Given, Put, Nothing, Val
<1> QED BY <1>14, <1>15, <1>16

LEMMA RequestRead ==
    ASSUME NEW sch, NEW t, TypeOne(sch, t), NEW tag, NEW id, NEW h, RequestHead(t, h, tag, id),
           NEW more, NEW bin, Followed(bin, h, more)
    PROVE  \E o : /\ ReadAs(DecodeObject(sch, 1, bin), o, h) /\ DOMAIN o = {"type", "session"}
                  /\ o["type"].v = tag /\ o["session"].v = id
<1>1. t = sch.type[1] /\ IsPackage(t)
  BY DEF TypeOne
<1>2. PICK f1, f2 : f1 = t.f[1] /\ f2 = t.f[2]
  OBVIOUS
<1>3. PICK w1, d1, w2, d2 : Carries(w1, d1, tag, f1) /\ Carries(w2, d2, id, f2) /\ Headed(h, <<w1, w2>>, d1 \o d2)
  BY <1>2 DEF RequestHead
<1>4. PICK ws, data : ws = <<w1, w2>> /\ data = d1 \o d2
  OBVIOUS
<1>5. Len(ws) = 2 /\ ws[1] = w1 /\ ws[2] = w2 /\ Headed(h, ws, data) /\ 1 \in 1 .. 2 /\ 2 \in 1 .. 2
  BY <1>3, <1>4
<1>6. PICK r : Opened(bin, h, ws, data, more, r, 2)
  BY <1>5, HeaderOpened
<1>7. /\ NumberField(f1) /\ f1.name = "type" /\ f1 # Null /\ f1 # Undefined /\ FindTag(t, 0) = f1
      /\ NumberField(f2) /\ f2.name = "session" /\ f2 # Null /\ f2 # Undefined /\ FindTag(t, 1) = f2
  <2>1. FindTag(t, 0) = f1 /\ FindTag(t, 1) = f2
    BY <1>2, <1>1, PackageTags
  <2> QED BY <1>2, <2>1, <1>1 DEF IsPackage, PackageField
<1>8. PICK x0, x1, x2 : x0 = NotBegun(bin) /\ x1 = DecodeStep(sch, 1, x0, w1) /\ x2 = DecodeStep(sch, 1, x1, w2)
  OBVIOUS
<1>9. Reading(x0, -1, r, Nothing) /\ Joins(Byte, r, data, more) /\ HeaderWords(bin)[1] = w1 /\ HeaderWords(bin)[2] = w2
  BY <1>5, <1>6, <1>8 DEF Opened
<1>10. PICK mid : mid = d2 \o more
  OBVIOUS
<1>11. Joins(Byte, r, d1, mid) /\ Joins(Byte, mid, d2, more)
  <2>1. d1 \in Seq(Byte) /\ d2 \in Seq(Byte)
    BY <1>3 DEF Carries
  <2>2. Joins(Byte, data, d1, d2) /\ Joins(Byte, mid, d2, more)
    BY <1>4, <1>10, <2>1 DEF Joins, Followed
  <2>3. data \o more = d1 \o mid
    BY <2>2, Regroup
  <2>4. mid \in Seq(Byte)
    <3> HIDE DEF Byte
    <3> QED BY <2>2, Joined
  <2>5. r = data \o more
    BY <1>9 DEF Joins
  <2> QED BY <2>1, <2>2, <2>3, <2>4, <2>5 DEF Joins
<1>12. PICK o1, o : o1 = Given(Nothing, f1, tag) /\ o = Given(o1, f2, id)
  OBVIOUS
<1>13. Reading(x1, 0, mid, o1)
  <2>1. FieldHere(sch, 1, 0, f1) /\ Steps(x1, sch, 1, x0, w1) /\ Gives(o1, Nothing, f1, tag)
    BY <1>7, <1>8, <1>12, <1>1 DEF FieldHere, Steps, Gives
  <2>2. PICK m, next : m = -1 /\ next = 0
    OBVIOUS
  <2>3. m \in Int /\ next = m + 1 /\ Reading(x0, m, r, Nothing) /\ FieldHere(sch, 1, next, f1)
    BY <1>9, <2>1, <2>2
  <2>4. Reading(x1, next, mid, o1)
    BY <1>3, <1>11, <2>1, <2>3, FieldRead
  <2> QED BY <2>2, <2>4
<1>14. Reading(x2, 1, more, o)
  <2>1. FieldHere(sch, 1, 1, f2) /\ Steps(x2, sch, 1, x1, w2) /\ Gives(o, o1, f2, id)
    BY <1>7, <1>8, <1>12, <1>1 DEF FieldHere, Steps, Gives
  <2>2. PICK m, next : m = 0 /\ next = 1
    OBVIOUS
  <2>3. m \in Int /\ next = m + 1 /\ Reading(x1, m, mid, o1) /\ FieldHere(sch, 1, next, f2)
    BY <1>13, <2>1, <2>2
  <2>4. Reading(x2, next, more, o)
    BY <1>3, <1>11, <2>1, <2>3, FieldRead
  <2> QED BY <2>2, <2>4
<1>15. DecodeObject(sch, 1, bin) = Result(bin, x2)
  <2>1. FieldCount(bin) = 2 /\ Len(bin) >= 2 + 2 * 2 /\ Len(bin) \in Nat
    BY <1>6 DEF Opened
  <2> QED BY <1>8, <1>9, <2>1, TwoWords
<1>16. PICK d : d = DecodeObject(sch, 1, bin)
  OBVIOUS
<1>17. ReadAs(d, o, h)
  <2>1. Len(bin) - Len(more) = Len(h)
    BY <1>6 DEF Opened
  <2>2. Results(d, bin, x2)
    BY <1>15, <1>16 DEF Results
  <2> QED BY <1>14, <2>1, <2>2, ResultIs
<1>18. DOMAIN o1 = {"type"} /\ o1["type"].v = tag
  <2>1. o1 = Given(Nothing, f1, tag)
    BY <1>12
  <2> QED BY <1>7, <2>1 DEF Given, Put, Nothing, Val
<1>19. DOMAIN o = {"type", "session"} /\ o["type"].v = tag /\ o["session"].v = id
  <2>1. o = Given(o1, f2, id)
    BY <1>12
  <2> QED BY <1>7, <1>18, <2>1 DEF Given, Put, Val
<1> QED BY <1>16, <1>17, <1>19

-----------------------------------------------------------------------------
(* What a schema that is used has. *)

Usable(d, sch) == IsSchema(d) /\ d.types # <<>> /\ d.types[1] = PackageDef /\ sch = SchemaOf(d)
                  /\ \A i \in DOMAIN d.protos : d.protos[i].tag <= SafeMax

NamesOf(sch) == {sch.proto[i].name : i \in DOMAIN sch.proto}

LEMMA SchemaUsable ==
    ASSUME NEW s \in DOMAIN Schemas
    PROVE  /\ Usable(Schemas[s], SchemaOf(Schemas[s]))
           /\ CreateNew(Bundle(Schemas[s])) = SchemaOf(Schemas[s])
<1>1. PICK d : d = Schemas[s]
  OBVIOUS
<1>2. IsSchema(d) /\ d.types # <<>> /\ d.types[1] = PackageDef /\ \A p \in Range(d.protos) : p.tag <= SafeMax
  BY <1>1, RpcAssumption
<1>3. ASSUME NEW i \in DOMAIN d.protos PROVE d.protos[i].tag <= SafeMax
  <2>1. d.protos[i] \in Range(d.protos)
    BY DEF Range
  <2> QED BY <1>2, <2>1
<1>4. CreateNew(Bundle(d)) = SchemaOf(d)
  BY <1>2, SchemaLoads
<1> QED BY <1>1, <1>2, <1>3, <1>4 DEF Usable

LEMMA PackageTypeSame ==
    ASSUME NEW d, NEW sch, Usable(d, sch)
    PROVE  sch.type[1] = TypeOf(PackageDef) /\ IsPackage(sch.type[1])
<1>1. IsSchema(d) /\ d.types # <<>> /\ d.types[1] = PackageDef /\ sch = SchemaOf(d)
  BY DEF Usable
<1>2. 1 \in DOMAIN d.types
  <2>1. d.types \in Seq(Seq(FieldDef(Len(d.types))))
    BY <1>1 DEF IsSchema
  <2> QED BY <1>1, <2>1
<1>3. sch.type[1] = TypeOf(PackageDef)
  BY <1>1, <1>2 DEF SchemaOf
<1>4. IsPackage(sch.type[1])
  BY <1>1, PackageTypeIs
<1> QED BY <1>3, <1>4

(* A protocol of it, by name. *)
Known(sch, p, name) ==
    /\ p.name = name /\ p.tag \in 0 .. SafeMax /\ name \in NamesOf(sch)
    /\ p.request \in {Null} \cup BodiesOf(sch) /\ p.response \in {Null} \cup BodiesOf(sch)
    /\ p.response \in {Null} \cup (1 .. Len(sch.type))

LEMMA ProtocolKnown ==
    ASSUME NEW d, NEW sch, Usable(d, sch), NEW name \in NamesOf(sch), NEW p, p = ProtoByName(sch, name)
    PROVE  Known(sch, p, name) /\ \E i \in 1 .. Len(d.protos) : p = sch.proto[i] /\ d.protos[i].name = name
<1>1. IsSchema(d) /\ sch = SchemaOf(d) /\ \A i \in DOMAIN d.protos : d.protos[i].tag <= SafeMax
  BY DEF Usable
<1>2. PICK n : n = Len(d.protos)
  OBVIOUS
<1>3. /\ sch.proto \in Seq(Protocol) /\ Len(sch.proto) = n /\ DOMAIN d.protos = 1 .. n /\ n \in Nat
      /\ \A i \in 1 .. n : /\ sch.proto[i].tag = d.protos[i].tag /\ sch.proto[i].tag \in Nat
                           /\ sch.proto[i].name = d.protos[i].name
                           /\ sch.proto[i].request \in {Null} \cup (1 .. Len(d.types))
                           /\ sch.proto[i].response \in {Null} \cup (1 .. Len(d.types))
  BY <1>1, <1>2, ProtosLoaded
<1>4. DOMAIN sch.proto = 1 .. n
  BY <1>3
<1>5. \E i \in 1 .. n : sch.proto[i].name = name
  BY <1>4 DEF NamesOf
<1>6. PICK i \in 1 .. n : p = sch.proto[i] /\ sch.proto[i].name = name
  <2>1. \E i \in 1 .. n : ProtoByName(sch, name) = sch.proto[i] /\ sch.proto[i].name = name
    <3>1. n \in Nat /\ Len(sch.proto) = n
      BY <1>3
    <3> QED BY <1>4, <1>5, <3>1, NameFound
  <2> QED BY <2>1
<1>7. p \in Range(sch.proto)
  BY <1>4, <1>6 DEF Range
<1>8. p.request \in {Null} \cup BodiesOf(sch) /\ p.response \in {Null} \cup BodiesOf(sch)
  BY <1>7 DEF BodiesOf
<1>9. Len(sch.type) = Len(d.types)
  <2>1. d.types \in Seq(Seq(FieldDef(Len(d.types))))
    BY <1>1 DEF IsSchema
  <2>2. DOMAIN d.types = 1 .. Len(d.types) /\ Len(d.types) \in Nat
    BY <2>1
  <2>3. sch.type = [k \in 1 .. Len(d.types) |-> TypeOf(d.types[k])]
    BY <1>1, <2>2 DEF SchemaOf
  <2> QED BY <2>2, <2>3
<1>10. p.tag \in 0 .. SafeMax
  <2>1. p.tag \in Nat /\ p.tag <= SafeMax
    BY <1>1, <1>3, <1>6
  <2> QED BY <2>1, PowerSizes
<1>11. p.response \in {Null} \cup (1 .. Len(sch.type))
  BY <1>3, <1>6, <1>9
<1>12. Known(sch, p, name)
  BY <1>6, <1>8, <1>10, <1>11 DEF Known
<1>13. d.protos[i].name = name
  BY <1>3, <1>6
<1> QED BY <1>2, <1>6, <1>12, <1>13

-----------------------------------------------------------------------------
(* Packages *)

LEMMA PackageUnpacked ==
    ASSUME NEW h, NEW b, NEW raw, Joins(Byte, raw, h, b)
    PROVE  /\ raw \in Seq(Byte) /\ Whole(raw, Pack(raw))
           /\ \E more : Followed(Unpack(Pack(raw)), h, more)
<1>1. raw \in Seq(Byte)
  <2> HIDE DEF Byte
  <2> QED BY Joined
<1>2. Whole(raw, Pack(raw))
  BY <1>1, NothingLostInPacking
<1>3. PICK u : u = Unpack(Pack(raw))
  OBVIOUS
<1>4. PICK z \in Seq(Byte) : u = raw \o z
  BY <1>1, <1>3, UnpackedWhole
<1>5. PICK more : more = b \o z
  OBVIOUS
<1>6. Joins(Byte, more, b, z)
  BY <1>5 DEF Joins
<1>7. raw \o z = h \o more
  <2> HIDE DEF Byte
  <2> QED BY <1>6, Regroup
<1>8. more \in Seq(Byte)
  <2> HIDE DEF Byte
  <2> QED BY <1>6, Joined
<1>9. Followed(u, h, more)
  BY <1>4, <1>7, <1>8 DEF Followed
<1> QED BY <1>1, <1>2, <1>3, <1>9

-----------------------------------------------------------------------------
(* A package is dispatched by its header. *)

Dispatched(r, sch, known, bin) == r = DispatchPackage(sch, known, bin)

LEMMA HeadDispatched ==
    ASSUME NEW sch, NEW known, NEW bin, NEW o, NEW h, ReadAs(DecodeObject(sch, 1, bin), o, h), NEW r, Dispatched(r, sch, known, bin)
    PROVE  \E rest : r = DispatchBody(sch, known, o, rest)
<1>1. PICK d, u : d = DecodeObject(sch, 1, bin) /\ u = [obj |-> o, used |-> Len(h)]
  OBVIOUS
<1>2. d = Done(u)
  BY <1>1 DEF ReadAs
<1>3. d.ok /\ d.val = u /\ u.obj = o
  BY <1>1, <1>2 DEF Done
<1>4. r = DispatchBin(sch, known, bin, d)
  BY <1>1 DEF Dispatched, DispatchPackage
<1>5. r = DispatchBody(sch, known, d.val.obj, Drop(bin, d.val.used))
  BY <1>3, <1>4 DEF DispatchBin
<1> QED BY <1>3, <1>5

LEMMA ResponseBody ==
    ASSUME NEW sch, NEW known, NEW o, DOMAIN o = {"session"}, NEW id, o["session"].v = id, NEW rest, NEW r,
           r = DispatchBody(sch, known, o, rest)
    PROVE  r.kind = "response" /\ r.id = id
<1>1. ~IsRequest(o)
  BY DEF IsRequest
<1>2. "session" \in DOMAIN o /\ SessionOf(o) = id
  BY DEF SessionOf
<1>3. r = DispatchResponse(sch, known, id, rest)
  BY <1>1, <1>2, Zenon DEF DispatchBody
<1>4. r = Recover(id) \/ \E x : r = ResponseOf(id, x)
  BY <1>3 DEF DispatchResponse
<1>5. r = Recover(id) \/ \E x : r = Got("response", Null, id, ArgsOf(x))
  BY <1>4 DEF ResponseOf
<1> QED BY <1>5 DEF Recover, Got

LEMMA RequestBody ==
    ASSUME NEW sch, NEW o, NEW head, NEW rest, NEW p, NEW r, r = DispatchRequest(sch, o, rest, p)
    PROVE  /\ r.kind # "response"
           /\ r.kind = "request" => p # Null /\ r.name = p.name /\ r.id = SessionOf(o)
<1>1. PICK id, c : id = SessionOf(o) /\ c = BodyOf(sch, p.request, rest)
  OBVIOUS
<1>2. r = Undecodable \/ (p # Null /\ r = RequestOf(p.name, id, c))
  BY <1>1 DEF DispatchRequest
<1>3. r = Undecodable \/ (p # Null /\ r = Got("request", p.name, id, ArgsOf(c)))
  BY <1>2 DEF RequestOf
<1>4. CASE r = Undecodable
  <2>1. r.kind = "null"
    BY <1>4 DEF Undecodable, Got
  <2> QED BY <2>1
<1>5. CASE p # Null /\ r = Got("request", p.name, id, ArgsOf(c))
  <2>1. r.kind = "request" /\ r.name = p.name /\ r.id = id
    BY <1>5 DEF Got
  <2> QED BY <1>1, <1>5, <2>1
<1> QED BY <1>3, <1>4, <1>5

LEMMA PushBody ==
    ASSUME NEW sch, NEW known, NEW o, DOMAIN o = {"type"}, NEW rest, NEW r, r = DispatchBody(sch, known, o, rest)
    PROVE  r.kind # "response"
<1>1. CASE IsRequest(o)
  <2>1. PICK p : p = QueryProto(sch, o["type"].v)
    OBVIOUS
  <2>2. r = DispatchRequest(sch, o, rest, p)
    BY <1>1, <2>1, Zenon DEF DispatchBody
  <2> QED BY <2>2, RequestBody
<1>2. CASE ~IsRequest(o)
  <2>1. "session" \notin DOMAIN o
    OBVIOUS
  <2>2. r = Undecodable
    BY <1>2, <2>1, Zenon DEF DispatchBody
  <2>3. r.kind = "null"
    BY <2>2 DEF Undecodable, Got
  <2> QED BY <2>3
<1> QED BY <1>1, <1>2

LEMMA CallBody ==
    ASSUME NEW sch, NEW known, NEW o, DOMAIN o = {"type", "session"}, NEW tag, o["type"].v = tag,
           NEW id, o["session"].v = id, NEW rest, NEW r, r = DispatchBody(sch, known, o, rest)
    PROVE  r.kind = "request" => \E p : p = QueryProto(sch, tag) /\ p # Null /\ r.name = p.name /\ r.id = id
<1>1. SessionOf(o) = id
  BY DEF SessionOf
<1>2. CASE IsRequest(o)
  <2>1. PICK p : p = QueryProto(sch, tag)
    OBVIOUS
  <2>2. r = DispatchRequest(sch, o, rest, p)
    BY <1>2, <2>1, Zenon DEF DispatchBody
  <2>3. r.kind = "request" => p # Null /\ r.name = p.name /\ r.id = id
    BY <1>1, <2>2, RequestBody
  <2> QED BY <2>1, <2>3
<1>3. CASE ~IsRequest(o)
  <2>1. "session" \in DOMAIN o
    OBVIOUS
  <2>2. r = DispatchResponse(sch, known, id, rest)
    BY <1>1, <1>3, <2>1, Zenon DEF DispatchBody
  <2>3. r = Recover(id) \/ \E x : r = ResponseOf(id, x)
    BY <2>2 DEF DispatchResponse
  <2>4. r = Recover(id) \/ \E x : r = Got("response", Null, id, ArgsOf(x))
    BY <2>3 DEF ResponseOf
  <2>5. r.kind = "response"
    BY <2>4 DEF Recover, Got
  <2> QED BY <2>5
<1> QED BY <1>2, <1>3

-----------------------------------------------------------------------------
(* The two ends, and the packages they make. *)

LEMMA HeadTyped ==
    ASSUME NEW h, NEW ws, NEW data, Headed(h, ws, data)
    PROVE  h \in Seq(Byte)
<1>1. PICK more, bin : more = <<>> /\ bin = h \o more
  OBVIOUS
<1>2. Followed(bin, h, more)
  BY <1>1 DEF Followed
<1>3. \E p, a, b, r : HeadPart(bin, ws, p, a, b, r) /\ Joins(Byte, r, data, more) /\ Joins(Byte, bin, h, more)
  BY <1>2, HeaderParts
<1> QED BY <1>3 DEF Joins

LEMMA HeadsTyped ==
    ASSUME NEW t, NEW h, NEW tag, NEW id, PushHead(t, h, tag) \/ ResponseHead(t, h, id) \/ RequestHead(t, h, tag, id)
    PROVE  h \in Seq(Byte)
<1>1. \E ws, data : Headed(h, ws, data)
  BY DEF PushHead, ResponseHead, RequestHead
<1> QED BY <1>1, HeadTyped

Ends == /\ env \in Cases
        /\ sp = [client |-> SchemaOf(Schemas[env.client]), server |-> SchemaOf(Schemas[env.server])]

LEMMA EndsUsable ==
    ASSUME Ends
    PROVE  /\ Usable(Schemas[env.client], Client) /\ Usable(Schemas[env.server], Server)
           /\ Client.type[1] = Server.type[1] /\ IsPackage(Client.type[1])
           /\ \A sch \in {Client, Server} : \A body \in BodiesOf(sch) : EncodeBody(sch, body, env.obj) \in Seq(Byte)
           /\ \A p \in Range(Schemas[env.client].protos), q \in Range(Schemas[env.server].protos) :
                p.tag = q.tag => p.name = q.name
<1>1. /\ env \in Cases
      /\ Client = SchemaOf(Schemas[env.client]) /\ Server = SchemaOf(Schemas[env.server])
  BY DEF Ends, Client, Server
<1>2. /\ env.client \in DOMAIN Schemas /\ env.server \in DOMAIN Schemas
      /\ \A p \in Range(Schemas[env.client].protos), q \in Range(Schemas[env.server].protos) :
           p.tag = q.tag => p.name = q.name
      /\ \A s \in {env.client, env.server} :
           \A body \in BodiesOf(CreateNew(Bundle(Schemas[s]))) :
             EncodeBody(CreateNew(Bundle(Schemas[s])), body, env.obj) \in Seq(Byte)
  BY <1>1, RpcAssumption
<1>3. /\ Usable(Schemas[env.client], Client) /\ CreateNew(Bundle(Schemas[env.client])) = Client
      /\ Usable(Schemas[env.server], Server) /\ CreateNew(Bundle(Schemas[env.server])) = Server
  BY <1>1, <1>2, SchemaUsable
<1>4. Client.type[1] = Server.type[1] /\ IsPackage(Client.type[1])
  BY <1>3, PackageTypeSame
<1>5. \A sch \in {Client, Server} : \A body \in BodiesOf(sch) : EncodeBody(sch, body, env.obj) \in Seq(Byte)
  BY <1>2, <1>3
<1> QED BY <1>2, <1>3, <1>4, <1>5

LEMMA NumbersNotNull == \A n \in 0 .. SafeMax : n # Null /\ n \in Nat /\ n \in Int
<1>1. Null \notin Int
  BY NullAssumption
<1>2. SafeMax \in Nat
  BY PowerSizes
<1> QED BY <1>1, <1>2

(* What is packed and what of it is unpacked. *)
Sound(f) == f.raw \in Seq(Byte) /\ f.bytes = Pack(f.raw) /\ Whole(f.raw, f.bytes)
Framed(f, sch, kind, name, tag, id, body) == f = Frame(kind, name, id, PackageOf(sch, tag, id, body))

LEMMA FrameSound ==
    ASSUME Ends, NEW sch \in {Client, Server}, NEW kind, NEW name, NEW tag, NEW id, NEW body \in {Null} \cup BodiesOf(sch),
           NEW h, h = EncodeHeader(sch, tag, id), h \in Seq(Byte), NEW f, Framed(f, sch, kind, name, tag, id, body)
    PROVE  /\ Sound(f) /\ f.kind = kind /\ f.name = name /\ f.id = id
           /\ \E more : Followed(Unpack(f.bytes), h, more)
<1>1. PICK b : b = IF body = Null THEN <<>> ELSE EncodeBody(sch, body, env.obj)
  OBVIOUS
<1>2. b \in Seq(Byte)
  <2>1. CASE body = Null
    <3>1. b = <<>>
      BY <1>1, <2>1
    <3> QED BY <3>1
  <2>2. CASE body # Null
    <3>1. body \in BodiesOf(sch)
      BY <2>2
    <3>2. b = EncodeBody(sch, body, env.obj)
      BY <1>1, <2>2
    <3> QED BY <3>1, <3>2, EndsUsable
  <2> QED BY <2>1, <2>2
<1>3. PICK raw : raw = PackageOf(sch, tag, id, body)
  OBVIOUS
<1>4. raw = h \o b
  BY <1>1, <1>3 DEF PackageOf
<1>5. Joins(Byte, raw, h, b)
  BY <1>2, <1>4 DEF Joins
<1>6. /\ raw \in Seq(Byte) /\ Whole(raw, Pack(raw))
      /\ \E more : Followed(Unpack(Pack(raw)), h, more)
  BY <1>5, PackageUnpacked
<1>7. f = [kind |-> kind, name |-> name, id |-> id, raw |-> raw, bytes |-> Pack(raw)]
  BY <1>3 DEF Framed, Frame
<1> QED BY <1>6, <1>7 DEF Sound

-----------------------------------------------------------------------------
(* What the client makes of what the server sends, and the server of a        *)
(* request.                                                                   *)
Heeds(sch, f) ==
    /\ Sound(f)
    /\ \/ /\ f.kind = "response"
          /\ \A known, r : Dispatched(r, sch, known, Unpack(f.bytes)) => r.kind = "response" /\ r.id = f.id
       \/ /\ f.kind = "push"
          /\ \A known, r : Dispatched(r, sch, known, Unpack(f.bytes)) => r.kind # "response"

Serves(sch, f) ==
    /\ Sound(f) /\ f.kind = "request"
    /\ \A r : Dispatched(r, sch, Nothing, Unpack(f.bytes)) /\ r.kind = "request"
                => r.id = f.id /\ r.name = f.name /\ f.name \in NamesOf(sch)

(* A response that the server sends is dispatched by the client as a response, *)
(* with the same session, whatever its content and whether or not a type for   *)
(* it is known (host.dispatch, recoverDispatch).                               *)
THEOREM ResponseHeeded ==
    ASSUME Ends, NEW name \in NamesOf(Server), NEW id \in 0 .. SafeMax, NEW f, f = ResponseFrame(name, id)
    PROVE  Heeds(Client, f) /\ f.kind = "response" /\ f.name = name /\ f.id = id
<1>1. PICK p, h, t : p = ProtoByName(Server, name) /\ h = EncodeHeader(Server, Null, id) /\ t = Client.type[1]
  OBVIOUS
<1>2. t = Server.type[1] /\ IsPackage(t)
  BY <1>1, EndsUsable
<1>3. Known(Server, p, name)
  <2>1. Usable(Schemas[env.server], Server)
    BY EndsUsable
  <2> QED BY <1>1, <2>1, ProtocolKnown
<1>4. ResponseHead(t, h, id)
  <2>1. id # Null
    BY NumbersNotNull
  <2>2. PICK tag, i : tag = Null /\ i = id
    OBVIOUS
  <2>3. tag \in {Null} \cup (0 .. SafeMax) /\ i \in {Null} \cup (0 .. SafeMax) /\ h = EncodeHeader(Server, tag, i)
    BY <1>1, <2>2
  <2>4. tag = Null /\ i # Null => ResponseHead(t, h, i)
    BY <1>2, <2>3, HeaderWritten
  <2> QED BY <2>1, <2>2, <2>4
<1>5. h \in Seq(Byte)
  BY <1>4, HeadsTyped
<1>6. Framed(f, Server, "response", name, Null, id, p.response) /\ p.response \in {Null} \cup BodiesOf(Server)
  BY <1>1, <1>3 DEF ResponseFrame, Framed, Known
<1>7. /\ Sound(f) /\ f.kind = "response" /\ f.name = name /\ f.id = id
      /\ \E more : Followed(Unpack(f.bytes), h, more)
  BY <1>1, <1>5, <1>6, FrameSound
<1>8. PICK more, bin : bin = Unpack(f.bytes) /\ Followed(bin, h, more)
  BY <1>7
<1>9. PICK o : ReadAs(DecodeObject(Client, 1, bin), o, h) /\ DOMAIN o = {"session"} /\ o["session"].v = id
  <2>1. PICK sch : sch = Client
    OBVIOUS
  <2>2. TypeOne(sch, t) /\ Followed(bin, h, more)
    BY <1>1, <1>2, <1>8, <2>1 DEF TypeOne
  <2>3. \E o : ReadAs(DecodeObject(sch, 1, bin), o, h) /\ DOMAIN o = {"session"} /\ o["session"].v = id
    BY <1>4, <2>2, ResponseRead
  <2> QED BY <2>1, <2>3
<1>10. ASSUME NEW known, NEW r, Dispatched(r, Client, known, bin) PROVE r.kind = "response" /\ r.id = id
  <2>1. PICK rest : r = DispatchBody(Client, known, o, rest)
    BY <1>9, <1>10, HeadDispatched
  <2> QED BY <1>9, <2>1, ResponseBody
<1> QED BY <1>7, <1>8, <1>10 DEF Heeds

LEMMA PushHeeded ==
    ASSUME Ends, NEW name \in NamesOf(Server), NEW f, f = RequestFrame(Server, "push", name, Null)
    PROVE  Heeds(Client, f) /\ f.kind = "push" /\ f.name = name /\ f.id = Null
<1>1. PICK p, tag, h, t : p = ProtoByName(Server, name) /\ tag = p.tag /\ h = EncodeHeader(Server, tag, Null) /\ t = Client.type[1]
  OBVIOUS
<1>2. t = Server.type[1] /\ IsPackage(t)
  BY <1>1, EndsUsable
<1>3. Known(Server, p, name)
  <2>1. Usable(Schemas[env.server], Server)
    BY EndsUsable
  <2> QED BY <1>1, <2>1, ProtocolKnown
<1>4. PushHead(t, h, tag)
  <2>1. tag \in 0 .. SafeMax /\ tag # Null
    BY <1>1, <1>3, NumbersNotNull DEF Known
  <2>2. PICK i : i = Null
    OBVIOUS
  <2>3. tag \in {Null} \cup (0 .. SafeMax) /\ i \in {Null} \cup (0 .. SafeMax) /\ h = EncodeHeader(Server, tag, i)
    BY <1>1, <2>1, <2>2
  <2>4. tag # Null /\ i = Null => PushHead(t, h, tag)
    BY <1>2, <2>3, HeaderWritten
  <2> QED BY <2>1, <2>2, <2>4
<1>5. h \in Seq(Byte)
  BY <1>4, HeadsTyped
<1>6. Framed(f, Server, "push", name, tag, Null, p.request) /\ p.request \in {Null} \cup BodiesOf(Server)
  BY <1>1, <1>3 DEF RequestFrame, Framed, Known
<1>7. /\ Sound(f) /\ f.kind = "push" /\ f.name = name /\ f.id = Null
      /\ \E more : Followed(Unpack(f.bytes), h, more)
  BY <1>1, <1>5, <1>6, FrameSound
<1>8. PICK more, bin : bin = Unpack(f.bytes) /\ Followed(bin, h, more)
  BY <1>7
<1>9. PICK o : ReadAs(DecodeObject(Client, 1, bin), o, h) /\ DOMAIN o = {"type"} /\ o["type"].v = tag
  <2>1. PICK sch : sch = Client
    OBVIOUS
  <2>2. TypeOne(sch, t) /\ Followed(bin, h, more)
    BY <1>1, <1>2, <1>8, <2>1 DEF TypeOne
  <2>3. \E o : ReadAs(DecodeObject(sch, 1, bin), o, h) /\ DOMAIN o = {"type"} /\ o["type"].v = tag
    BY <1>4, <2>2, PushRead
  <2> QED BY <2>1, <2>3
<1>10. ASSUME NEW known, NEW r, Dispatched(r, Client, known, bin) PROVE r.kind # "response"
  <2>1. PICK rest : r = DispatchBody(Client, known, o, rest)
    BY <1>9, <1>10, HeadDispatched
  <2> QED BY <1>9, <2>1, PushBody
<1> QED BY <1>7, <1>8, <1>10 DEF Heeds

(* A request that the client sends is dispatched by the server as a request of *)
(* the same protocol and session, or not as a request at all, whichever        *)
(* versions of the schema the two have loaded (host.attach, host.dispatch).    *)
THEOREM RequestServed ==
    ASSUME Ends, NEW name \in NamesOf(Client), NEW id \in 0 .. SafeMax, NEW f, f = RequestFrame(Client, "request", name, id)
    PROVE  Serves(Server, f) /\ f.kind = "request" /\ f.name = name /\ f.id = id
<1>1. PICK p, tag, h, t : p = ProtoByName(Client, name) /\ tag = p.tag /\ h = EncodeHeader(Client, tag, id) /\ t = Server.type[1]
  OBVIOUS
<1>2. t = Client.type[1] /\ IsPackage(t)
  BY <1>1, EndsUsable
<1>3. PICK d, e : /\ d = Schemas[env.client] /\ e = Schemas[env.server] /\ Usable(d, Client) /\ Usable(e, Server)
                  /\ \A x \in Range(d.protos), y \in Range(e.protos) : x.tag = y.tag => x.name = y.name
  BY EndsUsable
<1>4. Known(Client, p, name) /\ \E i \in 1 .. Len(d.protos) : p = Client.proto[i] /\ d.protos[i].name = name
  BY <1>1, <1>3, ProtocolKnown
<1>5. tag \in 0 .. SafeMax /\ tag # Null /\ id # Null /\ tag \in Int
  BY <1>1, <1>4, NumbersNotNull DEF Known
<1>6. RequestHead(t, h, tag, id)
  <2>1. tag \in {Null} \cup (0 .. SafeMax) /\ id \in {Null} \cup (0 .. SafeMax)
    BY <1>5
  <2>2. tag # Null /\ id # Null => RequestHead(t, h, tag, id)
    BY <1>1, <1>2, <2>1, HeaderWritten
  <2> QED BY <1>5, <2>2
<1>7. h \in Seq(Byte)
  BY <1>6, HeadsTyped
<1>8. Framed(f, Client, "request", name, tag, id, p.request) /\ p.request \in {Null} \cup BodiesOf(Client)
  BY <1>1, <1>4 DEF RequestFrame, Framed, Known
<1>9. /\ Sound(f) /\ f.kind = "request" /\ f.name = name /\ f.id = id
      /\ \E more : Followed(Unpack(f.bytes), h, more)
  BY <1>1, <1>7, <1>8, FrameSound
<1>10. PICK more, bin : bin = Unpack(f.bytes) /\ Followed(bin, h, more)
  BY <1>9
<1>11. PICK o : (ReadAs(DecodeObject(Server, 1, bin), o, h) /\ DOMAIN o = {"type", "session"} /\ o["type"].v = tag /\ o["session"].v = id)
  <2>1. PICK sch : sch = Server
    OBVIOUS
  <2>2. TypeOne(sch, t) /\ Followed(bin, h, more)
    BY <1>1, <1>2, <1>10, <2>1 DEF TypeOne
  <2>3. \E o : (ReadAs(DecodeObject(sch, 1, bin), o, h) /\ DOMAIN o = {"type", "session"} /\ o["type"].v = tag /\ o["session"].v = id)
    BY <1>6, <2>2, RequestRead
  <2> QED BY <2>1, <2>3
<1>12. ASSUME NEW r, Dispatched(r, Server, Nothing, bin), r.kind = "request"
       PROVE  r.id = id /\ r.name = name /\ name \in NamesOf(Server)
  <2>1. PICK known : known = Nothing
    OBVIOUS
  <2>2. PICK rest : r = DispatchBody(Server, known, o, rest)
    <3>1. Dispatched(r, Server, known, bin)
      BY <1>12, <2>1
    <3> QED BY <1>11, <3>1, HeadDispatched
  <2>3. PICK q : q = QueryProto(Server, tag) /\ q # Null /\ r.name = q.name /\ r.id = id
    BY <1>11, <1>12, <2>2, CallBody
  <2>4. IsSchema(d) /\ IsSchema(e) /\ Client = SchemaOf(d) /\ Server = SchemaOf(e)
    BY <1>3 DEF Usable
  <2>5. PICK j \in 1 .. Len(e.protos) : q = Server.proto[j] /\ q.tag = tag
    BY <1>5, <2>3, <2>4, ProtocolQueried
  <2>6. PICK i \in 1 .. Len(d.protos) : p = Client.proto[i] /\ d.protos[i].name = name
    BY <1>4
  <2>7. e.protos[j].tag = tag /\ e.protos[j].name = q.name /\ j \in DOMAIN e.protos /\ j \in DOMAIN Server.proto
    <3>1. /\ DOMAIN e.protos = 1 .. Len(e.protos) /\ Server.proto \in Seq(Protocol) /\ Len(Server.proto) = Len(e.protos)
          /\ \A k \in 1 .. Len(e.protos) : Server.proto[k].tag = e.protos[k].tag /\ Server.proto[k].name = e.protos[k].name
      BY <2>4, ProtosLoaded
    <3> QED BY <2>5, <3>1
  <2>8. d.protos[i].tag = tag /\ i \in DOMAIN d.protos
    <3>1. /\ DOMAIN d.protos = 1 .. Len(d.protos)
          /\ \A k \in 1 .. Len(d.protos) : Client.proto[k].tag = d.protos[k].tag
      BY <2>4, ProtosLoaded
    <3> QED BY <1>1, <2>6, <3>1
  <2>9. PICK x, y : x = d.protos[i] /\ y = e.protos[j] /\ x \in Range(d.protos) /\ y \in Range(e.protos)
    BY <2>7, <2>8 DEF Range
  <2>10. q.name = name
    BY <1>3, <2>6, <2>7, <2>8, <2>9
  <2>11. q.name \in NamesOf(Server)
    BY <2>5, <2>7 DEF NamesOf
  <2> QED BY <2>3, <2>10, <2>11
<1> QED BY <1>9, <1>10, <1>12 DEF Serves

-----------------------------------------------------------------------------
(* Counting packages. *)

Counted(s) == {i \in DOMAIN s : IsCounted(s[i])}

LEMMA CountedTyped ==
    ASSUME NEW S, NEW s \in Seq(S)
    PROVE  /\ IsFiniteSet(Counted(s)) /\ Cardinality(Counted(s)) \in Nat /\ Counted(s) \subseteq 1 .. Len(s) /\ Len(s) \in Nat
<1>1. Counted(s) \subseteq 1 .. Len(s) /\ Len(s) \in Nat
  BY DEF Counted
<1>2. IsFiniteSet(1 .. Len(s))
  <2>1. 1 \in Int /\ Len(s) \in Int
    BY <1>1
  <2> QED BY <2>1, FS_Interval
<1>3. IsFiniteSet(Counted(s))
  BY <1>1, <1>2, FS_Subset
<1>4. Cardinality(Counted(s)) \in Nat
  BY <1>3, FS_CardinalityType
<1> QED BY <1>1, <1>3, <1>4

LEMMA CountedAppended ==
    ASSUME NEW S, NEW s \in Seq(S), NEW f \in S, NEW t, t = Append(s, f)
    PROVE  Cardinality(Counted(t)) = Cardinality(Counted(s)) + IF IsCounted(f) THEN 1 ELSE 0
<1>1. PICK n : n = Len(s) + 1 /\ n \in Nat
  OBVIOUS
<1>2. DOMAIN t = (1 .. Len(s)) \cup {n} /\ t[n] = f /\ DOMAIN s = 1 .. Len(s) /\ \A i \in 1 .. Len(s) : t[i] = s[i]
  BY <1>1
<1>3. Counted(t) = Counted(s) \cup (IF IsCounted(f) THEN {n} ELSE {})
  BY <1>2 DEF Counted
<1>4. n \notin Counted(s) /\ IsFiniteSet(Counted(s)) /\ Cardinality(Counted(s)) \in Nat
  <2>1. Counted(s) \subseteq 1 .. Len(s)
    BY CountedTyped
  <2>2. n \notin 1 .. Len(s)
    BY <1>1
  <2> QED BY <2>1, <2>2, CountedTyped
<1>5. CASE IsCounted(f)
  <2>1. Counted(t) = Counted(s) \cup {n}
    BY <1>3, <1>5
  <2>2. Cardinality(Counted(s) \cup {n}) = Cardinality(Counted(s)) + 1
    BY <1>4, FS_AddElement
  <2> QED BY <1>5, <2>1, <2>2
<1>6. CASE ~IsCounted(f)
  <2>1. Counted(t) = Counted(s)
    BY <1>3, <1>6
  <2> QED BY <1>4, <1>6, <2>1
<1> QED BY <1>5, <1>6

LEMMA CountedTail ==
    ASSUME NEW S, NEW s \in Seq(S), s # <<>>, NEW t, t = Tail(s)
    PROVE  Cardinality(Counted(s)) = Cardinality(Counted(t)) + IF IsCounted(s[1]) THEN 1 ELSE 0
<1>1. t \in Seq(S) /\ DOMAIN s = 1 .. Len(s) /\ Len(s) \in Nat /\ Len(s) > 0 /\ DOMAIN t = 1 .. Len(s) - 1
      /\ \A i \in 1 .. Len(s) - 1 : t[i] = s[i + 1]
  OBVIOUS
<1>2. PICK A, B, g : A = Counted(t) /\ B = Counted(s) \ {1} /\ g = [i \in A |-> i + 1]
  OBVIOUS
<1>3. \A i \in A : i \in Nat /\ i \in 1 .. Len(s) - 1 /\ i + 1 \in B
  <2>1. ASSUME NEW i \in A PROVE i \in Nat /\ i \in 1 .. Len(s) - 1 /\ i + 1 \in B
    <3>1. i \in 1 .. Len(s) - 1 /\ IsCounted(t[i])
      BY <1>1, <1>2 DEF Counted
    <3>2. i + 1 \in 1 .. Len(s) /\ i + 1 # 1 /\ i \in Nat /\ t[i] = s[i + 1]
      BY <1>1, <3>1
    <3>3. i + 1 \in Counted(s)
      BY <1>1, <3>1, <3>2 DEF Counted
    <3> QED BY <1>2, <3>1, <3>2, <3>3
  <2> QED BY <2>1
<1>4. \A j \in B : \E i \in A : g[i] = j
  <2>1. ASSUME NEW j \in B PROVE \E i \in A : g[i] = j
    <3>1. j \in 1 .. Len(s) /\ j # 1 /\ IsCounted(s[j])
      BY <1>1, <1>2 DEF Counted
    <3>2. PICK i : i = j - 1 /\ i \in 1 .. Len(s) - 1 /\ i + 1 = j
      BY <1>1, <3>1
    <3>3. t[i] = s[j]
      BY <1>1, <3>2
    <3>4. i \in A
      BY <1>1, <1>2, <3>1, <3>2, <3>3 DEF Counted
    <3> QED BY <1>2, <3>2, <3>4
  <2> QED BY <2>1
<1>5. g \in [A -> B]
  BY <1>2, <1>3
<1>6. \A i, j \in A : g[i] = g[j] => i = j
  BY <1>2, <1>3
<1>7. g \in Bijection(A, B)
  <2>1. g \in Injection(A, B)
    BY <1>5, <1>6 DEF Injection, IsInjective
  <2>2. g \in Surjection(A, B)
    BY <1>4, <1>5 DEF Surjection
  <2> QED BY <2>1, <2>2 DEF Bijection
<1>8. IsFiniteSet(A)
  BY <1>1, <1>2, CountedTyped
<1>9. Cardinality(B) = Cardinality(A)
  <2>1. ExistsBijection(A, B)
    BY <1>7 DEF ExistsBijection
  <2> QED BY <1>8, <2>1, FS_Bijection
<1>10. IsFiniteSet(Counted(s)) /\ Cardinality(Counted(s)) \in Nat
  BY CountedTyped
<1>11. 1 \in Counted(s) <=> IsCounted(s[1])
  <2>1. 1 \in 1 .. Len(s)
    BY <1>1
  <2> QED BY <1>1, <2>1 DEF Counted
<1>12. Cardinality(B) = IF 1 \in Counted(s) THEN Cardinality(Counted(s)) - 1 ELSE Cardinality(Counted(s))
  BY <1>2, <1>10, FS_RemoveElement
<1> QED BY <1>2, <1>9, <1>10, <1>11, <1>12

LEMMA ReplayedLoop ==
    ASSUME NEW F, NEW s \in Seq(F), NEW C, C = {f \in F : IsCounted(f)}
    PROVE  \E u \in [0 .. Len(s) -> Seq(C)] :
              /\ u[0] = <<>>
              /\ \A k \in 1 .. Len(s) : \A v \in 0 .. Len(s) : v + 1 = k => u[k] = (IF IsCounted(s[k]) THEN Append(u[v], s[k]) ELSE u[v])
              /\ Replayed(s) = u[Len(s)]
<1> DEFINE n == Len(s)
           X == Seq(C)
           x0 == <<>>
           S(k, x) == (IF IsCounted(s[k]) THEN Append(x, s[k]) ELSE x)
           Eq(f) == f = [k \in 0 .. n |-> IF k = 0 THEN x0 ELSE S(k, f[k - 1])]
           step == [k \in 1 .. n |-> [x \in X |-> S(k, x)]]
<1>1. n \in Nat /\ x0 \in X
  OBVIOUS
<1>2. ASSUME NEW k \in 1 .. n, NEW x \in X PROVE S(k, x) \in X
  <2>1. s[k] \in F
    OBVIOUS
  <2>2. IsCounted(s[k]) => s[k] \in C
    BY <2>1
  <2> QED BY <2>2
<1>3. \E f : Eq(f)
  <2> HIDE DEF n, X, x0, S
  <2>1. ASSUME NEW k \in 1 .. n, NEW x \in X PROVE step[k][x] \in X
    BY <1>2
  <2>2. PICK f \in [0 .. n -> X] : Iterates(f, n, x0, step)
    <3> HIDE DEF step
    <3> QED BY <1>1, <2>1, IterationExists
  <2>3. ASSUME NEW k \in 0 .. n, k # 0 PROVE step[k][f[k - 1]] = S(k, f[k - 1])
    <3>1. PICK v : v = k - 1 /\ v \in 0 .. n /\ k \in 1 .. n
      BY <1>1, <2>3
    <3>2. step[k][f[v]] = S(k, f[v])
      BY <2>2, <3>1
    <3> QED BY <3>1, <3>2
  <2> HIDE DEF step
  <2>4. f = [k \in 0 .. n |-> IF k = 0 THEN x0 ELSE step[k][f[k - 1]]]
    BY <2>2 DEF Iterates
  <2>5. [k \in 0 .. n |-> IF k = 0 THEN x0 ELSE step[k][f[k - 1]]]
            = [k \in 0 .. n |-> IF k = 0 THEN x0 ELSE S(k, f[k - 1])]
    BY <2>3
  <2>6. Eq(f)
    BY <2>4, <2>5
  <2> QED BY <2>6
<1>4. PICK u : u = CHOOSE f : Eq(f)
  OBVIOUS
<1>5. Replayed(s) = u[Len(s)]
  BY <1>4 DEF Replayed
<1>6. Eq(u)
  <2> HIDE DEF Eq
  <2> QED BY <1>3, <1>4
<1> HIDE DEF n, X, x0, S
<1>7. u[0] = x0
  <2>1. 0 \in 0 .. n
    BY <1>1
  <2> QED BY <1>6, <2>1
<1>8. ASSUME NEW k \in 1 .. n, NEW v \in 0 .. n, v + 1 = k PROVE u[k] = S(k, u[v])
  <2>1. k \in 0 .. n /\ k # 0 /\ v = k - 1
    BY <1>1, <1>8
  <2>2. u[k] = S(k, u[k - 1])
    BY <1>6, <2>1
  <2> QED BY <2>1, <2>2
<1> DEFINE T == {k \in 0 .. n : u[k] \in X}
<1>9. 0 \in T
  BY <1>1, <1>7
<1>10. ASSUME NEW k \in 1 .. n, k - 1 \in T PROVE k \in T
  <2>1. PICK v : v = k - 1 /\ v \in 0 .. n /\ v + 1 = k
    BY <1>1
  <2>2. u[v] \in X
    BY <1>10, <2>1
  <2>3. u[k] \in X
    BY <1>2, <1>8, <2>1, <2>2
  <2> QED BY <2>3
<1>11. u \in [0 .. n -> X]
  <2>1. 0 .. n \subseteq T
    <3> HIDE DEF T
    <3> QED BY <1>1, <1>9, <1>10, Upwards
  <2>2. \A k \in 0 .. n : u[k] \in X
    BY <2>1
  <2>3. u = [k \in 0 .. n |-> u[k]]
    BY <1>6
  <2> QED BY <2>2, <2>3
<1> USE DEF S
<1>12. \A k \in 1 .. n : \A v \in 0 .. n : v + 1 = k => u[k] = (IF IsCounted(s[k]) THEN Append(u[v], s[k]) ELSE u[v])
  BY <1>8
<1> QED BY <1>5, <1>7, <1>11, <1>12 DEF n, X, x0

LEMMA ReplayedCounts ==
    ASSUME NEW S, NEW s \in Seq(S), NEW C, C = {f \in S : IsCounted(f)}, NEW t, t = Replayed(s)
    PROVE  t \in Seq(C) /\ Cardinality(Counted(t)) = Cardinality(Counted(s))
<1>1. PICK n : n = Len(s) /\ n \in Nat /\ DOMAIN s = 1 .. n
  OBVIOUS
<1>2. PICK u \in [0 .. n -> Seq(C)] :
         /\ u[0] = <<>>
         /\ \A k \in 1 .. n : \A v \in 0 .. n : v + 1 = k => u[k] = (IF IsCounted(s[k]) THEN Append(u[v], s[k]) ELSE u[v])
         /\ t = u[n]
  BY <1>1, ReplayedLoop
<1>3. t \in Seq(C)
  BY <1>1, <1>2
<1> DEFINE Upto(k) == {i \in 1 .. k : IsCounted(s[i])}
           T == {k \in 0 .. n : Len(u[k]) = Cardinality(Upto(k)) /\ IsFiniteSet(Upto(k))}
<1>4. 0 \in T
  <2>1. Upto(0) = {}
    OBVIOUS
  <2>2. Len(u[0]) = 0
    BY <1>2
  <2> QED BY <1>1, <2>1, <2>2, FS_EmptySet
<1>5. ASSUME NEW k \in 1 .. n, k - 1 \in T PROVE k \in T
  <2>1. PICK v : v = k - 1 /\ v \in 0 .. n /\ v + 1 = k /\ v \in Nat
    BY <1>1
  <2>2. Len(u[v]) = Cardinality(Upto(v)) /\ IsFiniteSet(Upto(v)) /\ u[v] \in Seq(C)
    BY <1>2, <1>5, <2>1
  <2>3. Upto(k) = Upto(v) \cup (IF IsCounted(s[k]) THEN {k} ELSE {})
    <3>1. 1 .. k = (1 .. v) \cup {k}
      BY <2>1
    <3> QED BY <3>1
  <2>4. k \notin Upto(v)
    BY <2>1
  <2>5. s[k] \in S
    BY <1>1
  <2> HIDE DEF Upto
  <2>6. CASE IsCounted(s[k])
    <3>1. u[k] = Append(u[v], s[k])
      BY <1>2, <2>1, <2>6
    <3>2. Len(u[k]) = Len(u[v]) + 1
      BY <2>2, <3>1
    <3>3. Upto(k) = Upto(v) \cup {k}
      BY <2>3, <2>6
    <3>4. Cardinality(Upto(k)) = Cardinality(Upto(v)) + 1 /\ IsFiniteSet(Upto(k))
      BY <2>2, <2>4, <3>3, FS_AddElement
    <3> QED BY <1>1, <2>2, <3>2, <3>4
  <2>7. CASE ~IsCounted(s[k])
    <3>1. u[k] = u[v] /\ Upto(k) = Upto(v)
      BY <1>2, <2>1, <2>3, <2>7
    <3> QED BY <1>1, <2>2, <3>1
  <2> QED BY <2>6, <2>7
<1>6. n \in T
  <2>1. 0 .. n \subseteq T
    <3> HIDE DEF T
    <3> QED BY <1>1, <1>4, <1>5, Upwards
  <2> HIDE DEF T
  <2> QED BY <1>1, <2>1
<1>7. Len(t) = Cardinality(Upto(n))
  BY <1>2, <1>6
<1>8. Upto(n) = Counted(s)
  BY <1>1 DEF Counted
<1>9. Counted(t) = 1 .. Len(t)
  <2>1. DOMAIN t = 1 .. Len(t) /\ \A i \in 1 .. Len(t) : t[i] \in C
    BY <1>3
  <2> QED BY <2>1 DEF Counted
<1>10. Cardinality(Counted(t)) = Len(t)
  <2>1. Len(t) \in Nat
    BY <1>3
  <2>2. Cardinality(1 .. Len(t)) = IF 1 > Len(t) THEN 0 ELSE Len(t) - 1 + 1
    <3>1. 1 \in Int /\ Len(t) \in Int
      BY <2>1
    <3> QED BY <3>1, FS_Interval
  <2> QED BY <1>9, <2>1, <2>2
<1> QED BY <1>3, <1>7, <1>8, <1>10

-----------------------------------------------------------------------------
(* The invariant. *)

Answerable == {id \in DOMAIN calls : calls[id] \in NamesOf(Server)}

Issued == /\ \E k \in 0 .. MaxCalls : DOMAIN calls = FirstId + 1 .. FirstId + k
          /\ \A id \in DOMAIN calls : calls[id] \in NamesOf(Client)

ResponseTypes == {Confirm} \cup (1 .. Len(Client.type))
Expected == /\ DOMAIN types \subseteq DOMAIN calls /\ pending \subseteq DOMAIN calls
            /\ \A id \in DOMAIN types : types[id] \in ResponseTypes

Executing == /\ todo \subseteq Answerable /\ cache \subseteq Answerable
             /\ \A id \in cache : calls[id] \notin Uncounted

Asks(f) == Serves(Server, f) /\ f.id \in DOMAIN calls /\ f.name = calls[f.id]
Tells(f) == Heeds(Client, f) /\ (f.kind = "response" => f.id \in DOMAIN calls /\ f.name = calls[f.id])
OnTheWay == /\ \E S : up \in Seq(S) /\ \A f \in S : Asks(f)
            /\ \E S : down \in Seq(S) /\ \A f \in S : Tells(f)

(* A request of the handshake is under way, being executed or answered, one   *)
(* of the three and once, and the client is waiting for it.                   *)
AskedAt(s, id) == {i \in DOMAIN s : s[i].id = id}
ToldAt(s, id)  == {i \in DOMAIN s : s[i].kind = "response" /\ s[i].id = id}
AtMostOne(A)   == \A i, j \in A : i = j
Once(asked, told, waits, executed) ==
    /\ AtMostOne(asked) /\ AtMostOne(told)
    /\ asked # {} => waits /\ ~executed /\ told = {}
    /\ executed => waits /\ told = {}
    /\ told # {} => waits
Handshakes == \A id \in DOMAIN calls : calls[id] \in Uncounted =>
                 Once(AskedAt(up, id), ToldAt(down, id), id \in pending, id \in todo)

Numbers == [sent : Nat, recv : Nat, pushes : 0 .. MaxPushes, breaks : 0 .. env.breaks]
Counting == count \in Numbers /\ count.recv + Cardinality(Counted(down)) = count.sent

RpcInv == Ends /\ Issued /\ Expected /\ Executing /\ OnTheWay /\ Handshakes /\ Counting

-----------------------------------------------------------------------------
(* Places in a sequence. *)

LEMMA AskedAppended ==
    ASSUME NEW id, NEW S, NEW s \in Seq(S), NEW f \in S, f.id # id, NEW t, t = Append(s, f)
    PROVE  AskedAt(t, id) = AskedAt(s, id)
<1>1. PICK n : n = Len(s) + 1 /\ n \in Nat
  OBVIOUS
<1>2. DOMAIN t = (1 .. Len(s)) \cup {n} /\ t[n] = f /\ DOMAIN s = 1 .. Len(s) /\ \A i \in 1 .. Len(s) : t[i] = s[i]
  BY <1>1
<1> QED BY <1>2 DEF AskedAt

LEMMA ToldAppended ==
    ASSUME NEW id, NEW S, NEW s \in Seq(S), NEW f \in S, NEW t, t = Append(s, f)
    PROVE  /\ ~(f.kind = "response" /\ f.id = id) => ToldAt(t, id) = ToldAt(s, id)
           /\ ToldAt(s, id) = {} => AtMostOne(ToldAt(t, id))
<1>1. PICK n : n = Len(s) + 1 /\ n \in Nat
  OBVIOUS
<1>2. DOMAIN t = (1 .. Len(s)) \cup {n} /\ t[n] = f /\ DOMAIN s = 1 .. Len(s) /\ \A i \in 1 .. Len(s) : t[i] = s[i]
  BY <1>1
<1>3. ~(f.kind = "response" /\ f.id = id) => ToldAt(t, id) = ToldAt(s, id)
  BY <1>2 DEF ToldAt
<1>4. ToldAt(t, id) \subseteq ToldAt(s, id) \cup {n}
  BY <1>2 DEF ToldAt
<1> QED BY <1>3, <1>4 DEF AtMostOne

LEMMA Tailed ==
    ASSUME NEW S, NEW s \in Seq(S), s # <<>>, NEW t, t = Tail(s)
    PROVE  /\ t \in Seq(S) /\ s[1] \in S /\ Head(s) = s[1] /\ 1 \in DOMAIN s
           /\ \A i \in DOMAIN t : i + 1 \in DOMAIN s /\ t[i] = s[i + 1] /\ i \in Nat /\ i + 1 # 1
  OBVIOUS

LEMMA AskedTail ==
    ASSUME NEW id, NEW S, NEW s \in Seq(S), s # <<>>, NEW t, t = Tail(s)
    PROVE  /\ AskedAt(s, id) = {} => AskedAt(t, id) = {}
           /\ AtMostOne(AskedAt(s, id)) => AtMostOne(AskedAt(t, id))
           /\ AtMostOne(AskedAt(s, id)) /\ s[1].id = id => AskedAt(t, id) = {}
<1>1. 1 \in DOMAIN s /\ \A i \in DOMAIN t : i + 1 \in DOMAIN s /\ t[i] = s[i + 1] /\ i \in Nat /\ i + 1 # 1
  BY Tailed
<1>2. \A i \in AskedAt(t, id) : i + 1 \in AskedAt(s, id) /\ i \in Nat /\ i + 1 # 1
  BY <1>1 DEF AskedAt
<1>3. s[1].id = id => 1 \in AskedAt(s, id)
  BY <1>1 DEF AskedAt
<1>4. AtMostOne(AskedAt(s, id)) => AtMostOne(AskedAt(t, id))
  BY <1>2 DEF AtMostOne
<1>5. AtMostOne(AskedAt(s, id)) /\ s[1].id = id => AskedAt(t, id) = {}
  BY <1>2, <1>3 DEF AtMostOne
<1> QED BY <1>2, <1>4, <1>5

LEMMA ToldTail ==
    ASSUME NEW id, NEW S, NEW s \in Seq(S), s # <<>>, NEW t, t = Tail(s)
    PROVE  /\ ToldAt(s, id) = {} => ToldAt(t, id) = {}
           /\ AtMostOne(ToldAt(s, id)) => AtMostOne(ToldAt(t, id))
           /\ AtMostOne(ToldAt(s, id)) /\ s[1].kind = "response" /\ s[1].id = id => ToldAt(t, id) = {}
<1>1. 1 \in DOMAIN s /\ \A i \in DOMAIN t : i + 1 \in DOMAIN s /\ t[i] = s[i + 1] /\ i \in Nat /\ i + 1 # 1
  BY Tailed
<1>2. \A i \in ToldAt(t, id) : i + 1 \in ToldAt(s, id) /\ i \in Nat /\ i + 1 # 1
  BY <1>1 DEF ToldAt
<1>3. s[1].kind = "response" /\ s[1].id = id => 1 \in ToldAt(s, id)
  BY <1>1 DEF ToldAt
<1>4. AtMostOne(ToldAt(s, id)) => AtMostOne(ToldAt(t, id))
  BY <1>2 DEF AtMostOne
<1>5. AtMostOne(ToldAt(s, id)) /\ s[1].kind = "response" /\ s[1].id = id => ToldAt(t, id) = {}
  BY <1>2, <1>3 DEF AtMostOne
<1> QED BY <1>2, <1>4, <1>5

-----------------------------------------------------------------------------
LEMMA IdsSafe ==
    ASSUME Issued
    PROVE  /\ DOMAIN calls \subseteq Ids /\ DOMAIN calls \subseteq 0 .. SafeMax
           /\ IsFiniteSet(DOMAIN calls) /\ \A id \in DOMAIN calls : id \in Nat
           /\ \E k \in 0 .. MaxCalls : /\ DOMAIN calls = FirstId + 1 .. FirstId + k /\ Cardinality(DOMAIN calls) = k
                                       /\ k \in Nat
<1>1. FirstId \in Nat /\ MaxCalls \in Nat /\ FirstId + MaxCalls <= SafeMax /\ SafeMax \in Nat
  BY RpcAssumption, PowerSizes
<1>2. PICK k \in 0 .. MaxCalls : DOMAIN calls = FirstId + 1 .. FirstId + k
  BY DEF Issued
<1>3. k \in Nat /\ FirstId + k \in Int /\ FirstId + 1 \in Int /\ FirstId + k <= FirstId + MaxCalls
  BY <1>1, <1>2
<1>4. IsFiniteSet(DOMAIN calls) /\ Cardinality(DOMAIN calls) = k
  <2>1. PICK a, b : a = FirstId + 1 /\ b = FirstId + k /\ a \in Int /\ b \in Int
    BY <1>3
  <2>2. IsFiniteSet(a .. b) /\ Cardinality(a .. b) = IF a > b THEN 0 ELSE b - a + 1
    BY <2>1, FS_Interval
  <2>3. (IF a > b THEN 0 ELSE b - a + 1) = k
    BY <1>1, <1>3, <2>1
  <2> QED BY <1>2, <2>1, <2>2, <2>3
<1>5. DOMAIN calls \subseteq Ids
  BY <1>1, <1>2, <1>3 DEF Ids
<1>6. DOMAIN calls \subseteq 0 .. SafeMax
  BY <1>1, <1>2, <1>3
<1>7. \A id \in DOMAIN calls : id \in Nat
  BY <1>1, <1>6
<1> QED BY <1>2, <1>3, <1>4, <1>5, <1>6, <1>7

LEMMA ClientNamesAre == ClientNames = NamesOf(Client)
  BY DEF ClientNames, NamesOf

LEMMA PushNamesAre == PushNames \subseteq NamesOf(Server)
<1>1. ASSUME NEW n \in PushNames PROVE n \in NamesOf(Server)
  <2>1. PICK p : p \in Range(Server.proto) /\ n = p.name
    BY DEF PushNames
  <2>2. PICK i \in DOMAIN Server.proto : p = Server.proto[i]
    BY <2>1 DEF Range
  <2> QED BY <2>1, <2>2 DEF NamesOf
<1> QED BY <1>1

LEMMA ResponseTyped ==
    ASSUME Ends, NEW name \in NamesOf(Client)
    PROVE  ResponseType(Client, name) \in ResponseTypes
<1>1. PICK p : p = ProtoByName(Client, name)
  OBVIOUS
<1>2. Known(Client, p, name)
  <2>1. Usable(Schemas[env.client], Client)
    BY EndsUsable
  <2> QED BY <1>1, <2>1, ProtocolKnown
<1>3. p.response = Null \/ p.response \in 1 .. Len(Client.type)
  BY <1>2 DEF Known
<1>4. ResponseType(Client, name) = IF p.response = Null THEN Confirm ELSE p.response
  BY <1>1 DEF ResponseType
<1> QED BY <1>3, <1>4 DEF ResponseTypes

LEMMA InitHolds == RpcInit => RpcInv
<1> SUFFICES ASSUME RpcInit PROVE RpcInv
  OBVIOUS
<1>1. Ends
  <2>1. /\ env \in Cases
        /\ sp = [client |-> CreateNew(Bundle(Schemas[env.client])), server |-> CreateNew(Bundle(Schemas[env.server]))]
    BY DEF RpcInit
  <2>2. env.client \in DOMAIN Schemas /\ env.server \in DOMAIN Schemas
    BY <2>1, RpcAssumption
  <2>3. /\ CreateNew(Bundle(Schemas[env.client])) = SchemaOf(Schemas[env.client])
        /\ CreateNew(Bundle(Schemas[env.server])) = SchemaOf(Schemas[env.server])
    BY <2>2, SchemaUsable
  <2> QED BY <2>1, <2>3 DEF Ends
<1>2. /\ DOMAIN calls = {} /\ DOMAIN types = {} /\ pending = {} /\ todo = {} /\ cache = {} /\ up = <<>> /\ down = <<>>
      /\ count = [sent |-> 0, recv |-> 0, pushes |-> 0, breaks |-> 0]
  BY DEF RpcInit, Nothing
<1>3. FirstId \in Nat /\ MaxCalls \in Nat /\ MaxPushes \in Nat /\ env.breaks \in Nat
  BY <1>1, RpcAssumption DEF Ends
<1>4. Issued
  <2>1. FirstId + 1 .. FirstId + 0 = {} /\ 0 \in 0 .. MaxCalls
    BY <1>3
  <2> QED BY <1>2, <2>1 DEF Issued
<1>5. Expected /\ Executing /\ Handshakes
  BY <1>2 DEF Expected, Executing, Handshakes, Answerable
<1>6. OnTheWay
  <2>1. up \in Seq({}) /\ down \in Seq({})
    BY <1>2
  <2> QED BY <2>1 DEF OnTheWay
<1>7. Counting
  <2>1. Counted(down) = {}
    BY <1>2 DEF Counted
  <2>2. count.recv = 0 /\ count.sent = 0
    BY <1>2
  <2>3. count \in Numbers
    <3>1. 0 \in 0 .. MaxPushes /\ 0 \in 0 .. env.breaks /\ 0 \in Nat
      BY <1>3
    <3> QED BY <1>2, <3>1 DEF Numbers
  <2> QED BY <2>1, <2>2, <2>3, FS_EmptySet DEF Counting
<1> QED BY <1>1, <1>4, <1>5, <1>6, <1>7 DEF RpcInv

-----------------------------------------------------------------------------
(* What a step does to the parts of the invariant. *)

LEMMA CallsGrow ==
    ASSUME sp' = sp, \A id \in DOMAIN calls : id \in DOMAIN calls' /\ calls'[id] = calls[id]
    PROVE  /\ \A f : (Asks(f) => Asks(f)') /\ (Tells(f) => Tells(f)')
           /\ Answerable \subseteq Answerable'
<1>1. Server' = Server /\ Client' = Client
  BY DEF Server, Client
<1>2. ASSUME NEW f, Asks(f) PROVE Asks(f)'
  BY <1>1, <1>2 DEF Asks
<1>3. ASSUME NEW f, Tells(f) PROVE Tells(f)'
  BY <1>1, <1>3 DEF Tells
<1>4. Answerable \subseteq Answerable'
  BY <1>1 DEF Answerable
<1> QED BY <1>2, <1>3, <1>4

LEMMA SameCalls ==
    ASSUME UNCHANGED <<env, sp, calls>>
    PROVE  /\ \A f : (Asks(f) => Asks(f)') /\ (Tells(f) => Tells(f)')
           /\ Answerable' = Answerable /\ ResponseTypes' = ResponseTypes
           /\ (Ends => Ends') /\ (Issued => Issued') /\ Numbers' = Numbers
<1>1. \A f : (Asks(f) => Asks(f)') /\ (Tells(f) => Tells(f)')
  BY CallsGrow
<1>2. Server' = Server /\ Client' = Client
  BY DEF Server, Client
<1> QED BY <1>1, <1>2 DEF Answerable, ResponseTypes, Ends, Issued, Numbers

LEMMA Stuttering == RpcInv /\ UNCHANGED rpcVars => RpcInv'
<1> SUFFICES ASSUME RpcInv, UNCHANGED rpcVars PROVE RpcInv'
  OBVIOUS
<1>1. UNCHANGED <<env, sp, calls>> /\ UNCHANGED <<types, pending, up, down, todo, cache, count>>
  BY DEF rpcVars
<1>2. Ends' /\ Issued'
  BY <1>1, SameCalls DEF RpcInv
<1>3. Expected'
  BY <1>1, SameCalls DEF RpcInv, Expected
<1>4. Executing'
  BY <1>1, SameCalls DEF RpcInv, Executing
<1>5. OnTheWay'
  <2>1. PICK S : up \in Seq(S) /\ \A f \in S : Asks(f)
    BY DEF RpcInv, OnTheWay
  <2>2. PICK T : down \in Seq(T) /\ \A f \in T : Tells(f)
    BY DEF RpcInv, OnTheWay
  <2>3. (\A f \in S : Asks(f)') /\ \A f \in T : Tells(f)'
    BY <1>1, <2>1, <2>2, SameCalls
  <2> QED BY <1>1, <2>1, <2>2, <2>3 DEF OnTheWay
<1>6. Handshakes'
  BY <1>1 DEF RpcInv, Handshakes
<1>7. Counting'
  BY <1>1, SameCalls DEF RpcInv, Counting
<1> QED BY <1>2, <1>3, <1>4, <1>5, <1>6, <1>7 DEF RpcInv

(* A package sent to the client. *)
LEMMA Sent ==
    ASSUME OnTheWay, Counting, NEW f, Tells(f), Sends(f), f.kind = "push" => count.pushes < MaxPushes,
           UNCHANGED <<env, sp, calls>>
    PROVE  /\ Counting' /\ \E S : down' \in Seq(S) /\ \A g \in S : Tells(g)'
           /\ \A id : /\ ~(f.kind = "response" /\ f.id = id) => ToldAt(down', id) = ToldAt(down, id)
                      /\ ToldAt(down, id) = {} => AtMostOne(ToldAt(down', id))
<1>1. PICK S : down \in Seq(S) /\ \A g \in S : Tells(g)
  BY DEF OnTheWay
<1>2. PICK T : T = S \cup {f}
  OBVIOUS
<1>3. f \in T /\ down \in Seq(T) /\ \A g \in T : Tells(g)
  BY <1>1, <1>2
<1>4. PICK s, t : s = down /\ t = down' /\ t = Append(s, f) /\ s \in Seq(T)
  BY <1>3 DEF Sends
<1>5. t \in Seq(T)
  BY <1>3, <1>4
<1>6. \E U : down' \in Seq(U) /\ \A g \in U : Tells(g)'
  <2>1. \A g \in T : Tells(g)'
    BY <1>3, SameCalls
  <2> QED BY <1>4, <1>5, <2>1
<1>7. \A id : /\ ~(f.kind = "response" /\ f.id = id) => ToldAt(t, id) = ToldAt(s, id)
              /\ ToldAt(s, id) = {} => AtMostOne(ToldAt(t, id))
  <2>1. ASSUME NEW id
        PROVE  /\ ~(f.kind = "response" /\ f.id = id) => ToldAt(t, id) = ToldAt(s, id)
               /\ ToldAt(s, id) = {} => AtMostOne(ToldAt(t, id))
    <3>1. s \in Seq(T) /\ f \in T /\ t = Append(s, f)
      BY <1>3, <1>4
    <3>2. ~(f.kind = "response" /\ f.id = id) => ToldAt(t, id) = ToldAt(s, id)
      BY <3>1, ToldAppended
    <3>3. ToldAt(s, id) = {} => AtMostOne(ToldAt(t, id))
      BY <3>1, ToldAppended
    <3> QED BY <3>2, <3>3
  <2> QED BY <2>1
<1>8. PICK c, d : /\ c = IF IsCounted(f) THEN 1 ELSE 0
                  /\ d = IF f.kind = "push" THEN 1 ELSE 0
  OBVIOUS
<1>9. count' = [sent |-> count.sent + c, recv |-> count.recv, pushes |-> count.pushes + d, breaks |-> count.breaks]
  <2>1. count' = [count EXCEPT !.sent = @ + c, !.pushes = @ + d]
    BY <1>8 DEF Sends
  <2>2. count \in Numbers
    BY DEF Counting
  <2> QED BY <2>1, <2>2 DEF Numbers
<1>10. Cardinality(Counted(t)) = Cardinality(Counted(s)) + c
  BY <1>3, <1>4, <1>8, CountedAppended
<1>11. c \in 0 .. 1 /\ d \in 0 .. 1 /\ MaxPushes \in Nat /\ Cardinality(Counted(s)) \in Nat
  BY <1>4, <1>8, CountedTyped, RpcAssumption
<1>12. Counting'
  <2>1. count \in Numbers /\ count.recv + Cardinality(Counted(s)) = count.sent
    BY <1>4 DEF Counting
  <2>2. count.sent \in Nat /\ count.recv \in Nat /\ count.pushes \in 0 .. MaxPushes /\ count.breaks \in 0 .. env.breaks
    BY <2>1 DEF Numbers
  <2>3. count.pushes + d \in 0 .. MaxPushes
    BY <1>8, <1>11, <2>2
  <2>4. count.sent + c \in Nat
    BY <1>11, <2>2
  <2>5. count' \in Numbers
    BY <1>9, <2>2, <2>3, <2>4 DEF Numbers
  <2>6. count'.recv + Cardinality(Counted(t)) = count'.sent
    BY <1>9, <1>10, <1>11, <2>1, <2>2
  <2>7. Numbers' = Numbers /\ Counted(down)' = Counted(t)
    BY <1>4, SameCalls DEF Counted
  <2> QED BY <2>5, <2>6, <2>7 DEF Counting
<1> QED BY <1>4, <1>6, <1>7, <1>12

LEMMA ClientNamesSame == ASSUME sp' = sp PROVE Client' = Client /\ Server' = Server
  BY DEF Client, Server

-----------------------------------------------------------------------------
LEMMA PushKeeps == ASSUME RpcInv, NEW name \in PushNames, Push(name) PROVE RpcInv'
<1>1. /\ count.pushes < MaxPushes /\ Sends(RequestFrame(Server, "push", name, Null))
      /\ UNCHANGED <<env, sp, calls>> /\ UNCHANGED <<types, pending, up, todo, cache>>
  BY DEF Push
<1>2. PICK f : f = RequestFrame(Server, "push", name, Null) /\ Sends(f)
  BY <1>1
<1>3. Heeds(Client, f) /\ f.kind = "push"
  <2>1. name \in NamesOf(Server) /\ Ends
    BY PushNamesAre DEF RpcInv
  <2> QED BY <1>2, <2>1, PushHeeded
<1>4. Tells(f) /\ f.kind # "response"
  BY <1>3 DEF Tells
<1>5. /\ Counting' /\ \E S : down' \in Seq(S) /\ \A g \in S : Tells(g)'
      /\ \A id : ToldAt(down', id) = ToldAt(down, id)
  <2>1. OnTheWay /\ Counting
    BY DEF RpcInv
  <2> QED BY <1>1, <1>2, <1>4, <2>1, Sent
<1>6. Ends' /\ Issued' /\ Expected' /\ Executing'
  BY <1>1, SameCalls DEF RpcInv, Expected, Executing
<1>7. OnTheWay'
  <2>1. PICK S : up \in Seq(S) /\ \A g \in S : Asks(g)
    BY DEF RpcInv, OnTheWay
  <2>2. \A g \in S : Asks(g)'
    BY <1>1, <2>1, SameCalls
  <2> QED BY <1>1, <1>5, <2>1, <2>2 DEF OnTheWay
<1>8. Handshakes'
  <2>1. ASSUME NEW id \in DOMAIN calls', calls'[id] \in Uncounted
        PROVE  Once(AskedAt(up, id)', ToldAt(down, id)', id \in pending', id \in todo')
    <3>1. Once(AskedAt(up, id), ToldAt(down, id), id \in pending, id \in todo)
      BY <1>1, <2>1 DEF RpcInv, Handshakes
    <3>2. AskedAt(up, id)' = AskedAt(up, id) /\ ToldAt(down, id)' = ToldAt(down, id)
      BY <1>1, <1>5 DEF AskedAt, ToldAt
    <3> QED BY <1>1, <3>1, <3>2
  <2> QED BY <2>1 DEF Handshakes, Once, AtMostOne
<1> QED BY <1>5, <1>6, <1>7, <1>8 DEF RpcInv

-----------------------------------------------------------------------------
LEMMA AnswerKeeps == ASSUME RpcInv, NEW id \in DOMAIN calls, Answer(id) PROVE RpcInv'
<1>1. /\ id \in todo /\ todo' = todo \ {id} /\ cache' = IF calls[id] \in Uncounted THEN cache ELSE cache \cup {id}
      /\ Sends(ResponseFrame(calls[id], id))
      /\ UNCHANGED <<env, sp, calls>> /\ UNCHANGED <<types, pending, up>>
  BY DEF Answer
<1>2. PICK name, f : name = calls[id] /\ f = ResponseFrame(name, id) /\ Sends(f)
  BY <1>1
<1>3. Heeds(Client, f) /\ f.kind = "response" /\ f.name = name /\ f.id = id
  <2>1. name \in NamesOf(Server)
    BY <1>1, <1>2 DEF RpcInv, Executing, Answerable
  <2>2. id \in 0 .. SafeMax /\ Ends
    BY IdsSafe DEF RpcInv
  <2> QED BY <1>2, <2>1, <2>2, ResponseHeeded
<1>4. Tells(f) /\ f.kind # "push"
  BY <1>2, <1>3 DEF Tells
<1>5. /\ Counting' /\ \E S : down' \in Seq(S) /\ \A g \in S : Tells(g)'
      /\ \A j : /\ j # id => ToldAt(down', j) = ToldAt(down, j)
                /\ ToldAt(down, j) = {} => AtMostOne(ToldAt(down', j))
  <2>1. OnTheWay /\ Counting
    BY DEF RpcInv
  <2> QED BY <1>1, <1>2, <1>3, <1>4, <2>1, Sent
<1>6. Ends' /\ Issued' /\ Expected'
  BY <1>1, SameCalls DEF RpcInv, Expected
<1>7. Executing'
  <2>1. todo \subseteq Answerable /\ cache \subseteq Answerable /\ \A j \in cache : calls[j] \notin Uncounted
    BY DEF RpcInv, Executing
  <2>2. todo' \subseteq Answerable /\ cache' \subseteq Answerable /\ \A j \in cache' : calls[j] \notin Uncounted
    BY <1>1, <2>1
  <2> QED BY <1>1, <2>2, SameCalls DEF Executing
<1>8. OnTheWay'
  <2>1. PICK S : up \in Seq(S) /\ \A g \in S : Asks(g)
    BY DEF RpcInv, OnTheWay
  <2>2. \A g \in S : Asks(g)'
    BY <1>1, <2>1, SameCalls
  <2> QED BY <1>1, <1>5, <2>1, <2>2 DEF OnTheWay
<1>9. Handshakes'
  <2>1. ASSUME NEW j \in DOMAIN calls, calls[j] \in Uncounted
        PROVE  Once(AskedAt(up, j), ToldAt(down', j), j \in pending, j \in todo')
    <3>1. Once(AskedAt(up, j), ToldAt(down, j), j \in pending, j \in todo)
      BY <2>1 DEF RpcInv, Handshakes
    <3>2. CASE j = id
      BY <1>1, <1>5, <3>1, <3>2 DEF Once
    <3>3. CASE j # id
      BY <1>1, <1>5, <3>1, <3>3 DEF Once
    <3> QED BY <3>2, <3>3
  <2>2. \A j \in DOMAIN calls : calls[j] \in Uncounted => Once(AskedAt(up, j), ToldAt(down', j), j \in pending, j \in todo')
    BY <2>1
  <2> QED BY <1>1, <2>2 DEF Handshakes, Once, AtMostOne, AskedAt, ToldAt
<1> QED BY <1>5, <1>6, <1>7, <1>8, <1>9 DEF RpcInv

-----------------------------------------------------------------------------
LEMMA TakenUp ==
    ASSUME OnTheWay, up # <<>>, up' = Tail(up), UNCHANGED <<env, sp, calls>>
    PROVE  /\ \E S : up' \in Seq(S) /\ \A f \in S : Asks(f)'
           /\ Head(up) = up[1] /\ Asks(up[1]) /\ 1 \in AskedAt(up, up[1].id)
           /\ \A id : /\ AskedAt(up, id) = {} => AskedAt(up', id) = {}
                      /\ AtMostOne(AskedAt(up, id)) => AtMostOne(AskedAt(up', id))
                      /\ AtMostOne(AskedAt(up, id)) /\ up[1].id = id => AskedAt(up', id) = {}
<1>1. PICK S : up \in Seq(S) /\ \A f \in S : Asks(f)
  BY DEF OnTheWay
<1>2. PICK s, t : s = up /\ t = up' /\ t = Tail(s) /\ s \in Seq(S) /\ s # <<>>
  BY <1>1
<1>3. t \in Seq(S) /\ s[1] \in S /\ Head(s) = s[1] /\ 1 \in DOMAIN s
  BY <1>2, Tailed
<1>4. 1 \in AskedAt(s, s[1].id)
  BY <1>3 DEF AskedAt
<1>5. \A f \in S : Asks(f)'
  BY <1>1, SameCalls
<1>6. ASSUME NEW id
      PROVE  /\ AskedAt(s, id) = {} => AskedAt(t, id) = {}
             /\ AtMostOne(AskedAt(s, id)) => AtMostOne(AskedAt(t, id))
             /\ AtMostOne(AskedAt(s, id)) /\ s[1].id = id => AskedAt(t, id) = {}
  <2>1. AskedAt(s, id) = {} => AskedAt(t, id) = {}
    BY <1>2, AskedTail
  <2>2. AtMostOne(AskedAt(s, id)) => AtMostOne(AskedAt(t, id))
    BY <1>2, AskedTail
  <2>3. AtMostOne(AskedAt(s, id)) /\ s[1].id = id => AskedAt(t, id) = {}
    BY <1>2, AskedTail
  <2> QED BY <2>1, <2>2, <2>3
<1> QED BY <1>1, <1>2, <1>3, <1>4, <1>5, <1>6

LEMMA ServerReceivesKeeps == ASSUME RpcInv, ServerReceives PROVE RpcInv'
<1>1. /\ up # <<>> /\ up' = Tail(up)
      /\ Executes(Head(up), Dispatch(Server, Nothing, Head(up).bytes))
      /\ UNCHANGED <<env, sp, calls>> /\ UNCHANGED <<types, pending, cache>>
  BY DEF ServerReceives
<1>2. /\ Ends /\ Issued /\ Executing /\ OnTheWay /\ Counting
      /\ \A j \in DOMAIN calls : calls[j] \in Uncounted => Once(AskedAt(up, j), ToldAt(down, j), j \in pending, j \in todo)
  BY DEF RpcInv, Handshakes
<1>3. /\ \E S : up' \in Seq(S) /\ \A g \in S : Asks(g)'
      /\ Head(up) = up[1] /\ Asks(up[1]) /\ 1 \in AskedAt(up, up[1].id)
      /\ \A j : /\ AskedAt(up, j) = {} => AskedAt(up', j) = {}
                /\ AtMostOne(AskedAt(up, j)) => AtMostOne(AskedAt(up', j))
                /\ AtMostOne(AskedAt(up, j)) /\ up[1].id = j => AskedAt(up', j) = {}
  BY <1>1, <1>2, TakenUp
<1>4. PICK f, r : f = up[1] /\ r = Dispatch(Server, Nothing, f.bytes) /\ Executes(f, r)
  BY <1>1, <1>3
<1>5. Asks(f) /\ f.id \in DOMAIN calls /\ f.name = calls[f.id]
  BY <1>3, <1>4 DEF Asks
<1>6. r.kind = "request" => r.id = f.id /\ r.name = f.name /\ f.name \in NamesOf(Server)
  <2>1. Dispatched(r, Server, Nothing, Unpack(f.bytes))
    BY <1>4 DEF Dispatched, Dispatch
  <2>2. Serves(Server, f)
    BY <1>5 DEF Asks
  <2> QED BY <2>1, <2>2 DEF Serves
<1>7. Ends' /\ Issued' /\ Expected'
  BY <1>1, SameCalls DEF RpcInv, Expected
<1>8. PICK id : id = f.id /\ id \in DOMAIN calls /\ (r.kind = "request" => r.id = id /\ r.name = calls[id] /\ calls[id] \in NamesOf(Server))
  BY <1>5, <1>6
(* What each case has to show. *)
<1>9. ASSUME todo' \subseteq Answerable, Counting', \E S : down' \in Seq(S) /\ \A g \in S : Tells(g)',
             \A j \in DOMAIN calls : calls[j] \in Uncounted => Once(AskedAt(up', j), ToldAt(down', j), j \in pending, j \in todo')
      PROVE  RpcInv'
  <2>1. Executing'
    BY <1>1, <1>2, <1>9, SameCalls DEF Executing
  <2>2. OnTheWay'
    BY <1>3, <1>9 DEF OnTheWay
  <2>3. Handshakes'
    BY <1>1, <1>9 DEF Handshakes, Once, AtMostOne, AskedAt, ToldAt
  <2> QED BY <1>7, <1>9, <2>1, <2>2, <2>3 DEF RpcInv
<1>10. down' = down /\ count' = count => Counting' /\ \E S : down' \in Seq(S) /\ \A g \in S : Tells(g)'
  <2> SUFFICES ASSUME down' = down, count' = count PROVE Counting' /\ \E S : down' \in Seq(S) /\ \A g \in S : Tells(g)'
    OBVIOUS
  <2>1. Counting'
    BY <1>1, <1>2, SameCalls DEF Counting
  <2>2. PICK S : down \in Seq(S) /\ \A g \in S : Tells(g)
    BY <1>2 DEF OnTheWay
  <2>3. \A g \in S : Tells(g)'
    BY <1>1, <2>2, SameCalls
  <2> QED BY <2>1, <2>2, <2>3
<1>11. CASE r.kind # "request"
  <2>1. UNCHANGED <<down, count, todo>>
    BY <1>4, <1>11 DEF Executes
  <2>2. todo' \subseteq Answerable
    BY <1>2, <2>1 DEF Executing
  <2>3. ASSUME NEW j \in DOMAIN calls, calls[j] \in Uncounted
        PROVE  Once(AskedAt(up', j), ToldAt(down', j), j \in pending, j \in todo')
    <3>1. Once(AskedAt(up, j), ToldAt(down, j), j \in pending, j \in todo)
      BY <1>2, <2>3
    <3> QED BY <1>3, <2>1, <3>1 DEF Once
  <2> QED BY <1>9, <1>10, <2>1, <2>2, <2>3
<1>12. CASE r.kind = "request" /\ id \in cache
  <2>1. Sends(ResponseFrame(calls[id], id)) /\ todo' = todo
    BY <1>4, <1>8, <1>12 DEF Executes
  <2>2. PICK name, g : name = calls[id] /\ g = ResponseFrame(name, id) /\ Sends(g)
    BY <2>1
  <2>3. Heeds(Client, g) /\ g.kind = "response" /\ g.name = name /\ g.id = id
    <3>1. name \in NamesOf(Server) /\ id \in 0 .. SafeMax /\ Ends
      BY <1>2, <1>8, <1>12, <2>2, IdsSafe
    <3> QED BY <2>2, <3>1, ResponseHeeded
  <2>4. Tells(g) /\ g.kind # "push"
    BY <1>8, <2>2, <2>3 DEF Tells
  <2>5. /\ Counting' /\ \E S : down' \in Seq(S) /\ \A x \in S : Tells(x)'
        /\ \A j : j # id => ToldAt(down', j) = ToldAt(down, j)
    BY <1>1, <1>2, <2>2, <2>3, <2>4, Sent
  <2>6. todo' \subseteq Answerable /\ calls[id] \notin Uncounted
    BY <1>2, <1>12, <2>1 DEF Executing
  <2>7. ASSUME NEW j \in DOMAIN calls, calls[j] \in Uncounted
        PROVE  Once(AskedAt(up', j), ToldAt(down', j), j \in pending, j \in todo')
    <3>1. Once(AskedAt(up, j), ToldAt(down, j), j \in pending, j \in todo) /\ j # id
      BY <1>2, <2>6, <2>7
    <3> QED BY <1>3, <2>1, <2>5, <3>1 DEF Once
  <2> QED BY <1>9, <2>5, <2>6, <2>7
<1>13. CASE r.kind = "request" /\ id \notin cache
  <2>1. todo' = todo \cup {id} /\ UNCHANGED <<down, count>>
    BY <1>4, <1>8, <1>13 DEF Executes
  <2>2. todo' \subseteq Answerable
    BY <1>2, <1>8, <1>13, <2>1 DEF Executing, Answerable
  <2>3. ASSUME NEW j \in DOMAIN calls, calls[j] \in Uncounted
        PROVE  Once(AskedAt(up', j), ToldAt(down', j), j \in pending, j \in todo')
    <3>1. Once(AskedAt(up, j), ToldAt(down, j), j \in pending, j \in todo)
      BY <1>2, <2>3
    <3>2. CASE j = id
      BY <1>3, <1>4, <1>8, <2>1, <3>1, <3>2 DEF Once
    <3>3. CASE j # id
      BY <1>3, <2>1, <3>1, <3>3 DEF Once
    <3> QED BY <3>2, <3>3
  <2> QED BY <1>9, <1>10, <2>1, <2>2, <2>3
<1> QED BY <1>11, <1>12, <1>13

-----------------------------------------------------------------------------
(* What the client receives. *)

LEMMA TakenDown ==
    ASSUME OnTheWay, down # <<>>, down' = Tail(down), UNCHANGED <<env, sp, calls>>
    PROVE  /\ \E S : down' \in Seq(S) /\ \A f \in S : Tells(f)'
           /\ Head(down) = down[1] /\ Tells(down[1])
           /\ down[1].kind = "response" => 1 \in ToldAt(down, down[1].id)
           /\ Cardinality(Counted(down)) \in Nat /\ Cardinality(Counted(down')) \in Nat
           /\ Cardinality(Counted(down)) = Cardinality(Counted(down')) + IF IsCounted(down[1]) THEN 1 ELSE 0
           /\ \A id : /\ ToldAt(down, id) = {} => ToldAt(down', id) = {}
                      /\ AtMostOne(ToldAt(down, id)) => AtMostOne(ToldAt(down', id))
                      /\ AtMostOne(ToldAt(down, id)) /\ down[1].kind = "response" /\ down[1].id = id
                           => ToldAt(down', id) = {}
<1>1. PICK S : down \in Seq(S) /\ \A f \in S : Tells(f)
  BY DEF OnTheWay
<1>2. PICK s, t : s = down /\ t = down' /\ t = Tail(s) /\ s \in Seq(S) /\ s # <<>>
  BY <1>1
<1>3. t \in Seq(S) /\ s[1] \in S /\ Head(s) = s[1] /\ 1 \in DOMAIN s
  BY <1>2, Tailed
<1>4. s[1].kind = "response" => 1 \in ToldAt(s, s[1].id)
  BY <1>3 DEF ToldAt
<1>5. \A f \in S : Tells(f)'
  BY <1>1, SameCalls
<1>6. ASSUME NEW id
      PROVE  /\ ToldAt(s, id) = {} => ToldAt(t, id) = {}
             /\ AtMostOne(ToldAt(s, id)) => AtMostOne(ToldAt(t, id))
             /\ AtMostOne(ToldAt(s, id)) /\ s[1].kind = "response" /\ s[1].id = id => ToldAt(t, id) = {}
  <2>1. ToldAt(s, id) = {} => ToldAt(t, id) = {}
    BY <1>2, ToldTail
  <2>2. AtMostOne(ToldAt(s, id)) => AtMostOne(ToldAt(t, id))
    BY <1>2, ToldTail
  <2>3. AtMostOne(ToldAt(s, id)) /\ s[1].kind = "response" /\ s[1].id = id => ToldAt(t, id) = {}
    BY <1>2, ToldTail
  <2> QED BY <2>1, <2>2, <2>3
<1>7. Cardinality(Counted(s)) \in Nat /\ Cardinality(Counted(t)) \in Nat
  BY <1>2, <1>3, CountedTyped
<1>8. Cardinality(Counted(s)) = Cardinality(Counted(t)) + IF IsCounted(s[1]) THEN 1 ELSE 0
  BY <1>2, CountedTail
<1> QED BY <1>1, <1>2, <1>3, <1>4, <1>5, <1>6, <1>7, <1>8

LEMMA ClientReceivesKeeps == ASSUME RpcInv, ClientReceives PROVE RpcInv'
<1>1. /\ down # <<>> /\ down' = Tail(down)
      /\ Handle(Head(down), Dispatch(Client, types, Head(down).bytes))
      /\ UNCHANGED <<env, sp, calls>> /\ UNCHANGED <<up, todo, cache>>
  BY DEF ClientReceives
<1>2. /\ Ends /\ Issued /\ Expected /\ Executing /\ OnTheWay /\ Counting
      /\ \A j \in DOMAIN calls : calls[j] \in Uncounted => Once(AskedAt(up, j), ToldAt(down, j), j \in pending, j \in todo)
  BY DEF RpcInv, Handshakes
<1>3. PICK f, r : f = down[1] /\ Head(down) = down[1] /\ r = Dispatch(Client, types, f.bytes) /\ Handle(f, r)
  <2>1. Head(down) = down[1]
    BY <1>1, <1>2, TakenDown
  <2> QED BY <1>1, <2>1
<1>4. /\ \E S : down' \in Seq(S) /\ \A x \in S : Tells(x)'
      /\ Tells(f)
      /\ f.kind = "response" => 1 \in ToldAt(down, f.id)
      /\ Cardinality(Counted(down)) \in Nat /\ Cardinality(Counted(down')) \in Nat
      /\ Cardinality(Counted(down)) = Cardinality(Counted(down')) + IF IsCounted(f) THEN 1 ELSE 0
  BY <1>1, <1>2, <1>3, TakenDown
<1>5. \A j : /\ ToldAt(down, j) = {} => ToldAt(down', j) = {}
             /\ AtMostOne(ToldAt(down, j)) => AtMostOne(ToldAt(down', j))
             /\ AtMostOne(ToldAt(down, j)) /\ f.kind = "response" /\ f.id = j => ToldAt(down', j) = {}
  BY <1>1, <1>2, <1>3, TakenDown
<1>6. \/ f.kind = "response" /\ r.kind = "response" /\ r.id = f.id /\ f.id \in DOMAIN calls /\ f.name = calls[f.id]
      \/ f.kind = "push" /\ r.kind # "response"
  <2>1. Dispatched(r, Client, types, Unpack(f.bytes))
    BY <1>3 DEF Dispatched, Dispatch
  <2>2. Heeds(Client, f) /\ (f.kind = "response" => f.id \in DOMAIN calls /\ f.name = calls[f.id])
    BY <1>4 DEF Tells
  <2> QED BY <2>1, <2>2 DEF Heeds
<1>7. Counts(r) <=> IsCounted(f)
  <2>1. CASE f.kind = "push" /\ r.kind # "response"
    BY <2>1 DEF Counts, IsCounted
  <2>2. CASE f.kind = "response" /\ r.kind = "response" /\ r.id = f.id /\ f.id \in DOMAIN calls /\ f.name = calls[f.id]
    <3>1. calls[f.id] \in Uncounted => f.id \in pending
      <4>1. calls[f.id] \in Uncounted => Once(AskedAt(up, f.id), ToldAt(down, f.id), f.id \in pending, f.id \in todo)
        BY <1>2, <2>2
      <4> QED BY <1>4, <2>2, <4>1 DEF Once
    <3> QED BY <2>2, <3>1 DEF Counts, IsCounted
  <2> QED BY <1>6, <2>1, <2>2
<1>8. Counting'
  <2>1. PICK c : c = (IF Counts(r) THEN 1 ELSE 0) /\ c = (IF IsCounted(f) THEN 1 ELSE 0) /\ c \in Nat
    BY <1>7
  <2>2. count' = [count EXCEPT !.recv = @ + c]
    BY <1>3, <2>1 DEF Handle
  <2>3. count \in Numbers /\ count.recv + Cardinality(Counted(down)) = count.sent
    BY <1>2 DEF Counting
  <2>4. count.sent \in Nat /\ count.recv \in Nat /\ count' \in Numbers /\ count'.recv = count.recv + c /\ count'.sent = count.sent
    BY <2>1, <2>2, <2>3 DEF Numbers
  <2>5. Cardinality(Counted(down)) = Cardinality(Counted(down')) + c
    BY <1>4, <2>1
  <2>6. count'.recv + Cardinality(Counted(down')) = count'.sent
    BY <1>4, <2>1, <2>3, <2>4, <2>5
  <2>7. Numbers' = Numbers /\ Counted(down)' = Counted(down')
    BY <1>1, SameCalls DEF Counted
  <2> QED BY <2>4, <2>6, <2>7 DEF Counting
<1>9. /\ pending' = IF r.kind = "response" THEN pending \ {r.id} ELSE pending
      /\ types' = IF r.kind = "response" THEN Restrict(types, DOMAIN types \ {r.id}) ELSE types
  BY <1>3 DEF Handle
<1>10. Ends' /\ Issued' /\ Executing'
  BY <1>1, <1>2, SameCalls DEF Executing
<1>11. Expected'
  <2>1. DOMAIN types \subseteq DOMAIN calls /\ pending \subseteq DOMAIN calls /\ \A j \in DOMAIN types : types[j] \in ResponseTypes
    BY <1>2 DEF Expected
  <2>2. DOMAIN types' \subseteq DOMAIN types /\ \A j \in DOMAIN types' : types'[j] = types[j]
    BY <1>9 DEF Restrict
  <2>3. pending' \subseteq DOMAIN calls
    BY <1>9, <2>1
  <2>4. DOMAIN types' \subseteq DOMAIN calls /\ \A j \in DOMAIN types' : types'[j] \in ResponseTypes
    BY <2>1, <2>2
  <2> QED BY <1>1, <2>3, <2>4, SameCalls DEF Expected
<1>12. OnTheWay'
  <2>1. PICK S : up \in Seq(S) /\ \A g \in S : Asks(g)
    BY <1>2 DEF OnTheWay
  <2>2. \A g \in S : Asks(g)'
    BY <1>1, <2>1, SameCalls
  <2> QED BY <1>1, <1>4, <2>1, <2>2 DEF OnTheWay
<1>13. Handshakes'
  <2>1. ASSUME NEW j \in DOMAIN calls, calls[j] \in Uncounted
        PROVE  Once(AskedAt(up, j), ToldAt(down', j), j \in pending', j \in todo)
    <3>1. Once(AskedAt(up, j), ToldAt(down, j), j \in pending, j \in todo)
      BY <1>2, <2>1
    <3>2. CASE r.kind = "response" /\ f.kind = "response" /\ r.id = f.id /\ f.id = j
      <4>1. ToldAt(down, j) # {} /\ ToldAt(down', j) = {}
        BY <1>4, <1>5, <3>1, <3>2 DEF Once
      <4>2. AskedAt(up, j) = {} /\ ~(j \in todo)
        BY <3>1, <4>1 DEF Once
      <4> QED BY <4>1, <4>2 DEF Once, AtMostOne
    <3>3. CASE ~(r.kind = "response" /\ f.kind = "response" /\ r.id = f.id /\ f.id = j)
      <4>1. j \in pending' <=> j \in pending
        BY <1>6, <1>9, <3>3
      <4> QED BY <1>5, <3>1, <4>1 DEF Once
    <3> QED BY <3>2, <3>3
  <2>2. \A j \in DOMAIN calls : calls[j] \in Uncounted => Once(AskedAt(up, j), ToldAt(down', j), j \in pending', j \in todo)
    BY <2>1
  <2> QED BY <1>1, <2>2 DEF Handshakes, Once, AtMostOne, AskedAt, ToldAt
<1> QED BY <1>8, <1>10, <1>11, <1>12, <1>13 DEF RpcInv

-----------------------------------------------------------------------------
LEMMA CallKeeps == ASSUME RpcInv, NEW name \in ClientNames, Call(name) PROVE RpcInv'
<1>1. PICK id : /\ id = FirstId + Cardinality(DOMAIN calls) + 1 /\ Cardinality(DOMAIN calls) < MaxCalls
                /\ calls' = Put(calls, id, name) /\ pending' = pending \cup {id} /\ types' = Registered({id})
                /\ up' = Append(up, RequestFrame(Client, "request", name, id))
                /\ UNCHANGED <<env, sp>> /\ UNCHANGED <<down, todo, cache, count>>
  BY DEF Call
<1>2. /\ Ends /\ Issued /\ Expected /\ Executing /\ OnTheWay /\ Counting
      /\ \A j \in DOMAIN calls : calls[j] \in Uncounted => Once(AskedAt(up, j), ToldAt(down, j), j \in pending, j \in todo)
  BY DEF RpcInv, Handshakes
<1>3. name \in NamesOf(Client)
  BY ClientNamesAre
<1>4. PICK k : /\ k \in 0 .. MaxCalls /\ k \in Nat /\ DOMAIN calls = FirstId + 1 .. FirstId + k /\ k < MaxCalls /\ id = FirstId + k + 1
               /\ FirstId \in Nat /\ MaxCalls \in Nat /\ FirstId + MaxCalls <= SafeMax /\ SafeMax \in Nat
  <2>1. FirstId \in Nat /\ MaxCalls \in Nat /\ FirstId + MaxCalls <= SafeMax /\ SafeMax \in Nat
    BY RpcAssumption, PowerSizes
  <2>2. PICK k : k \in 0 .. MaxCalls /\ DOMAIN calls = FirstId + 1 .. FirstId + k /\ Cardinality(DOMAIN calls) = k /\ k \in Nat
    BY <1>2, IdsSafe
  <2> QED BY <1>1, <2>1, <2>2
<1>5. id \notin DOMAIN calls /\ id \in 0 .. SafeMax /\ k + 1 \in 0 .. MaxCalls
      /\ FirstId + 1 .. FirstId + (k + 1) = (FirstId + 1 .. FirstId + k) \cup {id}
  BY <1>4
<1>6. /\ DOMAIN calls' = DOMAIN calls \cup {id} /\ calls'[id] = name
      /\ \A j \in DOMAIN calls : j \in DOMAIN calls' /\ calls'[j] = calls[j] /\ j # id
  BY <1>1, <1>5 DEF Put
<1>7. /\ \A f : (Asks(f) => Asks(f)') /\ (Tells(f) => Tells(f)')
      /\ Answerable \subseteq Answerable' /\ Client' = Client /\ Server' = Server
  BY <1>1, <1>6, CallsGrow, ClientNamesSame
<1>8. PICK f : f = RequestFrame(Client, "request", name, id) /\ up' = Append(up, f)
  BY <1>1
<1>9. Serves(Server, f) /\ f.kind = "request" /\ f.name = name /\ f.id = id
  BY <1>2, <1>3, <1>5, <1>8, RequestServed
<1>10. Asks(f)'
  BY <1>6, <1>7, <1>9 DEF Asks
<1>11. Ends' /\ Counting'
  BY <1>1, <1>2 DEF Ends, Counting, Counted, Numbers
<1>12. Issued'
  <2>1. DOMAIN calls' = FirstId + 1 .. FirstId + (k + 1)
    BY <1>4, <1>5, <1>6
  <2>2. \A j \in DOMAIN calls' : calls'[j] \in NamesOf(Client)
    BY <1>2, <1>3, <1>6 DEF Issued
  <2>3. \E n \in 0 .. MaxCalls : DOMAIN calls' = FirstId + 1 .. FirstId + n
    BY <1>5, <2>1
  <2> QED BY <1>7, <2>2, <2>3 DEF Issued
<1>13. Expected'
  <2>1. DOMAIN types' = DOMAIN types \cup {id} /\ types'[id] = ResponseType(Client, name) /\ \A j \in DOMAIN types : j # id => types'[j] = types[j]
    BY <1>1, <1>6 DEF Registered
  <2>2. DOMAIN types \subseteq DOMAIN calls /\ pending \subseteq DOMAIN calls /\ \A j \in DOMAIN types : types[j] \in ResponseTypes
    BY <1>2 DEF Expected
  <2>3. ResponseType(Client, name) \in ResponseTypes /\ ResponseTypes' = ResponseTypes
    BY <1>2, <1>3, <1>7, ResponseTyped DEF ResponseTypes
  <2>4. DOMAIN types' \subseteq DOMAIN calls' /\ pending' \subseteq DOMAIN calls' /\ \A j \in DOMAIN types' : types'[j] \in ResponseTypes
    BY <1>1, <1>5, <1>6, <2>1, <2>2, <2>3
  <2> QED BY <2>3, <2>4 DEF Expected
<1>14. Executing'
  <2>1. todo \subseteq Answerable /\ cache \subseteq Answerable /\ \A j \in cache : calls[j] \notin Uncounted
    BY <1>2 DEF Executing
  <2>2. \A j \in Answerable : j \in DOMAIN calls
    BY DEF Answerable
  <2>3. \A j \in cache : calls'[j] \notin Uncounted
    BY <1>6, <2>1, <2>2
  <2> QED BY <1>1, <1>7, <2>1, <2>3 DEF Executing
<1>15. PICK S : up \in Seq(S) /\ \A g \in S : Asks(g)
  BY <1>2 DEF OnTheWay
<1>16. PICK T : down \in Seq(T) /\ \A g \in T : Tells(g)
  BY <1>2 DEF OnTheWay
<1>17. OnTheWay'
  <2>1. PICK R : R = S \cup {f}
    OBVIOUS
  <2>2. up \in Seq(R) /\ f \in R
    BY <1>15, <2>1
  <2>3. up' \in Seq(R)
    BY <1>8, <2>2
  <2>4. \A g \in R : Asks(g)'
    BY <1>7, <1>10, <1>15, <2>1
  <2>5. \A g \in T : Tells(g)'
    BY <1>7, <1>16
  <2> QED BY <1>1, <1>16, <2>3, <2>4, <2>5 DEF OnTheWay
<1>18. Handshakes'
  <2>1. ASSUME NEW j \in DOMAIN calls', calls'[j] \in Uncounted
        PROVE  Once(AskedAt(up', j), ToldAt(down, j), j \in pending', j \in todo)
    <3>1. PICK s, t : s = up /\ t = up' /\ s \in Seq(S) /\ t = Append(s, f)
      BY <1>8, <1>15
    <3>2. CASE j # id
      <4>1. Once(AskedAt(up, j), ToldAt(down, j), j \in pending, j \in todo)
        BY <1>2, <1>6, <2>1, <3>2
      <4>2. f.id # j
        BY <1>9, <3>2
      <4>3. PICK R : R = S \cup {f}
        OBVIOUS
      <4>4. s \in Seq(R) /\ f \in R /\ t = Append(s, f)
        BY <3>1, <4>3
      <4>5. AskedAt(t, j) = AskedAt(s, j)
        BY <4>2, <4>4, AskedAppended
      <4> QED BY <1>1, <3>1, <3>2, <4>1, <4>5 DEF Once
    <3>3. CASE j = id
      <4>1. \A i \in DOMAIN s : s[i].id # id
        <5>1. \A i \in DOMAIN s : s[i] \in S
          BY <3>1
        <5> QED BY <1>5, <1>15, <5>1 DEF Asks
      <4>2. \A i \in DOMAIN down : ~(down[i].kind = "response" /\ down[i].id = id)
        <5>1. \A i \in DOMAIN down : down[i] \in T
          BY <1>16
        <5> QED BY <1>5, <1>16, <5>1 DEF Tells
      <4>3. ToldAt(down, id) = {}
        BY <4>2 DEF ToldAt
      <4>4. AtMostOne(AskedAt(t, id))
        <5>1. PICK n : n = Len(s) + 1 /\ n \in Nat /\ DOMAIN t = (1 .. Len(s)) \cup {n} /\ \A i \in 1 .. Len(s) : t[i] = s[i] /\ i \in DOMAIN s
          BY <3>1
        <5>2. AskedAt(t, id) \subseteq {n}
          BY <4>1, <5>1 DEF AskedAt
        <5> QED BY <5>2 DEF AtMostOne
      <4>5. id \in pending' /\ ~(id \in todo)
        <5>1. todo \subseteq DOMAIN calls
          BY <1>2 DEF Executing, Answerable
        <5> QED BY <1>1, <1>5, <5>1
      <4>6. Once(AskedAt(t, id), ToldAt(down, id), id \in pending', id \in todo)
        BY <4>3, <4>4, <4>5 DEF Once, AtMostOne
      <4> QED BY <3>1, <3>3, <4>6
    <3> QED BY <3>2, <3>3
  <2> QED BY <1>1, <2>1 DEF Handshakes, Once, AtMostOne, AskedAt, ToldAt
<1> QED BY <1>11, <1>12, <1>13, <1>14, <1>17, <1>18 DEF RpcInv

-----------------------------------------------------------------------------
LEMMA ResumedKeeps == ASSUME RpcInv, Resumed PROVE RpcInv'
<1>1. PICK kept : /\ kept = {id \in pending : calls[id] \notin Uncounted} /\ count.breaks < env.breaks
                  /\ count' = [count EXCEPT !.breaks = @ + 1] /\ down' = Replayed(down)
                  /\ todo' = {id \in todo : calls[id] \notin Uncounted}
                  /\ calls' = calls /\ pending' = kept /\ types' = Registered(kept)
                  /\ \E sent \in InOrder(kept) :
                       up' = [i \in DOMAIN sent |-> RequestFrame(Client, "request", calls[sent[i]], sent[i])]
                  /\ UNCHANGED <<env, sp, calls>> /\ cache' = cache
  BY DEF Resumed
<1>2. Ends /\ Issued /\ Expected /\ Executing /\ OnTheWay /\ Counting
  BY DEF RpcInv
<1>3. /\ \A f : (Asks(f) => Asks(f)') /\ (Tells(f) => Tells(f)')
      /\ Answerable' = Answerable /\ ResponseTypes' = ResponseTypes /\ Ends' /\ Issued' /\ Numbers' = Numbers
  BY <1>1, <1>2, SameCalls
<1>4. kept \subseteq DOMAIN calls /\ DOMAIN calls \subseteq 0 .. SafeMax /\ IsFiniteSet(DOMAIN calls)
  BY <1>1, <1>2, IdsSafe DEF Expected
<1>5. IsFiniteSet(kept) /\ Cardinality(kept) \in Nat
  BY <1>4, FS_Subset, FS_CardinalityType
<1>6. PICK n, sent : /\ n \in Nat /\ sent \in [1 .. n -> kept]
                     /\ up' = [i \in 1 .. n |-> RequestFrame(Client, "request", calls[sent[i]], sent[i])]
  <2>1. PICK sent \in InOrder(kept) : up' = [i \in DOMAIN sent |-> RequestFrame(Client, "request", calls[sent[i]], sent[i])]
    BY <1>1
  <2>2. PICK n : n = Cardinality(kept) /\ n \in Nat
    BY <1>5
  <2>3. sent \in [1 .. n -> kept]
    BY <2>2 DEF InOrder
  <2>4. DOMAIN sent = 1 .. n
    BY <2>3
  <2> QED BY <2>1, <2>2, <2>3, <2>4
<1>7. PICK U : U = {RequestFrame(Client, "request", calls[x], x) : x \in kept}
  OBVIOUS
<1>8. up' \in Seq(U)
  BY <1>6, <1>7
<1>9. ASSUME NEW f \in U PROVE Asks(f) /\ calls[f.id] \notin Uncounted
  <2>1. PICK id \in kept : f = RequestFrame(Client, "request", calls[id], id)
    BY <1>7
  <2>2. PICK name : name = calls[id] /\ f = RequestFrame(Client, "request", name, id)
    BY <2>1
  <2>3. name \in NamesOf(Client) /\ id \in 0 .. SafeMax /\ id \in DOMAIN calls /\ name \notin Uncounted
    BY <1>1, <1>2, <1>4, <2>2 DEF Issued
  <2>4. Serves(Server, f) /\ f.kind = "request" /\ f.name = name /\ f.id = id
    BY <1>2, <2>2, <2>3, RequestServed
  <2> QED BY <2>2, <2>3, <2>4 DEF Asks
<1>10. PICK T : down \in Seq(T) /\ \A f \in T : Tells(f)
  BY <1>2 DEF OnTheWay
<1>11. PICK s, t, C : s = down /\ t = down' /\ t = Replayed(s) /\ s \in Seq(T) /\ C = {f \in T : IsCounted(f)}
  BY <1>1, <1>10
<1>12. t \in Seq(C)
  BY <1>11, ReplayedCounts
<1>13. Cardinality(Counted(t)) = Cardinality(Counted(s))
  BY <1>11, ReplayedCounts
<1>14. OnTheWay'
  <2>1. \A f \in U : Asks(f)'
    BY <1>3, <1>9
  <2>2. \A f \in C : Tells(f)'
    BY <1>3, <1>10, <1>11
  <2> QED BY <1>8, <1>11, <1>12, <2>1, <2>2 DEF OnTheWay
<1>15. Expected'
  <2>1. DOMAIN types \subseteq DOMAIN calls /\ \A j \in DOMAIN types : types[j] \in ResponseTypes
    BY <1>2 DEF Expected
  <2>2. /\ DOMAIN types' = kept \cup DOMAIN types
        /\ \A j \in DOMAIN types' : types'[j] = IF j \in kept THEN ResponseType(Client, calls[j]) ELSE types[j]
    BY <1>1 DEF Registered
  <2>3. \A j \in kept : ResponseType(Client, calls[j]) \in ResponseTypes
    <3>1. ASSUME NEW j \in kept PROVE ResponseType(Client, calls[j]) \in ResponseTypes
      <4>1. PICK name : name = calls[j] /\ name \in NamesOf(Client)
        BY <1>2, <1>4 DEF Issued
      <4> QED BY <1>2, <4>1, ResponseTyped
    <3> QED BY <3>1
  <2>4. DOMAIN types' \subseteq DOMAIN calls /\ \A j \in DOMAIN types' : types'[j] \in ResponseTypes
    BY <1>4, <2>1, <2>2, <2>3
  <2> QED BY <1>1, <1>3, <1>4, <2>4 DEF Expected
<1>16. Executing'
  BY <1>1, <1>2, <1>3 DEF Executing
<1>17. Counting'
  <2>1. count \in Numbers /\ count.recv + Cardinality(Counted(s)) = count.sent
    BY <1>2, <1>11 DEF Counting
  <2>2. env.breaks \in Nat
    BY <1>2, RpcAssumption DEF Ends
  <2>3. count.breaks \in 0 .. env.breaks /\ count.breaks + 1 \in 0 .. env.breaks
    BY <1>1, <2>1, <2>2 DEF Numbers
  <2>4. count' \in Numbers /\ count'.recv = count.recv /\ count'.sent = count.sent
    BY <1>1, <2>1, <2>3 DEF Numbers
  <2>5. Counted(down)' = Counted(t)
    BY <1>11 DEF Counted
  <2> QED BY <1>3, <1>13, <2>1, <2>4, <2>5 DEF Counting
<1>18. Handshakes'
  <2>1. ASSUME NEW j \in DOMAIN calls, calls[j] \in Uncounted
        PROVE  Once(AskedAt(up', j), ToldAt(down', j), j \in pending', j \in todo')
    <3>1. AskedAt(up', j) = {}
      <4>1. \A i \in DOMAIN up' : up'[i] \in U
        BY <1>8
      <4> QED BY <1>9, <2>1, <4>1 DEF AskedAt
    <3>2. ToldAt(down', j) = {}
      <4>1. \A i \in DOMAIN t : t[i] \in C
        BY <1>12
      <4>2. ASSUME NEW f \in C, f.kind = "response", f.id = j PROVE FALSE
        <5>1. f.name = calls[j] /\ f.name \notin Uncounted
          BY <1>10, <1>11, <4>2 DEF Tells, IsCounted
        <5> QED BY <2>1, <5>1
      <4>3. ToldAt(t, j) = {}
        BY <4>1, <4>2 DEF ToldAt
      <4> QED BY <1>11, <4>3
    <3>3. ~(j \in todo')
      BY <1>1, <2>1
    <3> QED BY <3>1, <3>2, <3>3 DEF Once, AtMostOne
  <2>2. \A j \in DOMAIN calls : calls[j] \in Uncounted => Once(AskedAt(up', j), ToldAt(down', j), j \in pending', j \in todo')
    BY <2>1
  <2> QED BY <1>1, <2>2 DEF Handshakes, Once, AtMostOne, AskedAt, ToldAt
<1> QED BY <1>3, <1>14, <1>15, <1>16, <1>17, <1>18 DEF RpcInv

LEMMA StepKeeps == RpcInv /\ [RpcNext]_rpcVars => RpcInv'
<1> SUFFICES ASSUME RpcInv, [RpcNext]_rpcVars PROVE RpcInv'
  OBVIOUS
<1>1. ASSUME NEW name \in ClientNames \ PushNames, Call(name) PROVE RpcInv'
  BY <1>1, CallKeeps
<1>2. ASSUME NEW name \in PushNames, Push(name) PROVE RpcInv'
  BY <1>2, PushKeeps
<1>3. ASSUME NEW id \in DOMAIN calls, Answer(id) PROVE RpcInv'
  BY <1>3, AnswerKeeps
<1>4. CASE ClientReceives
  BY <1>4, ClientReceivesKeeps
<1>5. CASE ServerReceives
  BY <1>5, ServerReceivesKeeps
<1>6. CASE Resumed
  BY <1>6, ResumedKeeps
<1>7. CASE UNCHANGED rpcVars
  BY <1>7, Stuttering
<1> QED BY <1>1, <1>2, <1>3, <1>4, <1>5, <1>6, <1>7 DEF RpcNext

(* The ids a client has used, the responses it still expects and what the     *)
(* server executes and keeps, the headers of the packages under way and which *)
(* protocol each is read as, the handshake's one request, and the two counts   *)
(* (session.ts, host.dispatch): the invariant behind the three theorems below. *)
THEOREM RpcInvariant == RpcSpec => []RpcInv
  BY InitHolds, StepKeeps, PTL DEF RpcSpec

(* Ids stay within the bound; a response is expected, executed or kept only    *)
(* for a request that was sent, and its type is one of the client's schema     *)
(* (host.session, SessionClient.pending).                                     *)
THEOREM RpcTypeCorrect == RpcSpec => []RpcTypeOK
<1>1. ASSUME RpcInv PROVE RpcTypeOK
  <2>1. DOMAIN calls \subseteq Ids
    BY <1>1, IdsSafe DEF RpcInv
  <2>2. /\ DOMAIN types \subseteq DOMAIN calls /\ pending \subseteq DOMAIN calls
        /\ \A id \in DOMAIN types : types[id] \in ResponseTypes
    BY <1>1 DEF RpcInv, Expected
  <2>3. todo \subseteq DOMAIN calls /\ cache \subseteq DOMAIN calls
    BY <1>1 DEF RpcInv, Executing, Answerable
  <2>4. count \in Numbers
    BY <1>1 DEF RpcInv, Counting
  <2>5. /\ count.sent \in Nat /\ count.recv \in Nat
        /\ count.pushes \in 0 .. MaxPushes /\ count.breaks \in 0 .. env.breaks
    BY <2>4 DEF Numbers
  <2>6. DOMAIN types \subseteq Ids
    BY <2>1, <2>2
  <2>7. \A id \in DOMAIN types : types[id] \in {Confirm} \cup (1 .. Len(Client.type))
    BY <2>2 DEF ResponseTypes
  <2> QED BY <2>1, <2>2, <2>3, <2>5, <2>6, <2>7 DEF RpcTypeOK
<1> QED BY <1>1, RpcInvariant, PTL

(* Every package under way, of whatever schema, protocol and content, unpacks *)
(* to what was encoded and fewer than two segments of zeros (sprotoPack,       *)
(* sprotoUnpack).                                                             *)
THEOREM PackedWholeAlways == RpcSpec => []PackedWhole
<1>1. ASSUME RpcInv PROVE PackedWhole
  <2>1. PICK S : up \in Seq(S) /\ \A f \in S : Asks(f)
    BY <1>1 DEF RpcInv, OnTheWay
  <2>2. PICK T : down \in Seq(T) /\ \A f \in T : Tells(f)
    BY <1>1 DEF RpcInv, OnTheWay
  <2>3. Range(up) \subseteq S /\ Range(down) \subseteq T
    BY <2>1, <2>2 DEF Range
  <2>4. \A f \in S : Whole(f.raw, f.bytes)
    BY <2>1 DEF Asks, Serves, Sound
  <2>5. \A f \in T : Whole(f.raw, f.bytes)
    BY <2>2 DEF Tells, Heeds, Sound
  <2> QED BY <2>3, <2>4, <2>5 DEF PackedWhole
<1> QED BY <1>1, RpcInvariant, PTL

(* What the client has counted and what is under way to be counted is what     *)
(* the server has counted, over breaks of the connection, duplicated responses *)
(* and contents that cannot be decoded (handle, recoverDispatch): the header   *)
(* alone decides.                                                             *)
THEOREM CountsAgreeAlways == RpcSpec => []CountsAgree
<1>1. ASSUME RpcInv PROVE CountsAgree
  <2>1. count.recv + Cardinality(Counted(down)) = count.sent
    BY <1>1 DEF RpcInv, Counting
  <2> QED BY <2>1 DEF CountsAgree, Counted
<1> QED BY <1>1, RpcInvariant, PTL

-----------------------------------------------------------------------------
(* The fields of a type, in the order of their tags. *)
Laid(f, n) == /\ n \in Nat /\ f \in Seq(Field) /\ Len(f) = n /\ DOMAIN f = 1 .. n /\ Sorted(f)
              /\ \A i \in 1 .. n : f[i].tag \in Nat

LEMMA TagsApart ==
    ASSUME NEW f, NEW n, Laid(f, n)
    PROVE  \A i, j \in 1 .. n : f[i].tag = f[j].tag => i = j
<1>1. ASSUME NEW i \in 1 .. n, NEW j \in 1 .. n, f[i].tag = f[j].tag PROVE i = j
  <2>1. f[i].tag \in Nat /\ i \in Int /\ j \in Int /\ i \in DOMAIN f /\ j \in DOMAIN f
    BY DEF Laid
  <2>2. ~(i < j) /\ ~(j < i)
    BY <1>1, <2>1 DEF Laid, Sorted
  <2> QED BY <2>1, <2>2
<1> QED BY <1>1

(* Each tag is at least one more than the one before it. *)
LEMMA TagsRise ==
    ASSUME NEW f, NEW n, Laid(f, n), NEW i \in 1 .. n
    PROVE  \A k \in 0 .. n : \A j \in 1 .. n : j = i + k => f[j].tag >= f[i].tag + k
<1>1. n \in Nat /\ DOMAIN f = 1 .. n /\ \A j \in 1 .. n : f[j].tag \in Nat
  BY DEF Laid
<1> DEFINE T == {k \in 0 .. n : \A j \in 1 .. n : j = i + k => f[j].tag >= f[i].tag + k}
<1>2. 0 \in T
  BY <1>1
<1>3. \A k \in 1 .. n : k - 1 \in T => k \in T
  <2>1. ASSUME NEW k \in 1 .. n, k - 1 \in T PROVE k \in T
    <3>1. ASSUME NEW j \in 1 .. n, j = i + k PROVE f[j].tag >= f[i].tag + k
      <4>1. PICK m, v : m = j - 1 /\ v = k - 1 /\ m = i + v /\ m \in 1 .. n /\ m < j /\ v \in 0 .. n /\ k = v + 1
        BY <1>1, <3>1
      <4>2. v \in T
        BY <2>1, <4>1
      <4>3. f[m].tag >= f[i].tag + v
        BY <4>1, <4>2
      <4>4. f[m].tag < f[j].tag
        BY <1>1, <4>1 DEF Laid, Sorted
      <4>5. f[i].tag \in Nat /\ f[m].tag \in Nat /\ f[j].tag \in Nat /\ v \in Int /\ k \in Int
        BY <1>1, <3>1, <4>1
      <4>6. k = v + 1
        BY <4>1
      <4> HIDE DEF T
      <4> QED BY <4>3, <4>4, <4>5, <4>6
    <3> QED BY <1>1, <3>1
  <2> QED BY <2>1
<1>4. 0 .. n \subseteq T
  <2> HIDE DEF T
  <2> QED BY <1>1, <1>2, <1>3, Upwards
<1> QED BY <1>4

(* A type without gaps: the tag says where the field is. *)
LEMMA NoGaps ==
    ASSUME NEW f, NEW n, Laid(f, n), n > 0, f[n].tag - f[1].tag + 1 = n
    PROVE  \A i \in 1 .. n : f[i].tag = f[1].tag + i - 1
<1>1. n \in Nat /\ 1 \in 1 .. n /\ n \in 1 .. n /\ \A j \in 1 .. n : f[j].tag \in Nat
  BY DEF Laid
<1>2. ASSUME NEW i \in 1 .. n PROVE f[i].tag = f[1].tag + i - 1
  <2>1. PICK k, m, one : k = i - 1 /\ m = n - i /\ k \in 0 .. n /\ m \in 0 .. n /\ one = 1 /\ i = one + k /\ n = i + m
    BY <1>1
  <2>2. f[i].tag >= f[one].tag + k
    BY <1>1, <2>1, TagsRise
  <2>3. f[n].tag >= f[i].tag + m
    BY <1>1, <2>1, TagsRise
  <2> QED BY <1>1, <2>1, <2>2, <2>3
<1> QED BY <1>2

LEMMA BaseTagIs ==
    ASSUME NEW f, NEW n, Laid(f, n), NEW b, b = BaseTag(f)
    PROVE  \/ n = 0 /\ b = 0
           \/ n > 0 /\ b = f[1].tag /\ f[n].tag - f[1].tag + 1 = n
           \/ n > 0 /\ b = -1
<1>1. n \in Nat /\ f \in Seq(Field) /\ Len(f) = n
  BY DEF Laid
<1>2. CASE n = 0
  <2>1. f = <<>>
    BY <1>1, <1>2
  <2> QED BY <1>2, <2>1 DEF BaseTag
<1>3. CASE n > 0
  <2>1. f # <<>> /\ Last(f) = f[n]
    BY <1>1, <1>3 DEF Last
  <2>2. CASE f[n].tag - f[1].tag + 1 = n
    BY <1>1, <1>3, <2>1, <2>2 DEF BaseTag
  <2>3. CASE f[n].tag - f[1].tag + 1 # n
    <3>1. ~(f # <<>> /\ Last(f).tag - f[1].tag + 1 = Len(f)) /\ ~(f = <<>>)
      BY <1>1, <2>1, <2>3
    <3> QED BY <1>1, <1>3, <3>1, Zenon DEF BaseTag
  <2> QED BY <2>2, <2>3
<1> QED BY <1>1, <1>2, <1>3

OfType(t, f, n) == t = [n |-> n, base |-> BaseTag(f), maxn |-> MaxWords(f), f |-> f]

LEMMA FieldAtIs ==
    ASSUME NEW t, NEW n \in Nat, t.n = n, NEW i \in Int
    PROVE  /\ i \in 1 .. n => FieldAt(t, i) = t.f[i]
           /\ i \notin 1 .. n + 1 => FieldAt(t, i) = Null
<1>1. i \in 1 .. n => ~(i < 1 \/ i > t.n + 1) /\ ~(i = t.n + 1)
  OBVIOUS
<1>2. i \notin 1 .. n + 1 => (i < 1 \/ i > t.n + 1) /\ ~(i = t.n + 1)
  OBVIOUS
<1> QED BY <1>1, <1>2, Zenon DEF FieldAt

LEMMA TagFound ==
    ASSUME NEW f, NEW n, Laid(f, n), NEW t, OfType(t, f, n)
    PROVE  /\ \A i \in 1 .. n : FindTag(t, f[i].tag) = f[i]
           /\ \A tag \in Nat : \/ \E i \in 1 .. n : tag = f[i].tag
                               \/ tag = (IF n = 0 THEN 0 ELSE f[n].tag + 1)
                               \/ FindTag(t, tag) = Null
<1>1. n \in Nat /\ f \in Seq(Field) /\ Len(f) = n /\ DOMAIN f = 1 .. n /\ Sorted(f) /\ \A i \in 1 .. n : f[i].tag \in Nat
  BY DEF Laid
<1>2. PICK b : b = BaseTag(f)
  OBVIOUS
<1>3. t.n = n /\ t.f = f /\ t.base = b
  BY <1>2 DEF OfType
<1>4. \/ n = 0 /\ b = 0
      \/ n > 0 /\ b = f[1].tag /\ f[n].tag - f[1].tag + 1 = n
      \/ n > 0 /\ b = -1
  BY <1>2, BaseTagIs
<1>5. ASSUME b >= 0
      PROVE  /\ \A i \in 1 .. n : FindTag(t, f[i].tag) = f[i]
             /\ \A tag \in Nat : \/ \E i \in 1 .. n : tag = f[i].tag
                                 \/ tag = (IF n = 0 THEN 0 ELSE f[n].tag + 1)
                                 \/ FindTag(t, tag) = Null
  <2>1. b \in Nat /\ (n > 0 => f[1].tag = b /\ f[n].tag + 1 = b + n) /\ (n = 0 => b = 0)
    <3>1. 1 \in 1 .. n \/ n = 0
      BY <1>1
    <3>2. n \in 1 .. n \/ n = 0
      BY <1>1
    <3> QED BY <1>1, <1>4, <1>5, <3>1, <3>2
  <2>2. ASSUME NEW tag \in Nat, NEW i \in Int, i = tag - b + 1 PROVE FindTag(t, tag) = FieldAt(t, i)
    BY <1>3, <1>5, <2>2 DEF FindTag
  <2>3. \A i \in 1 .. n : f[i].tag = b + i - 1
    <3>1. CASE n = 0
      BY <3>1
    <3>2. CASE n > 0
      <4>1. f[n].tag - f[1].tag + 1 = n /\ f[1].tag = b
        BY <1>1, <1>4, <1>5, <2>1, <3>2
      <4>2. \A i \in 1 .. n : f[i].tag = f[1].tag + i - 1
        BY <3>2, <4>1, NoGaps
      <4> QED BY <4>1, <4>2
    <3> QED BY <1>1, <3>1, <3>2
  <2>4. ASSUME NEW i \in 1 .. n PROVE FindTag(t, f[i].tag) = f[i]
    <3>1. i \in Int /\ i = f[i].tag - b + 1 /\ f[i].tag \in Nat
      BY <1>1, <2>1, <2>3
    <3> QED BY <1>1, <1>3, <2>2, <3>1, FieldAtIs
  <2>5. ASSUME NEW tag \in Nat, ~\E i \in 1 .. n : tag = f[i].tag, tag # (IF n = 0 THEN 0 ELSE f[n].tag + 1)
        PROVE  FindTag(t, tag) = Null
    <3>1. PICK i : i = tag - b + 1 /\ i \in Int
      BY <2>1
    <3>2. i \notin 1 .. n
      <4>1. SUFFICES ASSUME i \in 1 .. n PROVE FALSE
        OBVIOUS
      <4>2. f[i].tag = b + i - 1
        BY <2>3, <4>1
      <4>3. f[i].tag = tag
        BY <2>1, <3>1, <4>2
      <4> QED BY <2>5, <4>1, <4>3
    <3>3. tag # b + n
      BY <1>1, <2>1, <2>5
    <3>4. i \notin 1 .. n + 1
      BY <1>1, <2>1, <3>1, <3>2, <3>3
    <3> QED BY <1>1, <1>3, <2>2, <3>1, <3>4, FieldAtIs
  <2> QED BY <2>4, <2>5
<1>6. ASSUME ~(b >= 0)
      PROVE  /\ \A i \in 1 .. n : FindTag(t, f[i].tag) = f[i]
             /\ \A tag \in Nat : (\E i \in 1 .. n : tag = f[i].tag) \/ FindTag(t, tag) = Null
  <2>1. ASSUME NEW tag \in Nat, NEW i, i = Bisect(f, tag)
        PROVE  /\ FindTag(t, tag) = FieldAt(t, i) /\ i \in 0 .. n /\ (i # 0 => f[i].tag = tag)
               /\ (i = 0 => \A j \in 1 .. n : f[j].tag # tag)
    <3>1. FindTag(t, tag) = FieldAt(t, i)
      BY <1>3, <1>6, <2>1 DEF FindTag
    <3>2. Tagged(f)
      BY <1>1 DEF Tagged
    <3>3. /\ i \in 0 .. Len(f)
          /\ i # 0 => f[i].tag = tag
          /\ i = 0 => \A j \in 1 .. Len(f) : f[j].tag # tag
      <4>1. tag \in Int /\ Sorted(f)
        BY <1>1
      <4> QED BY <2>1, <3>2, <4>1, BisectFinds
    <3> QED BY <1>1, <3>1, <3>3
  <2>2. ASSUME NEW j \in 1 .. n PROVE FindTag(t, f[j].tag) = f[j]
    <3>1. PICK tag, i : tag = f[j].tag /\ tag \in Nat /\ i = Bisect(f, tag)
      BY <1>1
    <3>2. /\ FindTag(t, tag) = FieldAt(t, i) /\ i \in 0 .. n /\ (i # 0 => f[i].tag = tag)
          /\ (i = 0 => \A m \in 1 .. n : f[m].tag # tag)
      BY <2>1, <3>1
    <3>3. i \in 1 .. n /\ f[i].tag = f[j].tag
      BY <1>1, <3>1, <3>2
    <3>4. i = j
      BY <3>3, TagsApart
    <3>5. FieldAt(t, i) = t.f[i]
      BY <1>1, <1>3, <3>3, FieldAtIs
    <3> QED BY <1>3, <3>1, <3>2, <3>4, <3>5
  <2>3. ASSUME NEW tag \in Nat, ~\E i \in 1 .. n : tag = f[i].tag PROVE FindTag(t, tag) = Null
    <3>1. PICK i : i = Bisect(f, tag)
      OBVIOUS
    <3>2. FindTag(t, tag) = FieldAt(t, i) /\ i \in 0 .. n /\ (i # 0 => f[i].tag = tag)
      BY <2>1, <3>1
    <3>3. i = 0
      <4>1. SUFFICES ASSUME i # 0 PROVE FALSE
        OBVIOUS
      <4> QED BY <1>1, <2>3, <3>2, <4>1
    <3>4. i \in Int /\ i \notin 1 .. n + 1
      BY <1>1, <3>3
    <3> QED BY <1>1, <1>3, <3>2, <3>4, FieldAtIs
  <2> QED BY <2>2, <2>3
<1> QED BY <1>5, <1>6

(* Where a tag does not follow on the one before: a gap of the type, and one   *)
(* of an object that has some of the fields.                                  *)
Skipped(f) == {i \in DOMAIN f : f[i].tag > 1 + IF i = 1 THEN -1 ELSE f[i - 1].tag}
Missed(f, present) == {j \in present : f[j].tag > 0 /\ ~\E i \in present : f[i].tag = f[j].tag - 1}

LEMMA CountsOf ==
    ASSUME NEW n \in Nat, NEW A, A \subseteq 1 .. n
    PROVE  IsFiniteSet(A) /\ Cardinality(A) \in Nat /\ Cardinality(1 .. n) = n
<1>1. 1 \in Int /\ n \in Int
  OBVIOUS
<1>2. IsFiniteSet(1 .. n) /\ Cardinality(1 .. n) = IF 1 > n THEN 0 ELSE n - 1 + 1
  BY <1>1, FS_Interval
<1>3. IsFiniteSet(A) /\ Cardinality(A) \in Nat
  BY <1>2, FS_Subset, FS_CardinalityType
<1> QED BY <1>2, <1>3

(* A gap of the object is one of the type, or comes from a field it has not.   *)
LEMMA MissedFollows ==
    ASSUME NEW f, NEW n, Laid(f, n), NEW present, present \subseteq 1 .. n,
           NEW j \in Missed(f, present), j \notin Skipped(f), NEW i, i = j - 1
    PROVE  i \in (1 .. n) \ present
<1>1. n \in Nat /\ DOMAIN f = 1 .. n /\ \A k \in 1 .. n : f[k].tag \in Nat
  BY DEF Laid
<1>2. j \in 1 .. n /\ j \in present /\ f[j].tag > 0 /\ ~\E k \in present : f[k].tag = f[j].tag - 1
  BY DEF Missed
<1>3. j # 1
  <2>1. SUFFICES ASSUME j = 1 PROVE FALSE
    OBVIOUS
  <2>2. f[j].tag > 1 + -1
    BY <1>1, <1>2
  <2> QED BY <1>1, <1>2, <2>1, <2>2 DEF Skipped
<1>4. i \in 1 .. n /\ i < j
  BY <1>1, <1>2, <1>3
<1>5. ~(f[j].tag > 1 + f[i].tag)
  BY <1>1, <1>2, <1>3 DEF Skipped
<1>6. f[i].tag < f[j].tag
  BY <1>1, <1>2, <1>4 DEF Laid, Sorted
<1>7. f[i].tag = f[j].tag - 1
  BY <1>1, <1>2, <1>4, <1>5, <1>6
<1> QED BY <1>2, <1>4, <1>7

(* The header has room for the words of every object.                         *)
LEMMA WordsFit ==
    ASSUME NEW f, NEW n, Laid(f, n), NEW t, OfType(t, f, n), NEW present, present \subseteq 1 .. n
    PROVE  WordsFor(t, present) <= t.maxn /\ t.maxn \in Nat
<1>1. n \in Nat /\ DOMAIN f = 1 .. n /\ Len(f) = n
  BY DEF Laid
<1>2. PICK G, M, D : G = Skipped(f) /\ M = Missed(f, present) /\ D = M \ G
  OBVIOUS
<1>3. G \subseteq 1 .. n /\ M \subseteq present /\ D \subseteq 1 .. n
  BY <1>1, <1>2 DEF Skipped, Missed
<1>4. /\ IsFiniteSet(G) /\ Cardinality(G) \in Nat
      /\ IsFiniteSet(D) /\ Cardinality(D) \in Nat
      /\ IsFiniteSet(present) /\ Cardinality(present) \in Nat
  BY <1>1, <1>3, CountsOf
<1>5. t.maxn = n + Cardinality(G) /\ t.f = f
  BY <1>1, <1>2 DEF OfType, MaxWords, Skipped
<1>6. WordsFor(t, present) = Cardinality(present) + Cardinality(M)
  BY <1>2, <1>5 DEF WordsFor, Missed
<1>7. PICK rest : rest = (1 .. n) \ present
  OBVIOUS
<1>8. IsFiniteSet(rest) /\ Cardinality(rest) = n - Cardinality(present)
  <2>1. (1 .. n) \cap present = present
    OBVIOUS
  <2>2. IsFiniteSet(1 .. n) /\ Cardinality(1 .. n) = n
    BY <1>1, CountsOf
  <2>3. IsFiniteSet((1 .. n) \ present) /\ Cardinality((1 .. n) \ present) = Cardinality(1 .. n) - Cardinality((1 .. n) \cap present)
    BY <2>2, FS_Difference
  <2> QED BY <1>7, <2>1, <2>2, <2>3
<1>9. Cardinality(D) <= Cardinality(rest)
  <2>1. PICK g : g = [j \in D |-> j - 1]
    OBVIOUS
  <2>2. ASSUME NEW j \in D PROVE g[j] \in rest
    <3>1. PICK i : i = j - 1
      OBVIOUS
    <3>2. j \in Missed(f, present) /\ j \notin Skipped(f)
      BY <1>2
    <3>3. i \in (1 .. n) \ present
      BY <3>1, <3>2, MissedFollows
    <3> QED BY <1>7, <2>1, <3>1, <3>3
  <2>3. g \in [D -> rest]
    BY <2>1, <2>2
  <2>4. \A i, j \in D : g[i] = g[j] => i = j
    BY <1>3, <2>1
  <2>5. g \in Injection(D, rest)
    BY <2>3, <2>4 DEF Injection, IsInjective
  <2> QED BY <1>8, <2>5, FS_Injection
<1>10. Cardinality(M) <= Cardinality(G) + Cardinality(D) /\ Cardinality(M) \in Nat
  <2>1. IsFiniteSet(G \cup D) /\ Cardinality(G \cup D) = Cardinality(G) + Cardinality(D) - Cardinality(G \cap D)
    BY <1>4, FS_Union
  <2>2. G \cap D = {}
    BY <1>2
  <2>3. Cardinality(G \cap D) = 0
    BY <2>2, FS_EmptySet
  <2>4. M \subseteq G \cup D
    BY <1>2
  <2>5. Cardinality(M) <= Cardinality(G \cup D) /\ IsFiniteSet(M)
    BY <2>1, <2>4, FS_Subset
  <2>6. Cardinality(M) \in Nat
    BY <2>5, FS_CardinalityType
  <2> QED BY <1>4, <2>1, <2>3, <2>5, <2>6
<1> QED BY <1>1, <1>4, <1>5, <1>6, <1>8, <1>9, <1>10

-----------------------------------------------------------------------------
LEMMA TypeLoaded ==
    ASSUME NEW m \in Nat, NEW ds \in Seq(FieldDef(m)), Sorted(ds), NEW t, t = TypeOf(ds)
    PROVE  \E f : /\ Laid(f, Len(ds)) /\ OfType(t, f, Len(ds))
                  /\ \A i \in 1 .. Len(ds) : f[i].tag = ds[i].tag /\ f[i].name = ds[i].name
<1>1. PICK f, n : f = FieldsOf(ds) /\ n = Len(ds) /\ n \in Nat
  OBVIOUS
<1>2. /\ f \in Seq(Field) /\ Len(f) = n /\ DOMAIN f = 1 .. n /\ DOMAIN ds = 1 .. n
      /\ \A i \in 1 .. n : f[i].tag = ds[i].tag /\ f[i].tag \in Nat /\ f[i].name = ds[i].name
  BY <1>1, FieldsOfTyped
<1>3. Sorted(f)
  BY <1>2 DEF Sorted
<1>4. Laid(f, n)
  BY <1>1, <1>2, <1>3 DEF Laid
<1>5. OfType(t, f, n)
  BY <1>1, <1>2 DEF TypeOf, OfType
<1> QED BY <1>1, <1>2, <1>4, <1>5

LEMMA LoadedTyped ==
    ASSUME NEW d, IsSchema(d), NEW sch, sch = SchemaOf(d)
    PROVE  sch # Null
<1>1. PICK m : m = Len(d.types) /\ m \in Nat /\ DOMAIN d.types = 1 .. m /\ d.types \in Seq(Seq(FieldDef(m)))
               /\ \A i \in 1 .. m : Sorted(d.types[i])
  BY DEF IsSchema
<1>2. ASSUME NEW i \in 1 .. m PROVE TypeOf(d.types[i]) \in Type
  <2>1. PICK ds, t : ds = d.types[i] /\ t = TypeOf(ds) /\ ds \in Seq(FieldDef(m)) /\ Sorted(ds)
    BY <1>1
  <2>2. PICK f, n : n = Len(ds) /\ Laid(f, n) /\ OfType(t, f, n)
    BY <1>1, <2>1, TypeLoaded
  <2>3. t.maxn \in Nat
    <3>1. {} \subseteq 1 .. n
      OBVIOUS
    <3> QED BY <2>2, <3>1, WordsFit
  <2>4. n \in Nat /\ f \in Seq(Field) /\ \A j \in 1 .. n : f[j].tag \in Nat
    BY <2>2 DEF Laid
  <2>5. PICK b : b = BaseTag(f)
    OBVIOUS
  <2>6. \/ n = 0 /\ b = 0
        \/ n > 0 /\ b = f[1].tag /\ f[n].tag - f[1].tag + 1 = n
        \/ n > 0 /\ b = -1
    BY <2>2, <2>5, BaseTagIs
  <2>7. b \in Int
    BY <2>4, <2>6
  <2>8. t = [n |-> n, base |-> b, maxn |-> t.maxn, f |-> f]
    BY <2>2, <2>5 DEF OfType
  <2>9. t \in Type
    BY <2>3, <2>4, <2>7, <2>8 DEF Type
  <2> QED BY <2>1, <2>9
<1>3. PICK ts, ps : ts = [i \in DOMAIN d.types |-> TypeOf(d.types[i])] /\ sch = [type |-> ts, proto |-> ps]
  BY DEF SchemaOf
<1>4. ts \in [1 .. m -> Type]
  BY <1>1, <1>2, <1>3
<1>5. ts \in Seq(Type)
  <2>1. m \in Nat
    BY <1>1
  <2> QED BY <1>4, <2>1, IsASeq
<1>6. sch.proto \in Seq(Protocol)
  BY ProtosLoaded
<1>7. sch \in Loaded
  BY <1>3, <1>5, <1>6 DEF Loaded
<1> QED BY <1>7, NullAssumption

(* What LoadedWell says of one type. *)
TypeWell(ds, t) ==
    LET tags == {ds[j].tag : j \in DOMAIN ds}
        next == IF ds = <<>> THEN 0 ELSE Last(ds).tag + 1
    IN  /\ \A f \in Range(ds) : FindTag(t, f.tag).name = f.name
        /\ \A tag \in 0 .. next + 3 : tag \in tags \cup {next} \/ FindTag(t, tag) = Null
        /\ \A present \in SUBSET DOMAIN ds : WordsFor(t, present) <= t.maxn

LEMMA LoadsWell ==
    ASSUME NEW d, IsSchema(d), NEW sch, sch = SchemaOf(d)
    PROVE  LoadedWell(sch, d)
<1>1. PICK m : m = Len(d.types) /\ m \in Nat /\ DOMAIN d.types = 1 .. m /\ d.types \in Seq(Seq(FieldDef(m)))
               /\ \A i \in 1 .. m : Sorted(d.types[i])
  BY DEF IsSchema
<1>2. sch # Null
  BY LoadedTyped
<1>3. ASSUME NEW i \in 1 .. m PROVE TypeWell(d.types[i], sch.type[i])
  <2>1. PICK ds, t, next : ds = d.types[i] /\ t = sch.type[i] /\ next = IF ds = <<>> THEN 0 ELSE Last(ds).tag + 1
    OBVIOUS
  <2>2. ds \in Seq(FieldDef(m)) /\ Sorted(ds) /\ t = TypeOf(ds)
    BY <1>1, <2>1 DEF SchemaOf
  <2>3. PICK f, n : /\ n = Len(ds) /\ Laid(f, n) /\ OfType(t, f, n)
                    /\ \A j \in 1 .. n : f[j].tag = ds[j].tag /\ f[j].name = ds[j].name
    <3>1. m \in Nat
      BY <1>1
    <3>2. \E f : /\ Laid(f, Len(ds)) /\ OfType(t, f, Len(ds))
                 /\ \A j \in 1 .. Len(ds) : f[j].tag = ds[j].tag /\ f[j].name = ds[j].name
      BY <2>2, <3>1, TypeLoaded
    <3> QED BY <3>2
  <2>4. DOMAIN ds = 1 .. n /\ n \in Nat /\ \A j \in 1 .. n : f[j].tag \in Nat
    BY <2>2, <2>3 DEF Laid
  <2>5. /\ \A j \in 1 .. n : FindTag(t, f[j].tag) = f[j]
        /\ \A tag \in Nat : \/ \E j \in 1 .. n : tag = f[j].tag
                            \/ tag = (IF n = 0 THEN 0 ELSE f[n].tag + 1)
                            \/ FindTag(t, tag) = Null
    BY <2>3, TagFound
  <2>6. \A x \in Range(ds) : FindTag(t, x.tag).name = x.name
    <3>1. ASSUME NEW x \in Range(ds) PROVE FindTag(t, x.tag).name = x.name
      <4>1. PICK j \in 1 .. n : x = ds[j]
        BY <2>4 DEF Range
      <4> QED BY <2>3, <2>5, <4>1
    <3> QED BY <3>1
  <2>7. next = (IF n = 0 THEN 0 ELSE f[n].tag + 1) /\ next \in Nat
    <3>1. CASE n = 0
      <4>1. ds \in Seq(FieldDef(m)) /\ Len(ds) = 0
        BY <2>2, <2>3, <3>1
      <4>2. ds = <<>>
        BY <4>1
      <4> QED BY <2>1, <3>1, <4>2
    <3>2. CASE n # 0
      <4>1. ds # <<>> /\ Last(ds) = ds[n] /\ n \in 1 .. n
        BY <2>2, <2>3, <2>4, <3>2 DEF Last
      <4>2. Last(ds).tag = f[n].tag /\ f[n].tag \in Nat
        BY <2>3, <2>4, <4>1
      <4>3. next = Last(ds).tag + 1
        BY <2>1, <4>1
      <4> QED BY <3>2, <4>2, <4>3
    <3> QED BY <3>1, <3>2
  <2>8. \A tag \in 0 .. next + 3 : tag \in {ds[j].tag : j \in DOMAIN ds} \cup {next} \/ FindTag(t, tag) = Null
    <3>1. ASSUME NEW tag \in 0 .. next + 3 PROVE tag \in {ds[j].tag : j \in DOMAIN ds} \cup {next} \/ FindTag(t, tag) = Null
      <4>1. tag \in Nat
        BY <2>7
      <4>2. (\E j \in 1 .. n : tag = f[j].tag) \/ tag = next \/ FindTag(t, tag) = Null
        BY <2>5, <2>7, <4>1
      <4> QED BY <2>3, <2>4, <4>2
    <3> QED BY <3>1
  <2>9. \A present \in SUBSET DOMAIN ds : WordsFor(t, present) <= t.maxn
    <3>1. ASSUME NEW present \in SUBSET DOMAIN ds PROVE WordsFor(t, present) <= t.maxn
      <4>1. present \subseteq 1 .. n
        BY <2>4
      <4> QED BY <2>3, <4>1, WordsFit
    <3> QED BY <3>1
  <2> QED BY <2>1, <2>6, <2>8, <2>9 DEF TypeWell
<1>4. ASSUME NEW p \in Range(d.protos)
      PROVE  QueryProto(sch, p.tag).name = p.name /\ ProtoByName(sch, p.name).tag = p.tag
  <2>1. PICK n : /\ n = Len(d.protos) /\ n \in Nat /\ DOMAIN d.protos = 1 .. n /\ DOMAIN sch.proto = 1 .. n /\ Len(sch.proto) = n
                 /\ \A i \in 1 .. n : /\ sch.proto[i].tag = d.protos[i].tag /\ sch.proto[i].tag \in Nat
                                      /\ sch.proto[i].name = d.protos[i].name
                 /\ \A i, j \in DOMAIN d.protos : d.protos[i].name = d.protos[j].name => i = j
    <3>1. /\ sch.proto \in Seq(Protocol) /\ Len(sch.proto) = Len(d.protos)
          /\ DOMAIN d.protos = 1 .. Len(d.protos) /\ Len(d.protos) \in Nat
          /\ \A i \in 1 .. Len(d.protos) : /\ sch.proto[i].tag = d.protos[i].tag /\ sch.proto[i].tag \in Nat
                                           /\ sch.proto[i].name = d.protos[i].name
      BY ProtosLoaded
    <3>2. \A i, j \in DOMAIN d.protos : d.protos[i].name = d.protos[j].name => i = j
      BY DEF IsSchema
    <3>3. DOMAIN sch.proto = 1 .. Len(d.protos)
      BY <3>1
    <3> QED BY <3>1, <3>2, <3>3
  <2>2. PICK i \in 1 .. n : p = d.protos[i]
    BY <2>1 DEF Range
  <2>3. QueryProto(sch, p.tag).name = p.name
    <3>1. PICK tag, q : tag = p.tag /\ q = QueryProto(sch, tag) /\ tag \in Int
      BY <2>1, <2>2
    <3>2. \A k \in 1 .. Len(d.protos) : d.protos[k].tag = tag => q = sch.proto[k]
      BY <3>1, ProtocolQueried
    <3> QED BY <2>1, <2>2, <3>1, <3>2
  <2>4. ProtoByName(sch, p.name).tag = p.tag
    <3>1. PICK name : name = p.name
      OBVIOUS
    <3>2. \E k \in 1 .. n : sch.proto[k].name = name
      BY <2>1, <2>2, <3>1
    <3>3. PICK k \in 1 .. n : ProtoByName(sch, name) = sch.proto[k] /\ sch.proto[k].name = name
      <4>1. n \in Nat /\ DOMAIN sch.proto = 1 .. n /\ Len(sch.proto) = n
        BY <2>1
      <4> HIDE <2>1
      <4> QED BY <3>2, <4>1, NameFound
    <3>4. k = i
      BY <2>1, <2>2, <3>1, <3>3
    <3> QED BY <2>1, <2>2, <3>1, <3>3, <3>4
  <2> QED BY <2>3, <2>4
<1>5. \A i \in DOMAIN d.types :
        LET t == sch.type[i]
            tags == {d.types[i][j].tag : j \in DOMAIN d.types[i]}
            next == IF d.types[i] = <<>> THEN 0 ELSE Last(d.types[i]).tag + 1
        IN  /\ \A f \in Range(d.types[i]) : FindTag(t, f.tag).name = f.name
            /\ \A tag \in 0 .. next + 3 : tag \in tags \cup {next} \/ FindTag(t, tag) = Null
            /\ \A present \in SUBSET DOMAIN d.types[i] : WordsFor(t, present) <= t.maxn
  BY <1>1, <1>3 DEF TypeWell
<1> QED BY <1>2, <1>4, <1>5 DEF LoadedWell

(* Both ends have loaded the schemas as they were written, whatever the       *)
(* schemas: every tag finds its field and no other, the header has room for    *)
(* the words of every object, and a protocol is found by tag and by name       *)
(* (createFromBundle, findTag, queryProto).                                   *)
THEOREM SchemaLoadedAlways == RpcSpec => []SchemaLoaded
<1>1. ASSUME RpcInv PROVE SchemaLoaded
  <2>1. Usable(Schemas[env.client], Client) /\ Usable(Schemas[env.server], Server)
    BY <1>1, EndsUsable DEF RpcInv
  <2>2. LoadedWell(Client, Schemas[env.client]) /\ LoadedWell(Server, Schemas[env.server])
    BY <2>1, LoadsWell DEF Usable
  <2> QED BY <2>2 DEF SchemaLoaded
<1> QED BY <1>1, RpcInvariant, PTL

=============================================================================
