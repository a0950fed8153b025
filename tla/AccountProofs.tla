---------------------------- MODULE AccountProofs ----------------------------
(***************************************************************************)
(* The account client, for any number of hosts and whatever the answers     *)
(* hold: when a request is given up, when signing in fails, and that the     *)
(* role that is written as JSON is the role that the application gets.      *)
(***************************************************************************)
EXTENDS Account, TLAPS, WellFoundedInduction, SequenceTheorems

-----------------------------------------------------------------------------
(* Induction over numbers: on a set of numbers, not on a predicate. *)

LEMMA LeastNat ==
    ASSUME NEW T, T \subseteq Nat, T # {}
    PROVE  \E x \in T : \A y \in T : x <= y
<1> DEFINE R == OpToRel(<, Nat)
<1>1. IsWellFoundedOn(R, Nat)
  BY NatLessThanWellFounded
<1>2. \A x, y \in Nat : x < y => <<x, y>> \in R
  BY DEF OpToRel
<1> HIDE DEF R
<1>3. PICK x \in T : \A y \in T : ~(<<y, x>> \in R)
  BY <1>1, WFMin
<1>4. ASSUME NEW y \in T PROVE x <= y
  <2>1. x \in Nat /\ y \in Nat
    OBVIOUS
  <2>2. ~(y < x)
    BY <1>2, <1>3, <2>1
  <2> QED BY <2>1, <2>2
<1> QED BY <1>4

(* Upwards from 0 to n. *)
LEMMA Upwards ==
    ASSUME NEW n \in Nat, NEW S, 0 \in S, \A k \in 1 .. n : k - 1 \in S => k \in S
    PROVE  0 .. n \subseteq S
<1> SUFFICES ASSUME (0 .. n) \ S # {} PROVE FALSE
  OBVIOUS
<1>1. PICK x \in (0 .. n) \ S : \A y \in (0 .. n) \ S : x <= y
  <2>1. (0 .. n) \ S \subseteq Nat
    OBVIOUS
  <2> QED BY <2>1, LeastNat
<1>2. x \in 1 .. n /\ x - 1 \in 0 .. n
  BY <1>1
<1>3. x - 1 \in S
  BY <1>1, <1>2
<1> QED BY <1>1, <1>2, <1>3

(* Downwards over the positions: all beyond n, and one if all after it. *)
LEMMA Downwards ==
    ASSUME NEW n \in Nat, NEW S, \A k \in Positions : k > n => k \in S,
           \A j \in 1 .. n : (\A k \in Positions : k > j => k \in S) => j \in S
    PROVE  Positions \subseteq S
<1> DEFINE Below == {m \in 0 .. n : \A k \in Positions : k > n - m => k \in S}
<1>1. 0 \in Below
  OBVIOUS
<1>2. ASSUME NEW m \in 1 .. n, m - 1 \in Below PROVE m \in Below
  <2>1. n - m + 1 \in 1 .. n /\ n - (m - 1) = n - m + 1
    OBVIOUS
  <2>2. \A k \in Positions : k > n - m + 1 => k \in S
    BY <1>2, <2>1
  <2>3. n - m + 1 \in S
    BY <2>1, <2>2
  <2>4. ASSUME NEW k \in Positions, k > n - m PROVE k \in S
    <3>1. k \in Nat /\ (k > n - m + 1 \/ k = n - m + 1)
      BY <2>4 DEF Positions
    <3> QED BY <3>1, <2>2, <2>3
  <2> QED BY <2>4
<1> HIDE DEF Below
<1>3. n \in Below
  BY <1>1, <1>2, Upwards
<1> QED BY <1>3 DEF Below, Positions

-----------------------------------------------------------------------------
(* The recursive functions of the scans exist, since each step goes forward.  *)

(* A jump from position to position, until one is a stop. *)
Jumps(f, stop, val, next) == f = [j \in Positions |-> IF stop[j] THEN val[j] ELSE f[next[j]]]

LEMMA JumpExists ==
    ASSUME NEW n \in Nat, NEW stop, NEW val, NEW next,
           \A j \in Positions : next[j] \in Positions /\ next[j] > j,
           \A j \in Positions : j > n => stop[j]
    PROVE  \E f : Jumps(f, stop, val, next)
<1> DEFINE Solves(f, k) == f[k] = IF stop[k] THEN val[k] ELSE f[next[k]]
           From(j) == \E f : f = [k \in Positions |-> f[k]] /\ \A k \in Positions : k >= j => Solves(f, k)
           S == {j \in Positions : From(j)}
<1>1. ASSUME NEW j \in Positions, j > n PROVE j \in S
  <2> DEFINE f == [k \in Positions |-> val[k]]
  <2>1. ASSUME NEW k \in Positions, k >= j PROVE Solves(f, k)
    BY <1>1, <2>1 DEF Positions
  <2>2. f = [k \in Positions |-> f[k]]
    OBVIOUS
  <2> HIDE DEF f
  <2> QED BY <2>1, <2>2
<1>2. ASSUME NEW j \in 1 .. n, \A k \in Positions : k > j => k \in S PROVE j \in S
  <2>1. j \in Positions /\ j + 1 \in S
    BY <1>2 DEF Positions
  <2>2. PICK g : g = [k \in Positions |-> g[k]] /\ \A k \in Positions : k >= j + 1 => Solves(g, k)
    BY <2>1
  <2> DEFINE f == [k \in Positions |-> IF k = j THEN IF stop[j] THEN val[j] ELSE g[next[j]] ELSE g[k]]
  <2>3. ASSUME NEW k \in Positions, k >= j PROVE Solves(f, k)
    <3>1. next[k] \in Positions /\ next[k] # j /\ next[k] > k
      BY <2>3 DEF Positions
    <3>2. f[next[k]] = g[next[k]]
      BY <3>1
    <3>3. CASE k = j
      BY <3>2, <3>3
    <3>4. CASE k # j
      <4>1. k >= j + 1
        BY <2>3, <3>4 DEF Positions
      <4>2. Solves(g, k)
        BY <2>2, <4>1
      <4>3. f[k] = g[k]
        BY <3>4
      <4> QED BY <3>2, <4>2, <4>3
    <3> QED BY <3>3, <3>4
  <2>4. f = [k \in Positions |-> f[k]]
    OBVIOUS
  <2> HIDE DEF f
  <2> QED BY <2>1, <2>3, <2>4
<1> HIDE DEF S
<1>3. Positions \subseteq S
  BY <1>1, <1>2, Downwards
<1>4. PICK f : f = [k \in Positions |-> f[k]] /\ \A k \in Positions : k >= 1 => Solves(f, k)
  BY <1>3 DEF S, Positions
<1>5. \A k \in Positions : Solves(f, k)
  BY <1>4 DEF Positions
<1>6. Jumps(f, stop, val, next)
  BY <1>4, <1>5 DEF Jumps
<1> QED BY <1>6

(* A scan, which puts something out at each position. *)
Scans(f, n, out, next) == f = [j \in Positions |-> IF j > n THEN <<>> ELSE out[j] \o f[next[j]]]

LEMMA ScanExists ==
    ASSUME NEW n \in Nat, NEW out, NEW next,
           \A j \in 1 .. n : next[j] \in Positions /\ next[j] > j
    PROVE  \E f : Scans(f, n, out, next)
<1> DEFINE Solves(f, k) == f[k] = IF k > n THEN <<>> ELSE out[k] \o f[next[k]]
           From(j) == \E f : f = [k \in Positions |-> f[k]] /\ \A k \in Positions : k >= j => Solves(f, k)
           S == {j \in Positions : From(j)}
<1>1. ASSUME NEW j \in Positions, j > n PROVE j \in S
  <2> DEFINE f == [k \in Positions |-> <<>>]
  <2>1. ASSUME NEW k \in Positions, k >= j PROVE Solves(f, k)
    <3>1. k > n
      BY <1>1, <2>1 DEF Positions
    <3>2. f[k] = <<>>
      OBVIOUS
    <3> QED BY <3>1, <3>2
  <2>2. f = [k \in Positions |-> f[k]]
    OBVIOUS
  <2> HIDE DEF f
  <2> QED BY <2>1, <2>2
<1>2. ASSUME NEW j \in 1 .. n, \A k \in Positions : k > j => k \in S PROVE j \in S
  <2>1. j \in Positions /\ j + 1 \in S
    BY <1>2 DEF Positions
  <2>2. PICK g : g = [k \in Positions |-> g[k]] /\ \A k \in Positions : k >= j + 1 => Solves(g, k)
    BY <2>1
  <2> DEFINE f == [k \in Positions |-> IF k = j THEN out[j] \o g[next[j]] ELSE g[k]]
  <2>3. ASSUME NEW k \in Positions, k >= j PROVE Solves(f, k)
    <3>1. CASE k > n
      <4>1. k # j /\ k >= j + 1
        BY <2>3, <3>1 DEF Positions
      <4>2. f[k] = g[k] /\ Solves(g, k)
        BY <2>2, <4>1
      <4> QED BY <3>1, <4>2
    <3>2. CASE ~(k > n)
      <4>1. k \in 1 .. n
        BY <3>2 DEF Positions
      <4>2. next[k] \in Positions /\ next[k] # j
        BY <2>3, <4>1 DEF Positions
      <4>3. f[next[k]] = g[next[k]]
        BY <4>2
      <4>4. CASE k = j
        BY <3>2, <4>3, <4>4
      <4>5. CASE k # j
        <5>1. k >= j + 1
          BY <2>3, <4>5 DEF Positions
        <5>2. Solves(g, k)
          BY <2>2, <5>1
        <5>3. f[k] = g[k]
          BY <4>5
        <5> QED BY <4>3, <5>2, <5>3
      <4> QED BY <4>4, <4>5
    <3> QED BY <3>1, <3>2
  <2>4. f = [k \in Positions |-> f[k]]
    OBVIOUS
  <2> HIDE DEF f
  <2> QED BY <2>1, <2>3, <2>4
<1> HIDE DEF S
<1>3. Positions \subseteq S
  BY <1>1, <1>2, Downwards
<1>4. PICK f : f = [k \in Positions |-> f[k]] /\ \A k \in Positions : k >= 1 => Solves(f, k)
  BY <1>3 DEF S, Positions
<1> HIDE DEF Solves
<1>5. \A k \in Positions : Solves(f, k)
  BY <1>4 DEF Positions
<1>6. [k \in Positions |-> f[k]] = [j \in Positions |-> IF j > n THEN <<>> ELSE out[j] \o f[next[j]]]
  BY <1>5 DEF Solves
<1>7. f = [j \in Positions |-> IF j > n THEN <<>> ELSE out[j] \o f[next[j]]]
  BY <1>4, <1>6
<1>8. Scans(f, n, out, next)
  BY <1>7 DEF Scans
<1> QED BY <1>8

(* What a scan puts out along the positions c[0], c[1], ... is put out in one *)
(* part or in two between one and the next.                                  *)
Along(f, n, c, p, q, C) ==
    /\ \A k \in 1 .. n : /\ \/ f[c[k - 1]] = p[k] \o (q[k] \o f[c[k]])
                            \/ f[c[k - 1]] = p[k] \o f[c[k]] /\ q[k] = <<>>
                         /\ p[k] \in Seq(C) /\ q[k] \in Seq(C)
    /\ f[c[n]] = <<>>

Sums(g, n, p, q) == g[0] = <<>> /\ \A k \in 1 .. n : g[k] = g[k - 1] \o (p[k] \o q[k])

Cat(x, y) == x \o y

LEMMA CatFacts ==
    ASSUME NEW C
    PROVE  /\ \A x, y \in Seq(C) : Cat(x, y) \in Seq(C)
           /\ \A x, y, z \in Seq(C) : Cat(x, Cat(y, z)) = Cat(Cat(x, y), z)
           /\ \A x \in Seq(C) : Cat(<<>>, x) = x /\ Cat(x, <<>>) = x
           /\ <<>> \in Seq(C)
<1>1. ASSUME NEW x \in Seq(C), NEW y \in Seq(C) PROVE Cat(x, y) \in Seq(C)
  BY ConcatProperties DEF Cat
<1>2. ASSUME NEW x \in Seq(C), NEW y \in Seq(C), NEW z \in Seq(C) PROVE Cat(x, Cat(y, z)) = Cat(Cat(x, y), z)
  <2>1. x \o (y \o z) = (x \o y) \o z
    BY ONLY ConcatAssociative, <1>2
  <2> QED BY <2>1 DEF Cat
<1>3. ASSUME NEW x \in Seq(C) PROVE Cat(<<>>, x) = x /\ Cat(x, <<>>) = x
  BY ConcatEmptySeq DEF Cat
<1> QED BY <1>1, <1>2, <1>3, EmptySeq

LEMMA ScanAlong ==
    ASSUME NEW C, NEW n \in Nat, NEW f, NEW c, NEW p, NEW q, NEW g,
           Along(f, n, c, p, q, C), Sums(g, n, p, q)
    PROVE  f[c[0]] = g[n]
<1> DEFINE Q == Seq(C)
           e == <<>>
<1>1. ASSUME NEW k \in 1 .. n
      PROVE  /\ \/ f[c[k - 1]] = Cat(p[k], Cat(q[k], f[c[k]]))
                \/ f[c[k - 1]] = Cat(p[k], f[c[k]]) /\ q[k] = e
             /\ g[k] = Cat(g[k - 1], Cat(p[k], q[k]))
             /\ p[k] \in Q /\ q[k] \in Q
  BY DEF Along, Sums, Cat
<1>2. f[c[n]] = e /\ g[0] = e
  BY DEF Along, Sums
<1>3. /\ \A x, y \in Q : Cat(x, y) \in Q
      /\ \A x, y, z \in Q : Cat(x, Cat(y, z)) = Cat(Cat(x, y), z)
      /\ \A x \in Q : Cat(e, x) = x /\ Cat(x, e) = x
      /\ e \in Q
  BY CatFacts
<1> HIDE DEF e, Q
<1>4. ASSUME NEW k \in 1 .. n, f[c[k]] \in Q PROVE f[c[k - 1]] = Cat(p[k], Cat(q[k], f[c[k]]))
  <2>1. CASE q[k] = e
    <3>1. Cat(q[k], f[c[k]]) = f[c[k]]
      BY <1>4, <1>3, <2>1, Zenon
    <3> QED BY <1>1, <3>1, Zenon
  <2>2. CASE q[k] # e
    BY <1>1, <2>2, Zenon
  <2> QED BY <2>1, <2>2
<1> DEFINE T == {m \in 0 .. n : f[c[n - m]] \in Q}
<1>5. 0 \in T
  <2>1. n - 0 = n /\ 0 \in 0 .. n
    OBVIOUS
  <2> QED BY <1>2, <1>3, <2>1
<1>6. ASSUME NEW m \in 1 .. n, m - 1 \in T PROVE m \in T
  <2>1. n - (m - 1) \in 1 .. n /\ n - m = n - (m - 1) - 1
    OBVIOUS
  <2>2. f[c[n - (m - 1)]] \in Q
    BY <1>6
  <2>3. f[c[n - (m - 1) - 1]] \in Q
    <3>1. PICK k : k = n - (m - 1) /\ k \in 1 .. n
      BY <2>1
    <3>2. f[c[k - 1]] = Cat(p[k], Cat(q[k], f[c[k]])) /\ p[k] \in Q /\ q[k] \in Q /\ f[c[k]] \in Q
      <4>1. f[c[k]] \in Q
        BY <2>2, <3>1
      <4> QED BY <1>4, <1>1, <3>1, <4>1
    <3>3. Cat(p[k], Cat(q[k], f[c[k]])) \in Q
      <4>1. Cat(q[k], f[c[k]]) \in Q
        BY <1>3, <3>2, Zenon
      <4> QED BY <1>3, <3>2, <4>1, Zenon
    <3>4. f[c[k - 1]] \in Q
      BY <3>2, <3>3, Zenon
    <3> QED BY <3>1, <3>4
  <2> QED BY <2>1, <2>3
<1> HIDE DEF T
<1>7. ASSUME NEW k \in 0 .. n PROVE f[c[k]] \in Q
  <2>1. n - k \in 0 .. n /\ n - (n - k) = k
    OBVIOUS
  <2>2. n - k \in T
    BY <1>5, <1>6, <2>1, Upwards
  <2> QED BY <2>1, <2>2 DEF T
<1> DEFINE U == {k \in 0 .. n : g[k] \in Q /\ f[c[0]] = Cat(g[k], f[c[k]])}
<1>8. 0 \in U
  <2>1. 0 \in 0 .. n
    OBVIOUS
  <2> QED BY <1>2, <1>3, <1>7, <2>1
<1>9. ASSUME NEW k \in 1 .. n, k - 1 \in U PROVE k \in U
  <2>1. g[k - 1] \in Q /\ f[c[0]] = Cat(g[k - 1], f[c[k - 1]])
    BY <1>9
  <2>2. f[c[k]] \in Q /\ k \in 0 .. n
    BY <1>7
  <2>3. /\ f[c[k - 1]] = Cat(p[k], Cat(q[k], f[c[k]])) /\ g[k] = Cat(g[k - 1], Cat(p[k], q[k]))
        /\ p[k] \in Q /\ q[k] \in Q
    BY <1>4, <1>1, <2>2
  <2>4. Cat(p[k], q[k]) \in Q /\ g[k] \in Q
    <3>1. Cat(p[k], q[k]) \in Q
      BY <1>3, <2>3, Zenon
    <3>2. Cat(g[k - 1], Cat(p[k], q[k])) \in Q
      BY <1>3, <2>1, <3>1, Zenon
    <3> QED BY <2>3, <3>1, <3>2, Zenon
  <2>5. f[c[k - 1]] = Cat(Cat(p[k], q[k]), f[c[k]])
    <3>1. p[k] \in Q /\ q[k] \in Q /\ f[c[k]] \in Q
      BY <2>2, <2>3
    <3>2. \A x, y, z \in Q : Cat(x, Cat(y, z)) = Cat(Cat(x, y), z)
      BY <1>3
    <3>3. Cat(p[k], Cat(q[k], f[c[k]])) = Cat(Cat(p[k], q[k]), f[c[k]])
      BY <3>1, <3>2, Zenon
    <3> QED BY <2>3, <3>3, Zenon
  <2>6. f[c[0]] = Cat(g[k], f[c[k]])
    <3>1. Cat(g[k - 1], Cat(Cat(p[k], q[k]), f[c[k]])) = Cat(Cat(g[k - 1], Cat(p[k], q[k])), f[c[k]])
      BY <1>3, <2>1, <2>2, <2>4, Zenon
    <3>2. f[c[0]] = Cat(g[k - 1], Cat(Cat(p[k], q[k]), f[c[k]]))
      BY <2>1, <2>5, Zenon
    <3> QED BY <2>3, <3>1, <3>2, Zenon
  <2> QED BY <2>2, <2>4, <2>6
<1> HIDE DEF U
<1>10. n \in U
  <2>1. n \in 0 .. n
    OBVIOUS
  <2> QED BY <1>8, <1>9, <2>1, Upwards
<1>11. g[n] \in Q /\ f[c[0]] = Cat(g[n], e)
  BY <1>2, <1>10 DEF U
<1> QED BY <1>3, <1>11

(* The parts of FlattenSeq, and where they are in the whole. *)
PartsOf(g, seqs, C) ==
    /\ Len(seqs) \in Nat /\ \A k \in 1 .. Len(seqs) : seqs[k] \in Seq(C)
    /\ g \in [0 .. Len(seqs) -> Seq(C)]
    /\ g[0] = <<>> /\ \A k \in 1 .. Len(seqs) : g[k] = g[k - 1] \o seqs[k]
    /\ FlattenSeq(seqs) = g[Len(seqs)]

LEMMA PartsExist ==
    ASSUME NEW C, NEW seqs \in Seq(Seq(C))
    PROVE  \E g : PartsOf(g, seqs, C)
<1> DEFINE n == Len(seqs)
           Solves(f) == f = [i \in 1 .. n |-> IF i = 1 THEN seqs[i] ELSE f[i - 1] \o seqs[i]]
           Upto(f, m) == /\ f \in [1 .. n -> Seq(C)]
                         /\ \A i \in 1 .. m : f[i] = IF i = 1 THEN seqs[i] ELSE f[i - 1] \o seqs[i]
           S == {m \in 0 .. n : \E f : Upto(f, m)}
<1>1. n \in Nat /\ \A i \in 1 .. n : seqs[i] \in Seq(C)
  BY LenProperties, ElementOfSeq
<1>2. CASE n = 0
  <2>1. seqs = <<>>
    BY <1>2, EmptySeq
  <2>2. FlattenSeq(seqs) = <<>>
    BY <1>2, <2>1 DEF FlattenSeq
  <2> DEFINE g == [k \in 0 .. 0 |-> <<>>]
  <2>3. g \in [0 .. 0 -> Seq(C)] /\ g[0] = <<>>
    BY EmptySeq
  <2> HIDE DEF g
  <2>4. \A k \in 1 .. 0 : g[k] = g[k - 1] \o seqs[k]
    OBVIOUS
  <2>5. PartsOf(g, seqs, C)
    BY <1>1, <1>2, <2>2, <2>3, <2>4 DEF PartsOf
  <2> QED BY <2>5
<1>3. CASE n # 0
  <2>1. 0 \in S
    <3>1. [i \in 1 .. n |-> <<>>] \in [1 .. n -> Seq(C)]
      BY EmptySeq
    <3> QED BY <1>1, <3>1
  <2>2. ASSUME NEW m \in 1 .. n, m - 1 \in S PROVE m \in S
    <3>1. PICK f : Upto(f, m - 1)
      BY <2>2
    <3> DEFINE x == IF m = 1 THEN seqs[m] ELSE f[m - 1] \o seqs[m]
    <3>2. x \in Seq(C)
      <4>1. CASE m = 1
        BY <1>1, <4>1
      <4>2. CASE m # 1
        <5>1. m - 1 \in 1 .. n
          BY <4>2
        <5>2. f[m - 1] \in Seq(C)
          BY <3>1, <5>1
        <5> QED BY <1>1, <4>2, <5>2, ConcatProperties
      <4> QED BY <4>1, <4>2
    <3> DEFINE h == [f EXCEPT ![m] = x]
    <3>3. h \in [1 .. n -> Seq(C)]
      BY <3>1, <3>2
    <3>4. ASSUME NEW i \in 1 .. m PROVE h[i] = IF i = 1 THEN seqs[i] ELSE h[i - 1] \o seqs[i]
      <4>1. h[m] = x /\ \A j \in 1 .. m - 1 : h[j] = f[j]
        BY <1>1, <3>1
      <4> HIDE DEF h
      <4>2. CASE i = m
        <5>1. CASE m = 1
          BY <4>1, <4>2, <5>1
        <5>2. CASE m # 1
          <6>1. m - 1 \in 1 .. m - 1
            BY <5>2
          <6> QED BY <4>1, <4>2, <5>2, <6>1
        <5> QED BY <5>1, <5>2
      <4>3. CASE i # m
        <5>1. i \in 1 .. m - 1
          BY <4>3
        <5>2. i # 1 => i - 1 \in 1 .. m - 1
          BY <5>1
        <5> QED BY <3>1, <4>1, <5>1, <5>2
      <4> QED BY <4>2, <4>3
    <3> HIDE DEF h
    <3>5. Upto(h, m)
      BY <3>3, <3>4
    <3> HIDE DEF Upto
    <3>6. m \in 0 .. n
      OBVIOUS
    <3> QED BY <3>5, <3>6
  <2> HIDE DEF S
  <2>3. n \in S
    <3>1. n \in 0 .. n
      BY <1>1
    <3> HIDE DEF n
    <3>2. 0 .. n \subseteq S
      BY <1>1, <2>1, <2>2, Upwards
    <3> QED BY <3>1, <3>2
  <2>4. PICK f : Upto(f, n)
    BY <2>3 DEF S
  <2>5. Solves(f)
    BY <2>4
  <2> DEFINE flatten == CHOOSE h : Solves(h)
  <2>6. Solves(flatten)
    BY <2>5
  <2>7. FlattenSeq(seqs) = flatten[n]
    BY <1>3 DEF FlattenSeq
  <2> HIDE DEF flatten
  <2>8. \A i \in 1 .. n : flatten[i] = IF i = 1 THEN seqs[i] ELSE flatten[i - 1] \o seqs[i]
    BY <2>6
  <2> HIDE DEF Solves
  <2> DEFINE g == [k \in 0 .. n |-> IF k = 0 THEN <<>> ELSE flatten[k]]
             U == {k \in 0 .. n : g[k] \in Seq(C)}
  <2>9. ASSUME NEW k \in 1 .. n PROVE g[k] = g[k - 1] \o seqs[k]
    <3>1. CASE k = 1
      <4>1. <<>> \o seqs[1] = seqs[1]
        BY <1>1, <3>1, ConcatEmptySeq
      <4> QED BY <1>1, <2>8, <3>1, <4>1
    <3>2. CASE k # 1
      <4>1. k - 1 \in 0 .. n /\ k - 1 # 0 /\ k \in 0 .. n /\ k # 0
        BY <1>1, <3>2
      <4>2. g[k - 1] = flatten[k - 1] /\ g[k] = flatten[k]
        BY <4>1
      <4> QED BY <2>8, <3>2, <4>2
    <3> QED BY <3>1, <3>2
  <2>10. g[0] = <<>> /\ g[n] = flatten[n] /\ DOMAIN g = 0 .. n /\ g = [k \in 0 .. n |-> g[k]]
    BY <1>1, <1>3
  <2> HIDE DEF g
  <2>11. 0 \in U
    <3>1. 0 \in 0 .. n /\ <<>> \in Seq(C)
      BY <1>1, EmptySeq
    <3> QED BY <2>10, <3>1
  <2>12. ASSUME NEW k \in 1 .. n, k - 1 \in U PROVE k \in U
    <3>1. g[k - 1] \in Seq(C) /\ seqs[k] \in Seq(C) /\ k \in 0 .. n
      BY <1>1, <2>12
    <3>2. g[k - 1] \o seqs[k] \in Seq(C)
      BY <3>1, ConcatProperties
    <3> QED BY <2>9, <3>1, <3>2
  <2> HIDE DEF U
  <2>13. \A k \in 0 .. n : g[k] \in Seq(C)
    <3> HIDE DEF n
    <3>1. 0 .. n \subseteq U
      BY <1>1, <2>11, <2>12, Upwards
    <3> QED BY <3>1 DEF U
  <2>14. g \in [0 .. n -> Seq(C)]
    BY <2>10, <2>13
  <2> QED BY <1>1, <2>7, <2>9, <2>10, <2>14 DEF PartsOf
<1> QED BY <1>2, <1>3

(* The parts are where the sums of the lengths say, and join as they should. *)
Placed(g, seqs) ==
    \A k \in 1 .. Len(seqs) :
       /\ Len(g[k]) = Len(g[k - 1]) + Len(seqs[k])
       /\ Len(g[k]) <= Len(g[Len(seqs)])
       /\ \A i \in 1 .. Len(seqs[k]) : g[Len(seqs)][Len(g[k - 1]) + i] = seqs[k][i]

LEMMA PartsPlaced ==
    ASSUME NEW C, NEW seqs, NEW g, PartsOf(g, seqs, C)
    PROVE  Placed(g, seqs)
<1> DEFINE n == Len(seqs)
           Prefix(k, m) == /\ Len(g[k]) <= Len(g[m])
                           /\ \A i \in 1 .. Len(g[k]) : g[m][i] = g[k][i]
           S == {m \in 0 .. n : \A k \in 0 .. m : Prefix(k, m)}
<1>1. n \in Nat /\ \A k \in 1 .. n : seqs[k] \in Seq(C)
  BY DEF PartsOf
<1>2. \A k \in 0 .. n : g[k] \in Seq(C)
  BY DEF PartsOf
<1> HIDE DEF n
<1>3. ASSUME NEW k \in 1 .. n
      PROVE  /\ k - 1 \in 0 .. n /\ k \in 0 .. n
             /\ Len(seqs[k]) \in Nat /\ Len(g[k - 1]) \in Nat /\ Len(g[k]) \in Nat
             /\ Len(g[k]) = Len(g[k - 1]) + Len(seqs[k])
             /\ \A i \in 1 .. Len(g[k - 1]) : g[k][i] = g[k - 1][i]
             /\ \A i \in 1 .. Len(seqs[k]) : g[k][Len(g[k - 1]) + i] = seqs[k][i]
  <2>1. k - 1 \in 0 .. n /\ k \in 0 .. n
    BY <1>1
  <2>2. g[k - 1] \in Seq(C) /\ seqs[k] \in Seq(C) /\ g[k] \in Seq(C) /\ g[k] = g[k - 1] \o seqs[k]
    BY <1>1, <1>2, <2>1 DEF PartsOf, n
  <2>3. PICK a \in Seq(C), b \in Seq(C) : a = g[k - 1] /\ b = seqs[k]
    BY <2>2
  <2>4. Len(a) \in Nat /\ Len(b) \in Nat
    BY LenProperties
  <2>5. /\ Len(a \o b) = Len(a) + Len(b)
        /\ \A i \in 1 .. Len(a) + Len(b) : (a \o b)[i] = IF i <= Len(a) THEN a[i] ELSE b[i - Len(a)]
    BY ConcatProperties
  <2>6. \A i \in 1 .. Len(a) : (a \o b)[i] = a[i]
    BY <2>4, <2>5
  <2>7. ASSUME NEW i \in 1 .. Len(b) PROVE (a \o b)[Len(a) + i] = b[i]
    <3>1. Len(a) + i \in 1 .. Len(a) + Len(b) /\ ~(Len(a) + i <= Len(a)) /\ Len(a) + i - Len(a) = i
      BY <2>4
    <3> QED BY <2>5, <3>1
  <2>8. g[k] = a \o b /\ g[k - 1] = a /\ seqs[k] = b
    BY <2>2, <2>3
  <2> HIDE DEF n
  <2> QED BY <2>1, <2>4, <2>5, <2>6, <2>7, <2>8
<1>4. 0 \in S
  <2>1. Prefix(0, 0) /\ 0 \in 0 .. n
    <3>1. Len(g[0]) \in Nat
      BY <1>1, <1>2, LenProperties
    <3> QED BY <1>1, <3>1
  <2> QED BY <2>1
<1>5. ASSUME NEW m \in 1 .. n, m - 1 \in S PROVE m \in S
  <2>1. ASSUME NEW k \in 0 .. m PROVE Prefix(k, m)
    <3>1. CASE k = m
      BY <1>3, <3>1
    <3>2. CASE k # m
      <4>1. k \in 0 .. m - 1 /\ k \in 0 .. n
        BY <1>1, <3>2
      <4>2. Prefix(m - 1, m)
        <5>1. Len(g[m]) = Len(g[m - 1]) + Len(seqs[m]) /\ Len(g[m - 1]) \in Nat /\ Len(seqs[m]) \in Nat
          BY <1>3
        <5>2. \A a, b \in Nat : a <= a + b
          OBVIOUS
        <5>3. Len(g[m - 1]) <= Len(g[m])
          BY <5>1, <5>2
        <5>4. \A i \in 1 .. Len(g[m - 1]) : g[m][i] = g[m - 1][i]
          BY <1>3
        <5> QED BY <5>3, <5>4
      <4>3. Prefix(k, m - 1) /\ Prefix(m - 1, m)
        <5> HIDE DEF Prefix
        <5> QED BY <1>5, <4>1, <4>2
      <4>4. Len(g[k]) \in Nat /\ Len(g[m - 1]) \in Nat /\ Len(g[m]) \in Nat
        BY <1>2, <1>3, <4>1, LenProperties
      <4> QED BY <4>3, <4>4
    <3> QED BY <3>1, <3>2
  <2> HIDE DEF Prefix
  <2>2. m \in 0 .. n
    BY <1>1
  <2> QED BY <2>1, <2>2
<1>6. ASSUME NEW k \in 0 .. n PROVE Prefix(k, n)
  <2> HIDE DEF S
  <2>1. 0 .. n \subseteq S
    BY <1>1, <1>4, <1>5, Upwards
  <2>2. n \in S
    BY <1>1, <2>1
  <2> HIDE DEF Prefix
  <2> QED BY <2>2 DEF S
<1>7. ASSUME NEW k \in 1 .. n, NEW i \in 1 .. Len(seqs[k])
      PROVE  g[n][Len(g[k - 1]) + i] = seqs[k][i]
  <2>1. Len(g[k]) = Len(g[k - 1]) + Len(seqs[k]) /\ Len(g[k - 1]) \in Nat /\ Len(seqs[k]) \in Nat
    BY <1>3
  <2>2. Len(g[k - 1]) + i \in 1 .. Len(g[k])
    <3>1. \A a, b \in Nat : \A x \in 1 .. b : a + x \in 1 .. a + b
      OBVIOUS
    <3> QED BY <2>1, <3>1
  <2> QED BY <1>3, <1>6, <2>2
<1>8. ASSUME NEW k \in 1 .. n PROVE Len(g[k]) = Len(g[k - 1]) + Len(seqs[k]) /\ Len(g[k]) <= Len(g[n])
  BY <1>3, <1>6
<1> QED BY <1>7, <1>8 DEF Placed, n

-----------------------------------------------------------------------------
(* The inner loops of the scan go forward, and not beyond the end. *)

Text == Seq(Chars)

LEMMA TextFacts ==
    ASSUME NEW t \in Text
    PROVE  /\ Len(t) \in Nat /\ DOMAIN t = 1 .. Len(t) /\ \A i \in 1 .. Len(t) : t[i] \in Chars
           /\ \A i \in 1 .. Len(t) : CharAt(t, i) = t[i]
           /\ CharAt(t, Len(t) + 1) = "end"
<1>1. Len(t) \in Nat /\ DOMAIN t = 1 .. Len(t) /\ \A i \in 1 .. Len(t) : t[i] \in Chars
  BY LenProperties, ElementOfSeq DEF Text
<1>2. CharAt(t, Len(t) + 1) = "end"
  BY <1>1 DEF CharAt
<1> QED BY <1>1, <1>2 DEF CharAt

LEMMA DigitsEndIs ==
    ASSUME NEW t \in Text, NEW i \in 1 .. Len(t) + 1, NEW j \in i .. Len(t) + 1,
           ~IsDigit(CharAt(t, j)), \A k \in i .. j - 1 : IsDigit(CharAt(t, k))
    PROVE  DigitsEnd(t, i) = j
<1> DEFINE Ends(x) == ~IsDigit(CharAt(t, x)) /\ \A k \in i .. x - 1 : IsDigit(CharAt(t, k))
<1>1. Ends(j) /\ Len(t) \in Nat
  BY TextFacts
<1>2. ASSUME NEW x \in i .. Len(t) + 1, Ends(x) PROVE x = j
  <2>1. ~(x < j) /\ ~(j < x)
    BY <1>1, <1>2
  <2> QED BY <1>1, <2>1
<1> HIDE DEF Ends
<1>3. (CHOOSE x \in i .. Len(t) + 1 : Ends(x)) = j
  BY <1>1, <1>2
<1> QED BY <1>3 DEF DigitsEnd, Ends

LEMMA DigitsEndIn ==
    ASSUME NEW t \in Text, NEW i \in 1 .. Len(t) + 1
    PROVE  /\ DigitsEnd(t, i) \in i .. Len(t) + 1
           /\ ~IsDigit(CharAt(t, DigitsEnd(t, i)))
<1> DEFINE T == {j \in i .. Len(t) + 1 : ~IsDigit(CharAt(t, j))}
<1>1. Len(t) \in Nat /\ CharAt(t, Len(t) + 1) = "end"
  BY TextFacts
<1>2. Len(t) + 1 \in T
  BY <1>1 DEF IsDigit, Digits
<1>3. T \subseteq Nat
  BY <1>1
<1>4. PICK j \in T : \A k \in T : j <= k
  BY <1>2, <1>3, LeastNat
<1>5. ASSUME NEW k \in i .. j - 1 PROVE IsDigit(CharAt(t, k))
  <2>1. k \in i .. Len(t) + 1 /\ ~(j <= k)
    BY <1>1
  <2> QED BY <1>4, <2>1
<1>6. DigitsEnd(t, i) = j
  BY <1>5, DigitsEndIs
<1> QED BY <1>6

LEMMA NumberEndIn ==
    ASSUME NEW t \in Text, NEW i \in 1 .. Len(t), StartsNumber(t[i])
    PROVE  NumberEnd(t, i) \in i + 1 .. Len(t) + 1
<1>1. Len(t) \in Nat /\ \A k \in 1 .. Len(t) : CharAt(t, k) = t[k]
      /\ CharAt(t, Len(t) + 1) = "end"
  BY TextFacts
<1>2. IntEnd(t, i) \in i + 1 .. Len(t) + 1
  <2>1. CASE t[i] = "-"
    <3>1. i + 1 \in 1 .. Len(t) + 1
      BY <1>1
    <3> QED BY <2>1, <3>1, DigitsEndIn DEF IntEnd
  <2>2. CASE t[i] # "-"
    <3>1. IsDigit(t[i]) /\ i \in 1 .. Len(t) + 1
      BY <1>1, <2>2 DEF StartsNumber
    <3>2. DigitsEnd(t, i) # i /\ DigitsEnd(t, i) \in i .. Len(t) + 1
      BY <1>1, <3>1, DigitsEndIn
    <3> QED BY <1>1, <2>2, <3>2 DEF IntEnd
  <2> QED BY <2>1, <2>2
<1>3. ASSUME NEW j \in 1 .. Len(t) + 1 PROVE FractionEnd(t, j) \in j .. Len(t) + 1
  <2>1. CASE CharAt(t, j) = "."
    <3>1. j # Len(t) + 1
      BY <1>1, <2>1
    <3>2. j + 1 \in 1 .. Len(t) + 1
      BY <1>1, <3>1
    <3>3. DigitsEnd(t, j + 1) \in j + 1 .. Len(t) + 1
      BY <3>2, DigitsEndIn
    <3> QED BY <1>1, <2>1, <3>3 DEF FractionEnd
  <2>2. CASE CharAt(t, j) # "."
    BY <1>1, <2>2 DEF FractionEnd
  <2> QED BY <2>1, <2>2
<1>4. ASSUME NEW j \in 1 .. Len(t) + 1 PROVE ExponentEnd(t, j) \in j .. Len(t) + 1
  <2>1. CASE CharAt(t, j) = "e"
    <3>1. j # Len(t) + 1
      BY <1>1, <2>1
    <3>2. j + 1 \in 1 .. Len(t) + 1
      BY <1>1, <3>1
    <3>3. CASE CharAt(t, j + 1) \in {"+", "-"}
      <4>1. j + 1 # Len(t) + 1
        BY <1>1, <3>3
      <4>2. j + 2 \in 1 .. Len(t) + 1
        BY <1>1, <3>2, <4>1
      <4>3. DigitsEnd(t, j + 2) \in j + 2 .. Len(t) + 1
        BY <4>2, DigitsEndIn
      <4> QED BY <1>1, <2>1, <3>3, <4>3 DEF ExponentEnd
    <3>4. CASE CharAt(t, j + 1) \notin {"+", "-"}
      <4>1. DigitsEnd(t, j + 1) \in j + 1 .. Len(t) + 1
        BY <3>2, DigitsEndIn
      <4> QED BY <1>1, <2>1, <3>4, <4>1 DEF ExponentEnd
    <3> QED BY <3>3, <3>4
  <2>2. CASE CharAt(t, j) # "e"
    BY <1>1, <2>2 DEF ExponentEnd
  <2> QED BY <2>1, <2>2
<1>5. PICK x : x = IntEnd(t, i) /\ x \in i + 1 .. Len(t) + 1 /\ x \in 1 .. Len(t) + 1
  BY <1>1, <1>2
<1>6. PICK y : y = FractionEnd(t, x) /\ y \in x .. Len(t) + 1 /\ y \in 1 .. Len(t) + 1
  BY <1>1, <1>3, <1>5
<1>7. ExponentEnd(t, y) \in y .. Len(t) + 1
  BY <1>4, <1>6
<1>8. NumberEnd(t, i) = ExponentEnd(t, y)
  BY <1>5, <1>6 DEF NumberEnd
<1> QED BY <1>1, <1>5, <1>6, <1>7, <1>8

LEMMA AfterCharIn == \A t, j : AfterChar(t, j) \in {j + 1, j + 2}
BY DEF AfterChar

StringEndStep(t, f) ==
    f = [j \in Positions |-> IF j > Len(t) THEN Len(t) + 1
                             ELSE IF t[j] = "quote" THEN j + 1 ELSE f[AfterChar(t, j)]]

LEMMA StringEndScans ==
    ASSUME NEW t \in Text
    PROVE  \E f : StringEndStep(t, f) /\ \A i : StringEnd(t, i) = f[i]
<1> DEFINE n == Len(t)
           stop == [j \in Positions |-> j > n \/ t[j] = "quote"]
           val == [j \in Positions |-> IF j > n THEN n + 1 ELSE j + 1]
           next == [j \in Positions |-> AfterChar(t, j)]
<1>1. n \in Nat
  BY TextFacts
<1>2. \A j \in Positions : next[j] \in Positions /\ next[j] > j
  BY AfterCharIn DEF Positions
<1>3. \A j \in Positions : j > n => stop[j]
  OBVIOUS
<1>4. \E f : Jumps(f, stop, val, next)
  <2> HIDE DEF n, stop, val, next
  <2> QED BY <1>1, <1>2, <1>3, JumpExists
<1>5. PICK f : f = [j \in Positions |-> IF stop[j] THEN val[j] ELSE f[next[j]]]
  BY <1>4 DEF Jumps
<1>6. [j \in Positions |-> IF stop[j] THEN val[j] ELSE f[next[j]]]
      = [j \in Positions |-> IF j > Len(t) THEN Len(t) + 1
                             ELSE IF t[j] = "quote" THEN j + 1 ELSE f[AfterChar(t, j)]]
  OBVIOUS
<1>7. StringEndStep(t, f)
  <2> HIDE DEF n, stop, val, next
  <2> QED BY <1>5, <1>6 DEF StringEndStep
<1> DEFINE end == CHOOSE h : StringEndStep(t, h)
<1>8. StringEndStep(t, end)
  BY <1>7
<1>9. \A i : StringEnd(t, i) = end[i]
  BY DEF StringEnd, StringEndStep
<1> HIDE DEF end
<1> QED BY <1>8, <1>9

LEMMA StringEndIn ==
    ASSUME NEW t \in Text, NEW i \in 1 .. Len(t) + 1
    PROVE  StringEnd(t, i) \in i .. Len(t) + 1
<1>1. PICK f : StringEndStep(t, f) /\ \A j : StringEnd(t, j) = f[j]
  BY StringEndScans
<1>2. PICK n \in Nat : n = Len(t)
  BY TextFacts
<1>3. \A j \in Positions : f[j] = IF j > n THEN n + 1
                                  ELSE IF t[j] = "quote" THEN j + 1 ELSE f[AfterChar(t, j)]
  BY <1>1, <1>2 DEF StringEndStep
<1> DEFINE S == {j \in Positions : f[j] \in Nat /\ f[j] <= n + 1 /\ (f[j] >= j \/ f[j] = n + 1)}
<1>4. \A j \in Positions : j > n => j \in S
  BY <1>3
<1>5. ASSUME NEW j \in 1 .. n, \A k \in Positions : k > j => k \in S PROVE j \in S
  <2>1. j \in Positions /\ AfterChar(t, j) \in Positions /\ AfterChar(t, j) > j /\ ~(j > n)
    BY AfterCharIn DEF Positions
  <2>2. CASE t[j] = "quote"
    BY <1>3, <2>1, <2>2
  <2>3. CASE t[j] # "quote"
    <3>1. f[j] = f[AfterChar(t, j)] /\ AfterChar(t, j) \in S
      BY <1>3, <1>5, <2>1, <2>3
    <3> QED BY <2>1, <3>1 DEF Positions
  <2> QED BY <2>2, <2>3
<1> HIDE DEF S
<1>6. Positions \subseteq S
  BY <1>4, <1>5, Downwards
<1>7. i \in S
  BY <1>2, <1>6 DEF Positions
<1> QED BY <1>1, <1>2, <1>7 DEF S

LiteralEndStep(t, f) ==
    f = [j \in Positions |-> IF j > Len(t) \/ t[j] = "quote" THEN j ELSE f[AfterChar(t, j)]]

LEMMA LiteralEndScans ==
    ASSUME NEW t \in Text
    PROVE  \E f : LiteralEndStep(t, f) /\ \A i : LiteralEnd(t, i) = f[i]
<1> DEFINE n == Len(t)
           stop == [j \in Positions |-> j > n \/ t[j] = "quote"]
           val == [j \in Positions |-> j]
           next == [j \in Positions |-> AfterChar(t, j)]
<1>1. n \in Nat
  BY TextFacts
<1>2. \A j \in Positions : next[j] \in Positions /\ next[j] > j
  BY AfterCharIn DEF Positions
<1>3. \A j \in Positions : j > n => stop[j]
  OBVIOUS
<1>4. \E f : Jumps(f, stop, val, next)
  <2> HIDE DEF n, stop, val, next
  <2> QED BY <1>1, <1>2, <1>3, JumpExists
<1>5. PICK f : f = [j \in Positions |-> IF stop[j] THEN val[j] ELSE f[next[j]]]
  BY <1>4 DEF Jumps
<1>6. [j \in Positions |-> IF stop[j] THEN val[j] ELSE f[next[j]]]
      = [j \in Positions |-> IF j > Len(t) \/ t[j] = "quote" THEN j ELSE f[AfterChar(t, j)]]
  OBVIOUS
<1>7. LiteralEndStep(t, f)
  <2> HIDE DEF n, stop, val, next
  <2> QED BY <1>5, <1>6 DEF LiteralEndStep
<1> DEFINE end == CHOOSE h : LiteralEndStep(t, h)
<1>8. LiteralEndStep(t, end)
  BY <1>7
<1>9. \A i : LiteralEnd(t, i) = end[i]
  BY DEF LiteralEnd, LiteralEndStep
<1> HIDE DEF end
<1> QED BY <1>8, <1>9

LEMMA LiteralEndIn ==
    ASSUME NEW t \in Text, NEW i \in Positions
    PROVE  LiteralEnd(t, i) \in Nat /\ LiteralEnd(t, i) >= i
<1>1. PICK f : LiteralEndStep(t, f) /\ \A j : LiteralEnd(t, j) = f[j]
  BY LiteralEndScans
<1>2. PICK n \in Nat : n = Len(t)
  BY TextFacts
<1>3. \A j \in Positions : f[j] = IF j > n \/ t[j] = "quote" THEN j ELSE f[AfterChar(t, j)]
  BY <1>1, <1>2 DEF LiteralEndStep
<1> DEFINE S == {j \in Positions : f[j] \in Nat /\ f[j] >= j}
<1>4. \A j \in Positions : j > n => j \in S
  BY <1>3 DEF Positions
<1>5. ASSUME NEW j \in 1 .. n, \A k \in Positions : k > j => k \in S PROVE j \in S
  <2>1. j \in Positions /\ AfterChar(t, j) \in Positions /\ AfterChar(t, j) > j /\ ~(j > n)
    BY AfterCharIn DEF Positions
  <2>2. CASE t[j] = "quote"
    BY <1>3, <2>1, <2>2
  <2>3. CASE t[j] # "quote"
    <3>1. f[j] = f[AfterChar(t, j)] /\ AfterChar(t, j) \in S
      BY <1>3, <1>5, <2>1, <2>3
    <3> QED BY <2>1, <3>1 DEF Positions
  <2> QED BY <2>2, <2>3
<1> HIDE DEF S
<1>6. Positions \subseteq S
  BY <1>4, <1>5, Downwards
<1> QED BY <1>1, <1>6 DEF S

(* The three scans over a whole text. *)

LEMMA QuoteStartsNone == ~StartsNumber("quote")
BY DEF StartsNumber, IsDigit, Digits

LEMMA TokenEndIn ==
    ASSUME NEW t \in Text, NEW i \in 1 .. Len(t)
    PROVE  TokenEnd(t, i) \in i + 1 .. Len(t) + 1
<1>1. Len(t) \in Nat
  BY TextFacts
<1>2. CASE t[i] = "quote"
  <2>1. i + 1 \in 1 .. Len(t) + 1
    BY <1>1
  <2>2. StringEnd(t, i + 1) \in i + 1 .. Len(t) + 1
    BY <2>1, StringEndIn
  <2>3. TokenEnd(t, i) = StringEnd(t, i + 1)
    BY <1>2, QuoteStartsNone DEF TokenEnd
  <2> QED BY <1>1, <2>2, <2>3
<1>3. CASE t[i] # "quote" /\ StartsNumber(t[i])
  BY <1>3, NumberEndIn DEF TokenEnd
<1>4. CASE t[i] # "quote" /\ ~StartsNumber(t[i])
  BY <1>1, <1>4 DEF TokenEnd
<1> QED BY <1>2, <1>3, <1>4

LEMMA ValueEndIn ==
    ASSUME NEW t \in Text, NEW i \in 1 .. Len(t)
    PROVE  ValueEnd(t, i) \in Positions /\ ValueEnd(t, i) > i
<1>1. Len(t) \in Nat
  BY TextFacts
<1>2. CASE t[i] = "quote"
  <2>1. i + 1 \in Positions
    BY <1>1 DEF Positions
  <2>2. LiteralEnd(t, i + 1) \in Nat /\ LiteralEnd(t, i + 1) >= i + 1
    BY <2>1, LiteralEndIn
  <2>3. ValueEnd(t, i) = LiteralEnd(t, i + 1) + 1
    BY <1>2, QuoteStartsNone DEF ValueEnd
  <2> QED BY <1>1, <2>2, <2>3 DEF Positions
<1>3. CASE t[i] # "quote" /\ StartsNumber(t[i])
  <2>1. ValueEnd(t, i) \in i + 1 .. Len(t) + 1
    BY <1>3, NumberEndIn DEF ValueEnd
  <2> QED BY <1>1, <2>1 DEF Positions
<1>4. CASE t[i] # "quote" /\ ~StartsNumber(t[i])
  BY <1>1, <1>4 DEF ValueEnd, Positions
<1> QED BY <1>2, <1>3, <1>4

QuoteStep(t, f) ==
    f = [i \in Positions |-> IF i > Len(t) THEN <<>> ELSE QuotedToken(t, i) \o f[TokenEnd(t, i)]]

LEMMA QuoteScans ==
    ASSUME NEW t \in Text
    PROVE  \E f : QuoteStep(t, f) /\ QuoteUnsafeIntegers(t) = f[1]
<1> DEFINE n == Len(t)
           out == [i \in Positions |-> QuotedToken(t, i)]
           next == [i \in Positions |-> TokenEnd(t, i)]
<1>1. n \in Nat
  BY TextFacts
<1>2. \A i \in 1 .. n : next[i] \in Positions /\ next[i] > i
  <2>1. ASSUME NEW i \in 1 .. n PROVE next[i] \in Positions /\ next[i] > i
    <3>1. TokenEnd(t, i) \in i + 1 .. n + 1 /\ i \in Positions
      BY <1>1, TokenEndIn DEF Positions
    <3> QED BY <1>1, <3>1 DEF Positions
  <2> QED BY <2>1
<1>3. \E f : Scans(f, n, out, next)
  <2> HIDE DEF n, out, next
  <2> QED BY <1>1, <1>2, ScanExists
<1>4. PICK f : Scans(f, n, out, next)
  BY <1>3
<1>5. [i \in Positions |-> IF i > n THEN <<>> ELSE out[i] \o f[next[i]]]
      = [i \in Positions |-> IF i > Len(t) THEN <<>> ELSE QuotedToken(t, i) \o f[TokenEnd(t, i)]]
  OBVIOUS
<1>6. QuoteStep(t, f)
  <2> HIDE DEF n, out, next
  <2> QED BY <1>4, <1>5 DEF QuoteStep, Scans
<1> DEFINE from == CHOOSE h : QuoteStep(t, h)
<1>7. QuoteStep(t, from)
  BY <1>6
<1>8. QuoteUnsafeIntegers(t) = from[1]
  BY DEF QuoteUnsafeIntegers, QuoteStep
<1> HIDE DEF from
<1> QED BY <1>7, <1>8

ReadStep(t, f) ==
    f = [i \in Positions |-> IF i > Len(t) THEN <<>> ELSE ValueAt(t, i) \o f[ValueEnd(t, i)]]

LEMMA ReadScans ==
    ASSUME NEW t \in Text
    PROVE  \E f : ReadStep(t, f) /\ Read(t) = f[1]
<1> DEFINE n == Len(t)
           out == [i \in Positions |-> ValueAt(t, i)]
           next == [i \in Positions |-> ValueEnd(t, i)]
<1>1. n \in Nat
  BY TextFacts
<1>2. \A i \in 1 .. n : next[i] \in Positions /\ next[i] > i
  BY ValueEndIn DEF Positions
<1>3. \E f : Scans(f, n, out, next)
  <2> HIDE DEF n, out, next
  <2> QED BY <1>1, <1>2, ScanExists
<1>4. PICK f : Scans(f, n, out, next)
  BY <1>3
<1>5. [i \in Positions |-> IF i > n THEN <<>> ELSE out[i] \o f[next[i]]]
      = [i \in Positions |-> IF i > Len(t) THEN <<>> ELSE ValueAt(t, i) \o f[ValueEnd(t, i)]]
  OBVIOUS
<1>6. ReadStep(t, f)
  <2> HIDE DEF n, out, next
  <2> QED BY <1>4, <1>5 DEF ReadStep, Scans
<1> DEFINE from == CHOOSE h : ReadStep(t, h)
<1>7. ReadStep(t, from)
  BY <1>6
<1>8. Read(t) = from[1]
  BY DEF Read, ReadStep
<1> HIDE DEF from
<1> QED BY <1>7, <1>8

UnescapeStep(s, f) ==
    f = [i \in Positions |-> IF i > Len(s) THEN <<>> ELSE <<s[AfterChar(s, i) - 1]>> \o f[AfterChar(s, i)]]

LEMMA UnescapeScans ==
    ASSUME NEW s \in Text
    PROVE  \E f : UnescapeStep(s, f) /\ Unescape(s) = f[1]
<1> DEFINE n == Len(s)
           out == [i \in Positions |-> <<s[AfterChar(s, i) - 1]>>]
           next == [i \in Positions |-> AfterChar(s, i)]
<1>1. n \in Nat
  BY TextFacts
<1>2. \A i \in 1 .. n : next[i] \in Positions /\ next[i] > i
  BY AfterCharIn DEF Positions
<1>3. \E f : Scans(f, n, out, next)
  <2> HIDE DEF n, out, next
  <2> QED BY <1>1, <1>2, ScanExists
<1>4. PICK f : Scans(f, n, out, next)
  BY <1>3
<1>5. [i \in Positions |-> IF i > n THEN <<>> ELSE out[i] \o f[next[i]]]
      = [i \in Positions |-> IF i > Len(s) THEN <<>> ELSE <<s[AfterChar(s, i) - 1]>> \o f[AfterChar(s, i)]]
  OBVIOUS
<1>6. UnescapeStep(s, f)
  <2> HIDE DEF n, out, next
  <2> QED BY <1>4, <1>5 DEF UnescapeStep, Scans
<1> DEFINE from == CHOOSE h : UnescapeStep(s, h)
<1>7. UnescapeStep(s, from)
  BY <1>6
<1>8. Unescape(s) = from[1]
  BY DEF Unescape, UnescapeStep
<1> HIDE DEF from
<1> QED BY <1>7, <1>8

-----------------------------------------------------------------------------
(* A written value is one token of the text it stands in. *)

Occurs(w, t, i) ==
    /\ w \in Text /\ t \in Text /\ i \in Nat /\ i >= 1
    /\ \A k \in 1 .. Len(w) : i + k - 1 \in 1 .. Len(t) /\ t[i + k - 1] = w[k]

LEMMA OccursFacts ==
    ASSUME NEW w, NEW t, NEW i, Occurs(w, t, i)
    PROVE  \A k \in 1 .. Len(w), u \in Nat : u = i + k - 1 =>
              u \in 1 .. Len(t) /\ CharAt(t, u) = w[k] /\ CharAt(w, k) = w[k] /\ t[u] = w[k]
BY TextFacts DEF Occurs

LEMMA OccursIsSubSeq ==
    ASSUME NEW w, NEW t, NEW i, NEW j \in Nat, Occurs(w, t, i), j = i + Len(w)
    PROVE  SubSeq(t, i, j - 1) = w
<1>1. w \in Seq(Chars) /\ t \in Text /\ i \in Nat /\ i >= 1 /\ Len(w) \in Nat /\ Len(t) \in Nat
  BY TextFacts DEF Occurs, Text
<1>2. ASSUME NEW u \in i .. j - 1 PROVE t[u] \in Chars
  <2>1. u \in Nat /\ u - i + 1 \in 1 .. Len(w) /\ u = i + (u - i + 1) - 1
    BY <1>1
  <2>2. u \in 1 .. Len(t)
    BY <2>1, OccursFacts
  <2> QED BY <1>1, <2>2, TextFacts
<1>3. PICK v : v = SubSeq(t, i, j - 1)
  OBVIOUS
<1>4. i \in Int /\ j - 1 \in Int
  BY <1>1
<1>5. /\ v \in Seq(Chars)
      /\ Len(v) = IF i <= j - 1 THEN j - 1 - i + 1 ELSE 0
      /\ \A k \in 1 .. j - 1 - i + 1 : v[k] = t[i + k - 1]
  BY <1>2, <1>3, <1>4, SubSeqProperties
<1>6. Len(v) = Len(w)
  <2>1. CASE i <= j - 1
    BY <1>1, <1>5, <2>1
  <2>2. CASE ~(i <= j - 1)
    BY <1>1, <1>5, <2>2
  <2> QED BY <2>1, <2>2
<1>7. ASSUME NEW k \in 1 .. Len(w) PROVE v[k] = w[k]
  <2>1. k \in 1 .. j - 1 - i + 1 /\ i + k - 1 \in Nat
    BY <1>1
  <2>2. v[k] = t[i + k - 1]
    BY <1>5, <2>1
  <2> QED BY <2>1, <2>2, OccursFacts
<1>8. v = w
  BY <1>1, <1>5, <1>6, <1>7, SeqEqual
<1> QED BY <1>3, <1>8

LEMMA DigitsOccur ==
    ASSUME NEW w, NEW t, NEW i, Occurs(w, t, i), NEW x \in 1 .. Len(w) + 1, NEW y \in 1 .. Len(w) + 1,
           DigitsBetween(w, x, y), NEW u \in Nat, NEW v \in Nat, u = i + x - 1, v = i + y - 1,
           ~IsDigit(CharAt(t, v))
    PROVE  DigitsEnd(t, u) = v
<1>1. t \in Text /\ w \in Text /\ i \in Nat /\ i >= 1 /\ Len(w) \in Nat /\ Len(t) \in Nat
  BY TextFacts DEF Occurs
<1>2. x < y /\ \A k \in x .. y - 1 : IsDigit(w[k])
  BY DEF DigitsBetween
<1>3. y - 1 \in 1 .. Len(w) /\ v - 1 \in Nat /\ v - 1 = i + (y - 1) - 1
  BY <1>1, <1>2
<1>4. v - 1 \in 1 .. Len(t)
  BY <1>3, OccursFacts
<1>5. u \in 1 .. Len(t) + 1 /\ v \in u .. Len(t) + 1
  BY <1>1, <1>2, <1>4
<1>6. ASSUME NEW j \in u .. v - 1 PROVE IsDigit(CharAt(t, j))
  <2>1. PICK k \in x .. y - 1 : j = i + k - 1
    <3>1. j - i + 1 \in x .. y - 1 /\ j = i + (j - i + 1) - 1
      BY <1>1, <1>2
    <3> QED BY <3>1
  <2>2. j \in Nat /\ k \in 1 .. Len(w)
    BY <1>1, <1>3
  <2>3. CharAt(t, j) = w[k] /\ IsDigit(w[k])
    BY <1>2, <2>1, <2>2, OccursFacts
  <2> QED BY <2>3
<1> QED BY <1>1, <1>5, <1>6, DigitsEndIs

(* w stands in t at i, and a comma follows at e. *)
Item(w, t, i, e) == /\ Occurs(w, t, i) /\ e = i + Len(w)
                    /\ e \in 1 .. Len(t) /\ t[e] = ","

LEMMA NumberToken ==
    ASSUME NEW w, NEW t, NEW i, NEW e, Item(w, t, i, e), IsNumberText(w)
    PROVE  StartsNumber(t[i]) /\ t[i] = w[1] /\ NumberEnd(t, i) = e
<1> DEFINE m == Len(w)
<1>1. t \in Text /\ w \in Text /\ i \in Nat /\ i >= 1 /\ m \in Nat /\ m # 0 /\ Occurs(w, t, i)
  BY TextFacts, EmptySeq DEF Item, Occurs, IsNumberText, Text
<1>2. e = i + m /\ e \in Nat
  <2>1. e = i + m
    BY DEF Item
  <2> QED BY <1>1, <2>1
<1>3. CharAt(t, e) = ","
  BY <1>1, TextFacts DEF Item
<1>4. CharAt(w, m + 1) = "end"
  BY <1>1, TextFacts
<1>5. PICK b \in 1 .. m + 1, c \in 1 .. m + 1 :
         /\ DigitsBetween(w, IF w[1] = "-" THEN 2 ELSE 1, b)
         /\ b = c \/ (CharAt(w, b) = "." /\ DigitsBetween(w, b + 1, c))
         /\ \/ c = m + 1
            \/ CharAt(w, c) = "e" /\ DigitsBetween(w, IF CharAt(w, c + 1) \in {"+", "-"} THEN c + 2 ELSE c + 1, m + 1)
  BY DEF IsNumberText
<1>6. \A k \in 1 .. m, u \in Nat : u = i + k - 1 => CharAt(t, u) = w[k] /\ CharAt(w, k) = w[k] /\ t[u] = w[k]
  BY <1>1, OccursFacts
<1> HIDE DEF m
<1>7. t[i] = w[1]
  <2>1. i = i + 1 - 1 /\ 1 \in 1 .. m
    BY <1>1
  <2> QED BY <1>1, <1>6, <2>1
<1>8. \A k \in 1 .. m + 1, u \in Nat : u = i + k - 1 =>
         \/ k = m + 1 /\ CharAt(t, u) = ","
         \/ k # m + 1 /\ CharAt(t, u) = CharAt(w, k)
  <2>1. ASSUME NEW k \in 1 .. m + 1, NEW u \in Nat, u = i + k - 1
        PROVE  \/ k = m + 1 /\ CharAt(t, u) = ","
               \/ k # m + 1 /\ CharAt(t, u) = CharAt(w, k)
    <3>1. CASE k = m + 1
      <4>1. u = e
        BY <1>1, <1>2, <2>1, <3>1
      <4> QED BY <1>3, <3>1, <4>1
    <3>2. CASE k # m + 1
      <4>1. k \in 1 .. m
        BY <1>1, <3>2
      <4> QED BY <1>6, <2>1, <3>2, <4>1
    <3> QED BY <3>1, <3>2
  <2> QED BY <2>1
<1>9. ~IsDigit(",") /\ ~IsDigit(".") /\ ~IsDigit("e") /\ ~IsDigit("end")
  BY DEF IsDigit, Digits
<1>10. StartsNumber(t[i])
  <2>1. CASE w[1] = "-"
    BY <1>7, <2>1 DEF StartsNumber
  <2>2. CASE w[1] # "-"
    <3>1. DigitsBetween(w, 1, b)
      BY <1>5, <2>2
    <3>2. 1 \in 1 .. b - 1
      BY <1>1, <3>1 DEF DigitsBetween
    <3>3. IsDigit(w[1])
      BY <3>1, <3>2 DEF DigitsBetween
    <3> QED BY <1>7, <3>3 DEF StartsNumber
  <2> QED BY <2>1, <2>2
<1>11. PICK x \in Nat, y \in Nat : x = i + b - 1 /\ y = i + c - 1
  BY <1>1
<1>12. CharAt(t, y) \in {",", "e"} /\ (CharAt(t, y) = "e" <=> c # m + 1)
  <2>1. \/ c = m + 1 /\ CharAt(t, y) = ","
        \/ c # m + 1 /\ CharAt(t, y) = CharAt(w, c)
    BY <1>8, <1>11
  <2> QED BY <1>5, <2>1
<1>13. CharAt(t, x) \in {",", ".", "e"} /\ (CharAt(t, x) = "." <=> b # c)
  <2>1. CASE b = c
    <3>1. x = y
      BY <1>11, <2>1
    <3> QED BY <1>12, <2>1, <3>1
  <2>2. CASE b # c
    <3>1. \/ b = m + 1 /\ CharAt(t, x) = ","
          \/ b # m + 1 /\ CharAt(t, x) = CharAt(w, b)
      BY <1>8, <1>11
    <3>2. CharAt(w, b) = "."
      BY <1>5, <2>2
    <3>3. b # m + 1
      BY <1>4, <3>2
    <3> QED BY <2>2, <3>1, <3>2, <3>3
  <2> QED BY <2>1, <2>2
<1>14. IntEnd(t, i) = x
  <2>1. ~IsDigit(CharAt(t, x))
    BY <1>9, <1>13
  <2>2. CASE w[1] = "-"
    <3>1. DigitsBetween(w, 2, b) /\ 2 \in 1 .. m + 1 /\ i + 1 \in Nat /\ i + 1 = i + 2 - 1
      BY <1>1, <1>5, <2>2
    <3>2. DigitsEnd(t, i + 1) = x
      BY <1>1, <1>11, <2>1, <3>1, DigitsOccur DEF m
    <3> QED BY <1>7, <2>2, <3>2 DEF IntEnd
  <2>3. CASE w[1] # "-"
    <3>1. DigitsBetween(w, 1, b) /\ 1 \in 1 .. m + 1 /\ i = i + 1 - 1
      BY <1>1, <1>5, <2>3
    <3>2. DigitsEnd(t, i) = x
      BY <1>1, <1>11, <2>1, <3>1, DigitsOccur DEF m
    <3> QED BY <1>7, <2>3, <3>2 DEF IntEnd
  <2> QED BY <2>2, <2>3
<1>15. FractionEnd(t, x) = y
  <2>1. CASE b = c
    <3>1. x = y
      BY <1>11, <2>1
    <3> QED BY <1>13, <2>1, <3>1 DEF FractionEnd
  <2>2. CASE b # c
    <3>1. DigitsBetween(w, b + 1, c) /\ ~IsDigit(CharAt(t, y))
      BY <1>5, <1>9, <1>12, <2>2
    <3>2. b + 1 \in 1 .. m + 1 /\ x + 1 \in Nat /\ x + 1 = i + (b + 1) - 1
      BY <1>1, <1>11, <3>1 DEF DigitsBetween
    <3>3. DigitsEnd(t, x + 1) = y
      BY <1>1, <1>11, <3>1, <3>2, DigitsOccur DEF m
    <3> QED BY <1>13, <2>2, <3>3 DEF FractionEnd
  <2> QED BY <2>1, <2>2
<1>16. ExponentEnd(t, y) = e
  <2>1. CASE c = m + 1
    <3>1. y = e
      BY <1>1, <1>2, <1>11, <2>1
    <3> QED BY <1>12, <2>1, <3>1 DEF ExponentEnd
  <2>2. CASE c # m + 1
    <3>1. PICK d \in {c + 1, c + 2} :
             /\ d = IF CharAt(w, c + 1) \in {"+", "-"} THEN c + 2 ELSE c + 1
             /\ DigitsBetween(w, d, m + 1)
      BY <1>5, <2>2
    <3>2. d \in 1 .. m + 1 /\ c + 1 \in 1 .. m /\ y + 1 \in Nat /\ y + 1 = i + (c + 1) - 1
      BY <1>1, <1>11, <3>1 DEF DigitsBetween
    <3>3. CharAt(t, y + 1) = CharAt(w, c + 1)
      BY <1>6, <3>2
    <3>4. PICK u \in Nat : u = i + d - 1
      BY <1>1, <3>2
    <3>5. DigitsEnd(t, u) = e
      <4>1. e = i + (m + 1) - 1 /\ m + 1 \in 1 .. m + 1
        BY <1>1, <1>2
      <4>2. ~IsDigit(CharAt(t, e))
        BY <1>9, <1>3
      <4> QED BY <1>1, <1>2, <3>1, <3>2, <3>4, <4>1, <4>2, DigitsOccur DEF m
    <3>6. u = IF CharAt(t, y + 1) \in {"+", "-"} THEN y + 2 ELSE y + 1
      BY <1>1, <1>11, <3>1, <3>3, <3>4
    <3> QED BY <1>12, <2>2, <3>5, <3>6 DEF ExponentEnd
  <2> QED BY <2>1, <2>2
<1> QED BY <1>7, <1>10, <1>14, <1>15, <1>16 DEF NumberEnd

(* A string with what needs it escaped, and where its characters are in it. *)
Escaped(s) == FlattenSeq([i \in DOMAIN s |-> Escape(s[i])])

Walks(s, x, pos) ==
    /\ pos \in [0 .. Len(s) -> Nat] /\ pos[0] = 1 /\ pos[Len(s)] = Len(x) + 1
    /\ \A k \in 1 .. Len(s) :
          /\ pos[k - 1] \in 1 .. Len(x) /\ x[pos[k - 1]] # "quote"
          /\ pos[k] = AfterChar(x, pos[k - 1]) /\ x[AfterChar(x, pos[k - 1]) - 1] = s[k]

LEMMA EscapeFacts ==
    ASSUME NEW c \in Chars
    PROVE  /\ Escape(c) \in Text /\ Escape(c)[1] # "quote" /\ Escape(c)[Len(Escape(c))] = c
           /\ Len(Escape(c)) = IF Escape(c)[1] = "bslash" THEN 2 ELSE 1
<1>1. CASE c \in {"quote", "bslash"}
  <2>1. "bslash" \in Chars
    BY DEF Chars
  <2>2. Escape(c) = <<"bslash", c>>
    BY <1>1 DEF Escape
  <2>3. /\ <<"bslash", c>> \in Seq(Chars) /\ Len(<<"bslash", c>>) = 2
        /\ <<"bslash", c>>[1] = "bslash" /\ <<"bslash", c>>[2] = c
    BY <2>1
  <2> QED BY <2>2, <2>3 DEF Text
<1>2. CASE c \notin {"quote", "bslash"}
  BY <1>2 DEF Escape, Text
<1> QED BY <1>1, <1>2

LEMMA EscapedWalks ==
    ASSUME NEW s \in Text
    PROVE  Escaped(s) \in Text /\ \E pos : Walks(s, Escaped(s), pos)
<1> DEFINE n == Len(s)
           seqs == [i \in DOMAIN s |-> Escape(s[i])]
<1>1. n \in Nat /\ DOMAIN s = 1 .. n /\ \A i \in 1 .. n : s[i] \in Chars
  BY TextFacts
<1>2. \A i \in 1 .. n : Escape(s[i]) \in Seq(Chars)
  BY <1>1, EscapeFacts DEF Text
<1>3. seqs \in Seq(Seq(Chars)) /\ Len(seqs) = n /\ \A i \in 1 .. n : seqs[i] = Escape(s[i])
  BY <1>1, <1>2
<1>4. PICK g : PartsOf(g, seqs, Chars)
  <2> HIDE DEF seqs
  <2> QED BY <1>3, PartsExist
<1> DEFINE x == Escaped(s)
<1>5. x = g[n] /\ g \in [0 .. n -> Text] /\ g[0] = <<>>
  <2>1. x = FlattenSeq(seqs)
    BY DEF Escaped
  <2> HIDE DEF seqs, x, n
  <2> QED BY <1>3, <1>4, <2>1 DEF PartsOf, Text
<1>6. ASSUME NEW k \in 1 .. n
      PROVE  /\ Len(g[k]) = Len(g[k - 1]) + Len(Escape(s[k])) /\ Len(g[k]) <= Len(x)
             /\ \A i \in 1 .. Len(Escape(s[k])) : x[Len(g[k - 1]) + i] = Escape(s[k])[i]
  <2> HIDE DEF seqs, x, n
  <2>1. Len(seqs) = n /\ seqs[k] = Escape(s[k]) /\ g[n] = x
    BY <1>3, <1>5
  <2>2. /\ Len(g[k]) = Len(g[k - 1]) + Len(seqs[k]) /\ Len(g[k]) <= Len(g[Len(seqs)])
        /\ \A i \in 1 .. Len(seqs[k]) : g[Len(seqs)][Len(g[k - 1]) + i] = seqs[k][i]
    <3>1. k \in 1 .. Len(seqs)
      BY <2>1
    <3>2. Placed(g, seqs)
      BY <1>4, PartsPlaced
    <3> QED BY <3>1, <3>2 DEF Placed
  <2> QED BY <2>1, <2>2
<1> HIDE DEF x, n, seqs
<1>7. x \in Text
  BY <1>1, <1>5
<1> DEFINE pos == [k \in 0 .. n |-> Len(g[k]) + 1]
<1>8. pos \in [0 .. n -> Nat]
  BY <1>5, TextFacts
<1>9. pos[0] = 1 /\ pos[n] = Len(x) + 1
  BY <1>1, <1>5, EmptySeq
<1>10. ASSUME NEW k \in 1 .. n
       PROVE  /\ pos[k - 1] \in 1 .. Len(x) /\ x[pos[k - 1]] # "quote"
              /\ pos[k] = AfterChar(x, pos[k - 1]) /\ x[AfterChar(x, pos[k - 1]) - 1] = s[k]
  <2>1. k - 1 \in 0 .. n /\ k \in 0 .. n
    BY <1>1
  <2>2. PICK h \in Nat : h = Len(g[k - 1])
    BY <1>5, <2>1, TextFacts
  <2>3. PICK y \in Text : y = Escape(s[k])
    BY <1>1, EscapeFacts
  <2>4. y[1] # "quote" /\ y[Len(y)] = s[k] /\ Len(y) = IF y[1] = "bslash" THEN 2 ELSE 1
    BY <1>1, <2>3, EscapeFacts
  <2>5. pos[k - 1] = h + 1 /\ pos[k] = h + Len(y) + 1 /\ Len(x) \in Nat /\ h + Len(y) <= Len(x)
    <3>1. pos[k - 1] = h + 1 /\ pos[k] = Len(g[k]) + 1
      BY <2>1, <2>2
    <3>2. Len(g[k]) = h + Len(y) /\ h + Len(y) <= Len(x) /\ Len(x) \in Nat
      BY <1>6, <1>7, <2>2, <2>3, TextFacts
    <3> QED BY <3>1, <3>2
  <2>6. \A i \in 1 .. Len(y) : x[h + i] = y[i]
    BY <1>6, <2>2, <2>3
  <2>7. x[h + 1] = y[1] /\ x[h + Len(y)] = s[k]
    <3>1. 1 \in 1 .. Len(y) /\ Len(y) \in 1 .. Len(y)
      BY <2>4
    <3> QED BY <2>4, <2>6, <3>1
  <2> HIDE DEF pos
  <2>8. AfterChar(x, h + 1) = h + Len(y) + 1
    BY <2>4, <2>7 DEF AfterChar
  <2>9. h + 1 \in 1 .. Len(x) /\ h + Len(y) + 1 - 1 = h + Len(y)
    BY <2>4, <2>5
  <2> QED BY <2>4, <2>5, <2>7, <2>8, <2>9
<1> HIDE DEF pos
<1>11. Walks(s, x, pos)
  BY <1>8, <1>9, <1>10 DEF Walks, n
<1> QED BY <1>7, <1>11 DEF x

(* A sequence is put out element by element. *)
Ones(s) == [k \in 1 .. Len(s) |-> <<s[k]>>]
Nones(s) == [k \in 1 .. Len(s) |-> <<>>]

LEMMA PrefixSums ==
    ASSUME NEW C, NEW s \in Seq(C)
    PROVE  Sums([k \in 0 .. Len(s) |-> SubSeq(s, 1, k)], Len(s), Ones(s), Nones(s))
<1> DEFINE g == [k \in 0 .. Len(s) |-> SubSeq(s, 1, k)]
<1>1. Len(s) \in Nat /\ \A k \in 1 .. Len(s) : s[k] \in C
  BY LenProperties, ElementOfSeq
<1>2. g[0] = <<>>
  BY <1>1, SubSeqEmpty
<1>3. ASSUME NEW k \in 1 .. Len(s) PROVE g[k] = g[k - 1] \o (Ones(s)[k] \o Nones(s)[k])
  <2>1. SubSeq(s, 1, k) = SubSeq(s, 1, k - 1) \o <<s[k]>>
    <3>1. 1 \in 1 .. Len(s) /\ k \in 1 .. Len(s)
      BY <1>1
    <3> QED BY <3>1, SubSeqRecursiveSecond
  <2>2. g[k] = SubSeq(s, 1, k) /\ g[k - 1] = SubSeq(s, 1, k - 1)
    BY <1>1
  <2>3. Ones(s)[k] \o Nones(s)[k] = <<s[k]>>
    <3>1. Ones(s)[k] = <<s[k]>> /\ Nones(s)[k] = <<>>
      BY DEF Ones, Nones
    <3>2. <<s[k]>> \in Seq(C)
      BY <1>1
    <3>3. <<s[k]>> \o <<>> = <<s[k]>>
      BY <3>2, ConcatEmptySeq
    <3> QED BY <3>1, <3>3
  <2> QED BY <2>1, <2>2, <2>3
<1> QED BY <1>2, <1>3 DEF Sums

(* What is escaped is read as it was. *)
LEMMA UnescapeEscaped ==
    ASSUME NEW s \in Text
    PROVE  Unescape(Escaped(s)) = s
<1>1. PICK x \in Text : x = Escaped(s)
  BY EscapedWalks
<1>2. PICK pos : Walks(s, x, pos)
  BY <1>1, EscapedWalks
<1>3. PICK f : UnescapeStep(x, f) /\ Unescape(x) = f[1]
  BY UnescapeScans
<1>4. PICK n \in Nat : n = Len(s)
  BY TextFacts
<1>5. Len(x) \in Nat /\ \A k \in 1 .. n : s[k] \in Chars
  BY <1>4, TextFacts
<1>6. ASSUME NEW k \in 1 .. n
      PROVE  f[pos[k - 1]] = <<s[k]>> \o f[pos[k]]
  <2>1. PICK i : i = pos[k - 1]
    OBVIOUS
  <2>2. i \in 1 .. Len(x) /\ pos[k] = AfterChar(x, i) /\ x[AfterChar(x, i) - 1] = s[k]
    BY <1>2, <1>4, <2>1 DEF Walks
  <2>3. i \in Positions /\ ~(i > Len(x))
    BY <1>5, <2>2 DEF Positions
  <2>4. f[i] = <<x[AfterChar(x, i) - 1]>> \o f[AfterChar(x, i)]
    BY <1>3, <2>3 DEF UnescapeStep
  <2> QED BY <2>1, <2>2, <2>4
<1>7. f[pos[n]] = <<>> /\ pos[0] = 1
  <2>1. pos[n] = Len(x) + 1 /\ pos[0] = 1
    BY <1>2, <1>4 DEF Walks
  <2>2. PICK j \in Positions : j = Len(x) + 1 /\ j > Len(x)
    BY <1>5 DEF Positions
  <2>3. f[j] = <<>>
    BY <1>3, <2>2 DEF UnescapeStep
  <2> QED BY <2>1, <2>2, <2>3
<1>8. Along(f, n, pos, Ones(s), Nones(s), Chars)
  <2>1. ASSUME NEW k \in 1 .. n
        PROVE  /\ f[pos[k - 1]] = Ones(s)[k] \o f[pos[k]] /\ Nones(s)[k] = <<>>
               /\ Ones(s)[k] \in Seq(Chars) /\ Nones(s)[k] \in Seq(Chars)
    <3>1. Ones(s)[k] = <<s[k]>> /\ Nones(s)[k] = <<>>
      BY <1>4 DEF Ones, Nones
    <3>2. <<s[k]>> \in Seq(Chars) /\ <<>> \in Seq(Chars)
      BY <1>5
    <3> QED BY <1>6, <3>1, <3>2
  <2> QED BY <1>7, <2>1 DEF Along
<1> DEFINE g == [k \in 0 .. n |-> SubSeq(s, 1, k)]
<1>9. Sums(g, n, Ones(s), Nones(s))
  BY <1>4, PrefixSums DEF Text
<1>10. g[n] = s
  BY <1>4, SubSeqFull DEF Text
<1> HIDE DEF g
<1>11. f[pos[0]] = g[n]
  BY <1>8, <1>9, ScanAlong
<1> QED BY <1>1, <1>3, <1>7, <1>10, <1>11

(* A scan that steps through a string in a text arrives at its last quote. *)
Steps(t, n, c) ==
    \A k \in 1 .. n : /\ c[k - 1] \in 1 .. Len(t) /\ t[c[k - 1]] # "quote"
                      /\ c[k] = AfterChar(t, c[k - 1])

LEMMA StringSteps ==
    ASSUME NEW s \in Text, NEW t, NEW b, Occurs(Escaped(s), t, b)
    PROVE  \E c : /\ c[0] = b /\ c[Len(s)] = b + Len(Escaped(s)) /\ Steps(t, Len(s), c)
<1>1. PICK x \in Text : x = Escaped(s)
  BY EscapedWalks
<1>2. PICK pos : Walks(s, x, pos)
  BY <1>1, EscapedWalks
<1>3. b \in Nat /\ b >= 1 /\ t \in Text /\ Len(x) \in Nat /\ Occurs(x, t, b)
  BY <1>1, TextFacts DEF Occurs
<1>4. PICK n \in Nat : n = Len(s)
  BY TextFacts
<1> DEFINE c == [k \in 0 .. n |-> b - 1 + pos[k]]
<1>5. pos \in [0 .. n -> Nat] /\ pos[0] = 1 /\ pos[n] = Len(x) + 1
  BY <1>2, <1>4 DEF Walks
<1>6. c[0] = b /\ c[n] = b + Len(x)
  BY <1>3, <1>5
<1>7. ASSUME NEW k \in 1 .. n
      PROVE  c[k - 1] \in 1 .. Len(t) /\ t[c[k - 1]] # "quote" /\ c[k] = AfterChar(t, c[k - 1])
  <2>1. k - 1 \in 0 .. n /\ k \in 0 .. n
    OBVIOUS
  <2>2. PICK p \in Nat : p = pos[k - 1]
    BY <1>5, <2>1
  <2>3. p \in 1 .. Len(x) /\ x[p] # "quote" /\ pos[k] = AfterChar(x, p)
    BY <1>2, <1>4, <2>2 DEF Walks
  <2>4. PICK u \in Nat : u = b + p - 1
    BY <1>3, <2>3
  <2>5. u \in 1 .. Len(t) /\ t[u] = x[p]
    BY <1>3, <2>3, <2>4, OccursFacts
  <2>6. c[k - 1] = u
    <3>1. c[k - 1] = b - 1 + p
      BY <2>1, <2>2
    <3> QED BY <1>3, <2>4, <3>1
  <2>7. c[k] = b - 1 + AfterChar(x, p)
    BY <2>1, <2>3
  <2>8. AfterChar(t, u) = b - 1 + AfterChar(x, p)
    BY <1>3, <2>4, <2>5 DEF AfterChar
  <2> HIDE DEF c
  <2> QED BY <2>3, <2>5, <2>6, <2>7, <2>8
<1> HIDE DEF c
<1>8. Steps(t, n, c)
  BY <1>7 DEF Steps
<1> QED BY <1>1, <1>4, <1>6, <1>8

LEMMA StringScanned ==
    ASSUME NEW s \in Text, NEW t, NEW b, NEW z, Occurs(Escaped(s), t, b),
           z = b + Len(Escaped(s)), z \in 1 .. Len(t), t[z] = "quote"
    PROVE  StringEnd(t, b) = z + 1 /\ LiteralEnd(t, b) = z
<1>1. t \in Text /\ Len(t) \in Nat
  BY TextFacts DEF Occurs
<1>2. PICK n \in Nat : n = Len(s)
  BY TextFacts
<1>3. PICK c : c[0] = b /\ c[n] = z /\ Steps(t, n, c)
  BY <1>2, StringSteps
<1>4. ASSUME NEW k \in 1 .. n
      PROVE  \E j \in Positions : /\ j = c[k - 1] /\ ~(j > Len(t)) /\ t[j] # "quote"
                                  /\ c[k] = AfterChar(t, j)
  <2>1. c[k - 1] \in 1 .. Len(t) /\ t[c[k - 1]] # "quote" /\ c[k] = AfterChar(t, c[k - 1])
    BY <1>3 DEF Steps
  <2>2. PICK j : j = c[k - 1]
    OBVIOUS
  <2>3. j \in 1 .. Len(t) /\ t[j] # "quote" /\ c[k] = AfterChar(t, j)
    BY <2>1, <2>2
  <2>4. j \in Positions /\ ~(j > Len(t))
    BY <1>1, <2>3 DEF Positions
  <2> QED BY <2>2, <2>3, <2>4
<1>5. StringEnd(t, b) = z + 1
  <2>1. PICK f : StringEndStep(t, f) /\ \A j : StringEnd(t, j) = f[j]
    BY <1>1, StringEndScans
  <2> DEFINE S == {k \in 0 .. n : f[c[k]] = f[b]}
  <2>2. 0 \in S
    BY <1>3
  <2>3. ASSUME NEW k \in 1 .. n, k - 1 \in S PROVE k \in S
    <3>1. PICK j \in Positions : j = c[k - 1] /\ ~(j > Len(t)) /\ t[j] # "quote" /\ c[k] = AfterChar(t, j)
      BY <1>4
    <3>2. f[j] = f[b]
      BY <2>3, <3>1
    <3>3. f[j] = f[AfterChar(t, j)]
      BY <2>1, <3>1 DEF StringEndStep
    <3> QED BY <3>1, <3>2, <3>3
  <2> HIDE DEF S
  <2>4. n \in S
    <3>1. n \in 0 .. n
      OBVIOUS
    <3> QED BY <2>2, <2>3, <3>1, Upwards
  <2>5. f[z] = f[b]
    BY <1>3, <2>4 DEF S
  <2>6. z \in Positions /\ ~(z > Len(t))
    BY <1>1 DEF Positions
  <2>7. f[z] = z + 1
    BY <2>1, <2>6 DEF StringEndStep
  <2> QED BY <2>1, <2>5, <2>7
<1>6. LiteralEnd(t, b) = z
  <2>1. PICK f : LiteralEndStep(t, f) /\ \A j : LiteralEnd(t, j) = f[j]
    BY <1>1, LiteralEndScans
  <2> DEFINE S == {k \in 0 .. n : f[c[k]] = f[b]}
  <2>2. 0 \in S
    BY <1>3
  <2>3. ASSUME NEW k \in 1 .. n, k - 1 \in S PROVE k \in S
    <3>1. PICK j \in Positions : j = c[k - 1] /\ ~(j > Len(t)) /\ t[j] # "quote" /\ c[k] = AfterChar(t, j)
      BY <1>4
    <3>2. f[j] = f[b]
      BY <2>3, <3>1
    <3>3. f[j] = f[AfterChar(t, j)]
      BY <2>1, <3>1 DEF LiteralEndStep
    <3> QED BY <3>1, <3>2, <3>3
  <2> HIDE DEF S
  <2>4. n \in S
    <3>1. n \in 0 .. n
      OBVIOUS
    <3> QED BY <2>2, <2>3, <3>1, Upwards
  <2>5. f[z] = f[b]
    BY <1>3, <2>4 DEF S
  <2>6. z \in Positions
    BY <1>1 DEF Positions
  <2>7. f[z] = z
    BY <2>1, <2>6 DEF LiteralEndStep
  <2> QED BY <2>1, <2>5, <2>7
<1> QED BY <1>5, <1>6

(* A written string stands between two quotes. *)
LEMMA StringToken ==
    ASSUME NEW s \in Text, NEW t, NEW i, NEW e, Item(Write(Str(s)), t, i, e)
    PROVE  /\ t[i] = "quote" /\ StringEnd(t, i + 1) = e /\ LiteralEnd(t, i + 1) = e - 1
           /\ SubSeq(t, i + 1, e - 2) = Escaped(s)
<1>1. PICK x \in Text : x = Escaped(s)
  BY EscapedWalks
<1>2. PICK w : w = Write(Str(s))
  OBVIOUS
<1>3. w = <<"quote">> \o x \o <<"quote">>
  BY <1>1, <1>2 DEF Write, Str, Escaped
<1>4. Len(x) \in Nat
  BY TextFacts
<1>5. <<"quote">> \in Text /\ Len(<<"quote">>) = 1 /\ <<"quote">>[1] = "quote"
  <2>1. "quote" \in Chars
    BY DEF Chars
  <2> QED BY <2>1 DEF Text
<1>6. PICK y \in Text : y = <<"quote">> \o x
  BY <1>5, ConcatProperties DEF Text
<1>7. Len(y) = 1 + Len(x) /\ y[1] = "quote" /\ \A k \in 1 .. Len(x) : y[k + 1] = x[k]
  <2>1. /\ Len(y) = 1 + Len(x)
        /\ \A k \in 1 .. 1 + Len(x) : y[k] = IF k <= 1 THEN <<"quote">>[k] ELSE x[k - 1]
    BY <1>5, <1>6, ConcatProperties DEF Text
  <2> QED BY <1>4, <1>5, <2>1
<1>8. Len(w) = Len(x) + 2 /\ w[1] = "quote" /\ w[Len(x) + 2] = "quote" /\ \A k \in 1 .. Len(x) : w[k + 1] = x[k]
  <2>1. /\ Len(w) = Len(y) + 1
        /\ \A k \in 1 .. Len(y) + 1 : w[k] = IF k <= Len(y) THEN y[k] ELSE <<"quote">>[k - Len(y)]
    BY <1>3, <1>5, <1>6, ConcatProperties DEF Text
  <2> QED BY <1>4, <1>5, <1>7, <2>1
<1>9. Len(w) = Len(x) + 2
  BY <1>8
<1>10. t \in Text /\ i \in Nat /\ i >= 1 /\ e = i + Len(x) + 2 /\ Len(t) \in Nat
  <2>1. t \in Text /\ i \in Nat /\ i >= 1 /\ e = i + Len(w)
    BY <1>2 DEF Item, Occurs
  <2> QED BY <1>4, <1>9, <2>1, TextFacts
<1>11. \A k \in 1 .. Len(x) + 2, u \in Nat : u = i + k - 1 => u \in 1 .. Len(t) /\ t[u] = w[k]
  <2>1. Occurs(w, t, i)
    BY <1>2 DEF Item
  <2> QED BY <1>9, <2>1, OccursFacts
<1>12. t[i] = "quote"
  <2>1. i = i + 1 - 1 /\ 1 \in 1 .. Len(x) + 2
    BY <1>4, <1>10
  <2> QED BY <1>8, <1>10, <1>11, <2>1
<1>13. PICK z \in Nat : z = e - 1 /\ z = (i + 1) + Len(x)
  BY <1>4, <1>10
<1>14. z \in 1 .. Len(t) /\ t[z] = "quote"
  <2>1. z = i + (Len(x) + 2) - 1 /\ Len(x) + 2 \in 1 .. Len(x) + 2
    BY <1>4, <1>10, <1>13
  <2> QED BY <1>8, <1>11, <2>1
<1>15. ASSUME NEW k \in 1 .. Len(x), NEW u \in Nat, u = i + 1 + k - 1
       PROVE  u \in 1 .. Len(t) /\ t[u] = x[k]
  <2>1. u = i + (k + 1) - 1 /\ k + 1 \in 1 .. Len(x) + 2
    BY <1>4, <1>10, <1>15
  <2> QED BY <1>8, <1>11, <2>1
<1>16. Occurs(x, t, i + 1)
  <2>1. ASSUME NEW k \in 1 .. Len(x) PROVE i + 1 + k - 1 \in Nat
    BY <1>4, <1>10
  <2> QED BY <1>10, <1>15, <2>1 DEF Occurs
<1>17. StringEnd(t, i + 1) = z + 1 /\ LiteralEnd(t, i + 1) = z
  BY <1>1, <1>13, <1>14, <1>16, StringScanned
<1>18. SubSeq(t, i + 1, z - 1) = x
  BY <1>13, <1>16, OccursIsSubSeq
<1>19. z + 1 = e /\ z = e - 1 /\ z - 1 = e - 2
  BY <1>10, <1>13
<1> QED BY <1>1, <1>12, <1>17, <1>18, <1>19

-----------------------------------------------------------------------------
(* Each value, on its way through the texts. *)

LEMMA SumsAgree ==
    ASSUME NEW n \in Nat, NEW g, NEW h, NEW p, NEW q, Sums(g, n, p, q), Sums(h, n, p, q)
    PROVE  g[n] = h[n]
<1> DEFINE S == {k \in 0 .. n : g[k] = h[k]}
<1>1. 0 \in S
  BY DEF Sums
<1>2. ASSUME NEW k \in 1 .. n, k - 1 \in S PROVE k \in S
  <2>1. g[k] = g[k - 1] \o (p[k] \o q[k]) /\ h[k] = h[k - 1] \o (p[k] \o q[k])
    BY DEF Sums
  <2>2. g[k - 1] = h[k - 1] /\ k \in 0 .. n
    BY <1>2
  <2>3. g[k] = h[k]
    BY <2>1, <2>2, Zenon
  <2> QED BY <2>2, <2>3
<1> HIDE DEF S
<1>3. n \in S
  <2>1. n \in 0 .. n
    OBVIOUS
  <2> QED BY <1>1, <1>2, <2>1, Upwards
<1> QED BY <1>3 DEF S

(* A string without quotes and backslashes is written as it is. *)
LEMMA PlainEscaped ==
    ASSUME NEW s \in Text, \A k \in 1 .. Len(s) : s[k] \notin {"quote", "bslash"}
    PROVE  Escaped(s) = s
<1> DEFINE seqs == [i \in DOMAIN s |-> Escape(s[i])]
<1>1. PICK n \in Nat : n = Len(s) /\ DOMAIN s = 1 .. n
  BY TextFacts
<1>2. \A i \in 1 .. n : Escape(s[i]) = <<s[i]>> /\ <<s[i]>> \in Seq(Chars)
  <2>1. ASSUME NEW i \in 1 .. n PROVE Escape(s[i]) = <<s[i]>> /\ <<s[i]>> \in Seq(Chars)
    <3>1. s[i] \in Chars
      BY <1>1, TextFacts
    <3> QED BY <1>1, <3>1 DEF Escape
  <2> QED BY <2>1
<1>3. seqs \in Seq(Seq(Chars)) /\ Len(seqs) = n /\ \A i \in 1 .. n : seqs[i] = <<s[i]>>
  <2>1. \A i \in 1 .. n : Escape(s[i]) \in Seq(Chars)
    BY <1>2
  <2>2. seqs \in Seq(Seq(Chars)) /\ Len(seqs) = n /\ \A i \in 1 .. n : seqs[i] = Escape(s[i])
    BY <1>1, <2>1
  <2> HIDE DEF seqs
  <2> QED BY <1>2, <2>2
<1>4. PICK g : PartsOf(g, seqs, Chars)
  <2> HIDE DEF seqs
  <2> QED BY <1>3, PartsExist
<1>5. Escaped(s) = g[n] /\ g[0] = <<>> /\ \A k \in 1 .. n : g[k] = g[k - 1] \o seqs[k]
  <2>1. Escaped(s) = FlattenSeq(seqs)
    BY DEF Escaped
  <2> HIDE DEF seqs
  <2> QED BY <1>3, <1>4, <2>1 DEF PartsOf
<1> HIDE DEF seqs
<1>6. \A k \in 1 .. n : seqs[k] = Ones(s)[k] \o Nones(s)[k]
  <2>1. ASSUME NEW k \in 1 .. n PROVE seqs[k] = Ones(s)[k] \o Nones(s)[k]
    <3>1. Ones(s)[k] = <<s[k]>> /\ Nones(s)[k] = <<>> /\ <<s[k]>> \in Seq(Chars)
      BY <1>1, <1>2 DEF Ones, Nones
    <3>2. <<s[k]>> \o <<>> = <<s[k]>>
      BY <3>1, ConcatEmptySeq
    <3> QED BY <1>3, <3>1, <3>2
  <2> QED BY <2>1
<1>7. Sums(g, n, Ones(s), Nones(s))
  BY <1>5, <1>6 DEF Sums
<1> DEFINE h == [k \in 0 .. n |-> SubSeq(s, 1, k)]
<1>8. Sums(h, n, Ones(s), Nones(s))
  BY <1>1, PrefixSums DEF Text
<1>9. h[n] = s
  BY <1>1, SubSeqFull DEF Text
<1> HIDE DEF h
<1>10. g[n] = h[n]
  BY <1>7, <1>8, SumsAgree
<1> QED BY <1>5, <1>9, <1>10

(* A number that is no float has digits only, behind its sign. *)
LEMMA IntegerText ==
    ASSUME NEW w, IsNumberText(w), ~IsFloat(w)
    PROVE  /\ IsIntegerText(w) /\ w \in Text /\ Len(w) \in Nat /\ Len(w) > 0
           /\ \A k \in 1 .. Len(w) : w[k] \notin {"quote", "bslash"}
<1>1. w \in Text /\ w # <<>>
  BY DEF IsNumberText, Text
<1>2. PICK m \in Nat : m = Len(w) /\ DOMAIN w = 1 .. m /\ m > 0
  <2>1. Len(w) \in Nat \ {0}
    BY <1>1, EmptySeq DEF Text
  <2> QED BY <1>1, <2>1, TextFacts
<1>3. \A k \in 1 .. m : w[k] \notin {".", "e"} /\ CharAt(w, k) = w[k]
  BY <1>1, <1>2, TextFacts DEF IsFloat
<1>4. PICK b \in 1 .. m + 1, c \in 1 .. m + 1 :
         /\ DigitsBetween(w, IF w[1] = "-" THEN 2 ELSE 1, b)
         /\ b = c \/ (CharAt(w, b) = "." /\ DigitsBetween(w, b + 1, c))
         /\ c = m + 1 \/ CharAt(w, c) = "e"
  BY <1>2 DEF IsNumberText
<1>5. b = m + 1
  <2>1. c = m + 1
    <3>1. c # m + 1 => c \in 1 .. m
      OBVIOUS
    <3> QED BY <1>3, <1>4, <3>1
  <2>2. b = c
    <3>1. DigitsBetween(w, b + 1, c) => b \in 1 .. m
      BY <1>2 DEF DigitsBetween
    <3> QED BY <1>3, <1>4, <3>1
  <2> QED BY <2>1, <2>2
<1>6. PICK a \in {1, 2} : (a = 2 <=> w[1] = "-") /\ a <= m /\ \A k \in a .. m : IsDigit(w[k])
  BY <1>2, <1>4, <1>5 DEF DigitsBetween
<1>7. IsIntegerText(w)
  BY <1>2, <1>6 DEF IsIntegerText
<1>8. ASSUME NEW k \in 1 .. m PROVE w[k] \notin {"quote", "bslash"}
  <2>1. k \in a .. m \/ (k = 1 /\ a = 2)
    BY <1>2, <1>6
  <2> QED BY <1>6, <2>1 DEF IsDigit, Digits
<1> QED BY <1>1, <1>2, <1>7, <1>8

(* What the scan makes of a value: a marked string of an unsafe integer. *)
Unsafe(val) == val.kind = "number" /\ ~IsFloat(val.v) /\ ~IsSafeInteger(val.v)
Between(w) == <<Sentinel>> \o w \o <<Sentinel>>
Mark(val) == IF Unsafe(val) THEN Str(Between(val.v)) ELSE val

(* What JSON.parse makes of it. *)
AsRead(val) == IF val.kind = "number" THEN Number(Rounded(val.v)) ELSE val

Readable(val) == \/ val = Str(val.v) /\ val.v \in Text
                 \/ val = Number(val.v) /\ IsNumberText(val.v)

LEMMA BetweenFacts ==
    ASSUME NEW w \in Text
    PROVE  /\ Between(w) \in Text /\ Len(Between(w)) = Len(w) + 2
           /\ Between(w)[1] = Sentinel /\ Between(w)[Len(Between(w))] = Sentinel
           /\ \A k \in 1 .. Len(w) : Between(w)[k + 1] = w[k]
           /\ SubSeq(Between(w), 2, Len(Between(w)) - 1) = w
<1>1. Sentinel \in Chars
  BY DEF Chars
<1>2. <<Sentinel>> \in Text /\ Len(<<Sentinel>>) = 1 /\ <<Sentinel>>[1] = Sentinel
  BY <1>1 DEF Text
<1>3. PICK m \in Nat : m = Len(w)
  BY TextFacts
<1>4. PICK y \in Text : y = <<Sentinel>> \o w
  BY <1>2, ConcatProperties DEF Text
<1>5. Len(y) = 1 + m /\ y[1] = Sentinel /\ \A k \in 1 .. m : y[k + 1] = w[k]
  <2>1. Len(y) = 1 + m /\ \A k \in 1 .. 1 + m : y[k] = IF k <= 1 THEN <<Sentinel>>[k] ELSE w[k - 1]
    BY <1>2, <1>3, <1>4, ConcatProperties DEF Text
  <2> QED BY <1>2, <2>1
<1>6. PICK v : v = Between(w)
  OBVIOUS
<1>7. v \in Text /\ Len(v) = m + 2
      /\ \A k \in 1 .. m + 2 : v[k] = IF k <= m + 1 THEN y[k] ELSE <<Sentinel>>[k - (m + 1)]
  <2>1. v = y \o <<Sentinel>>
    BY <1>4, <1>6 DEF Between
  <2>2. v \in Text /\ Len(v) = Len(y) + 1
        /\ \A k \in 1 .. Len(y) + 1 : v[k] = IF k <= Len(y) THEN y[k] ELSE <<Sentinel>>[k - Len(y)]
    BY <1>2, <1>4, <2>1, ConcatProperties DEF Text
  <2>3. Len(y) = m + 1 /\ Len(y) + 1 = m + 2
    BY <1>5
  <2> QED BY <2>2, <2>3
<1>8. v[1] = Sentinel /\ v[m + 2] = Sentinel /\ \A k \in 1 .. m : v[k + 1] = w[k]
  BY <1>2, <1>5, <1>7
<1>9. Occurs(w, v, 2)
  <2>1. ASSUME NEW k \in 1 .. m PROVE 2 + k - 1 \in 1 .. Len(v) /\ v[2 + k - 1] = w[k]
    <3>1. 2 + k - 1 = k + 1 /\ k + 1 \in 1 .. m + 2
      OBVIOUS
    <3> QED BY <1>7, <1>8, <3>1
  <2> QED BY <1>3, <1>7, <2>1 DEF Occurs
<1>10. SubSeq(v, 2, (m + 2) - 1) = w
  <2>1. PICK j \in Nat : j = m + 2
    OBVIOUS
  <2>2. j = 2 + Len(w)
    BY <1>3, <2>1
  <2>3. SubSeq(v, 2, j - 1) = w
    BY <1>9, <2>2, OccursIsSubSeq
  <2> QED BY <2>1, <2>3
<1> QED BY <1>3, <1>6, <1>7, <1>8, <1>10

LEMMA MarkFacts ==
    ASSUME NEW val, IsValue(val)
    PROVE  Readable(val) /\ Readable(Mark(val)) /\ Revive(AsRead(Mark(val))) = Exact(val)
<1>1. CASE val = Str(val.v) /\ val.v \in Seq(Chars \ {Sentinel})
  <2>1. val.kind = "string" /\ val.v \in Text
    <3>1. val.v \in Seq(Chars)
      BY <1>1, SeqMonotonic
    <3> QED BY <1>1, <3>1 DEF Str, Text
  <2>2. Mark(val) = val /\ AsRead(val) = val /\ Exact(val) = val
    BY <2>1 DEF Mark, Unsafe, AsRead, Exact
  <2>3. ~Marked(val)
    <3>1. Len(val.v) > 2 => val.v[1] # Sentinel
      <4>1. ASSUME Len(val.v) > 2 PROVE val.v[1] \in Chars \ {Sentinel}
        <5>1. 1 \in 1 .. Len(val.v)
          BY <2>1, <4>1, TextFacts
        <5> QED BY <1>1, <5>1, ElementOfSeq
      <4> QED BY <4>1
    <3> QED BY <3>1 DEF Marked
  <2> QED BY <1>1, <2>1, <2>2, <2>3 DEF Readable, Revive
<1>2. CASE val = Number(val.v) /\ IsNumberText(val.v) /\ ~Unsafe(val)
  <2>1. val.kind = "number" /\ Mark(val) = val /\ Exact(val) = val
    BY <1>2 DEF Number, Mark, Unsafe, Exact
  <2>2. AsRead(val) = val
    BY <1>2, <2>1 DEF AsRead, Rounded, Unsafe
  <2> QED BY <1>2, <2>1, <2>2 DEF Readable, Revive, Marked
<1>3. CASE val = Number(val.v) /\ IsNumberText(val.v) /\ Unsafe(val)
  <2>1. PICK w : w = val.v /\ IsNumberText(w) /\ ~IsFloat(w)
    BY <1>3 DEF Unsafe
  <2>2. IsIntegerText(w) /\ w \in Text /\ Len(w) \in Nat /\ Len(w) > 0
    BY <2>1, IntegerText
  <2>3. PICK v \in Text : v = Between(w)
    BY <2>2, BetweenFacts
  <2>4. Len(v) = Len(w) + 2 /\ v[1] = Sentinel /\ v[Len(v)] = Sentinel /\ SubSeq(v, 2, Len(v) - 1) = w
    BY <2>2, <2>3, BetweenFacts
  <2>5. Mark(val) = Str(v)
    BY <1>3, <2>1, <2>3 DEF Mark
  <2>6. Str(v).kind = "string" /\ Str(v).v = v
    BY DEF Str
  <2>7. AsRead(Str(v)) = Str(v)
    BY <2>6 DEF AsRead
  <2>8. Len(v) > 2
    <3>1. PICK k \in Nat : k = Len(w) /\ k > 0
      BY <2>2
    <3>2. Len(v) = k + 2
      BY <2>4, <3>1
    <3> QED BY <3>1, <3>2
  <2>9. Marked(Str(v)) /\ Revive(Str(v)) = BigInt(w)
    BY <2>2, <2>4, <2>6, <2>8 DEF Marked, Revive
  <2>10. Exact(val) = BigInt(w)
    BY <1>3, <2>1 DEF Exact, Unsafe
  <2>11. Readable(val) /\ Readable(Str(v))
    BY <1>3, <2>6 DEF Readable
  <2> QED BY <2>5, <2>7, <2>9, <2>10, <2>11
<1> QED BY <1>1, <1>2, <1>3 DEF IsValue

LEMMA CommaText == <<",">> \in Text /\ Len(<<",">>) = 1 /\ <<",">>[1] = ","
<1>1. "," \in Chars
  BY DEF Chars
<1>2. PICK x \in Chars : x = ","
  BY <1>1
<1>3. <<x>> \in Seq(Chars) /\ Len(<<x>>) = 1 /\ <<x>>[1] = x
  OBVIOUS
<1> QED BY <1>2, <1>3 DEF Text

(* A text and a comma. *)
LEMMA CommaAfter ==
    ASSUME NEW w \in Text
    PROVE  /\ w \o <<",">> \in Text /\ Len(w) \in Nat /\ Len(w \o <<",">>) = Len(w) + 1
           /\ \A j \in 1 .. Len(w) : (w \o <<",">>)[j] = w[j]
           /\ \A z \in Nat : z = Len(w) + 1 => (w \o <<",">>)[z] = ","
<1>1. PICK y : y = w \o <<",">>
  OBVIOUS
<1>2. PICK m \in Nat : m = Len(w)
  BY TextFacts
<1>3. /\ y \in Text /\ Len(y) = m + 1
      /\ \A j \in 1 .. m + 1 : y[j] = IF j <= m THEN w[j] ELSE <<",">>[j - m]
  BY <1>1, <1>2, CommaText, ConcatProperties DEF Text
<1>4. ASSUME NEW j \in 1 .. m PROVE y[j] = w[j]
  <2>1. j \in 1 .. m + 1 /\ j <= m
    OBVIOUS
  <2> QED BY <1>3, <2>1
<1>5. ASSUME NEW z \in Nat, z = m + 1 PROVE y[z] = ","
  <2>1. z \in 1 .. m + 1 /\ ~(z <= m) /\ z - m = 1
    BY <1>5
  <2> QED BY <1>3, <2>1, CommaText
<1> QED BY <1>1, <1>2, <1>3, <1>4, <1>5

LEMMA WriteText ==
    ASSUME NEW val, Readable(val)
    PROVE  Write(val) \in Text
<1>1. CASE val = Str(val.v) /\ val.v \in Text
  <2>1. PICK x \in Text : x = Escaped(val.v)
    BY <1>1, EscapedWalks
  <2>2. val.kind = "string"
    BY <1>1 DEF Str
  <2>3. Write(val) = <<"quote">> \o x \o <<"quote">>
    BY <2>1, <2>2 DEF Write, Escaped
  <2>4. <<"quote">> \in Text
    <3>1. "quote" \in Chars
      BY DEF Chars
    <3> QED BY <3>1 DEF Text
  <2>5. <<"quote">> \o x \in Text
    BY <2>4, ConcatProperties DEF Text
  <2> QED BY <2>3, <2>4, <2>5, ConcatProperties DEF Text
<1>2. CASE val = Number(val.v) /\ IsNumberText(val.v)
  <2>1. val.kind = "number"
    BY <1>2 DEF Number
  <2> QED BY <1>2, <2>1 DEF Write, IsNumberText, Text
<1> QED BY <1>1, <1>2 DEF Readable

(* The values of a document, and where they are in its text: the kth from    *)
(* c[k - 1] up to the comma at e[k], and the text of the first k is g[k].    *)
Values(vals, n) == /\ n \in Nat /\ DOMAIN vals = 1 .. n
                   /\ \A k \in 1 .. n : Readable(vals[k])

Written(vals) == [k \in DOMAIN vals |-> Write(vals[k])]
Commas(vals)  == [k \in DOMAIN vals |-> <<",">>]

LaidOut(vals, n, t, c, e, g) ==
    /\ t \in Text /\ c[0] = 1 /\ c[n] = Len(t) + 1
    /\ \A k \in 1 .. n : Item(Write(vals[k]), t, c[k - 1], e[k]) /\ c[k] = e[k] + 1
    /\ g[n] = t /\ Sums(g, n, Written(vals), Commas(vals))

LEMMA DocumentText ==
    ASSUME NEW vals, NEW n, Values(vals, n)
    PROVE  \E c, e, g : LaidOut(vals, n, Stringify(vals), c, e, g)
<1>1. n \in Nat /\ DOMAIN vals = 1 .. n /\ \A k \in 1 .. n : Readable(vals[k])
  BY DEF Values
<1> DEFINE seqs == [i \in DOMAIN vals |-> Write(vals[i]) \o <<",">>]
<1>2. ASSUME NEW k \in 1 .. n
      PROVE  /\ Write(vals[k]) \in Text /\ Write(vals[k]) \o <<",">> \in Seq(Chars)
             /\ Len(Write(vals[k]) \o <<",">>) = Len(Write(vals[k])) + 1
             /\ \A z \in Nat : z = Len(Write(vals[k])) + 1 => (Write(vals[k]) \o <<",">>)[z] = ","
             /\ \A j \in 1 .. Len(Write(vals[k])) : (Write(vals[k]) \o <<",">>)[j] = Write(vals[k])[j]
  <2>1. PICK w \in Text : w = Write(vals[k])
    BY <1>1, WriteText
  <2> QED BY <2>1, CommaAfter DEF Text
<1>3. seqs \in Seq(Seq(Chars)) /\ Len(seqs) = n /\ \A i \in 1 .. n : seqs[i] = Write(vals[i]) \o <<",">>
  <2>1. \A i \in 1 .. n : Write(vals[i]) \o <<",">> \in Seq(Chars)
    BY <1>2
  <2>2. seqs \in Seq(Seq(Chars)) /\ Len(seqs) = n /\ DOMAIN seqs = 1 .. n
    <3>1. seqs \in [1 .. n -> Seq(Chars)]
      BY <1>1, <2>1
    <3> HIDE DEF seqs
    <3> QED BY <1>1, <3>1, SeqDef, LenProperties
  <2> QED BY <1>1, <2>2
<1>4. PICK g : PartsOf(g, seqs, Chars)
  <2> HIDE DEF seqs
  <2> QED BY <1>3, PartsExist
<1>5. PICK t : t = Stringify(vals)
  OBVIOUS
<1>6. t = g[n] /\ g \in [0 .. n -> Text] /\ g[0] = <<>> /\ \A k \in 1 .. n : g[k] = g[k - 1] \o seqs[k]
  <2>1. t = FlattenSeq(seqs)
    BY <1>5 DEF Stringify
  <2> HIDE DEF seqs
  <2> QED BY <1>3, <1>4, <2>1 DEF PartsOf, Text
<1> HIDE DEF seqs
<1>7. t \in Text
  BY <1>1, <1>6
<1>8. ASSUME NEW k \in 1 .. n
      PROVE  /\ Len(g[k]) = Len(g[k - 1]) + Len(Write(vals[k])) + 1 /\ Len(g[k]) <= Len(t)
             /\ t[Len(g[k])] = ","
             /\ \A i \in 1 .. Len(Write(vals[k])) : t[Len(g[k - 1]) + i] = Write(vals[k])[i]
  <2>1. PICK w \in Text : w = Write(vals[k])
    BY <1>2
  <2>2. PICK y : y = seqs[k]
    OBVIOUS
  <2>3. PICK m \in Nat : m = Len(w)
    BY <2>1, TextFacts
  <2>4. y = w \o <<",">>
    BY <1>3, <2>1, <2>2
  <2>5. Len(y) = m + 1
    BY <2>3, <2>4, CommaAfter
  <2>6. \A z \in Nat : z = m + 1 => y[z] = ","
    BY <2>3, <2>4, CommaAfter
  <2>7. \A j \in 1 .. m : y[j] = w[j]
    BY <2>3, <2>4, CommaAfter
  <2>8. /\ Len(g[k]) = Len(g[k - 1]) + Len(y) /\ Len(g[k]) <= Len(t)
        /\ \A i \in 1 .. Len(y) : t[Len(g[k - 1]) + i] = y[i]
    <3>1. Placed(g, seqs) /\ Len(seqs) = n
      BY <1>3, <1>4, PartsPlaced
    <3> QED BY <1>6, <2>2, <3>1 DEF Placed
  <2>9. PICK a \in Nat : a = Len(g[k - 1])
    <3>1. k - 1 \in 0 .. n
      BY <1>1
    <3> QED BY <1>6, <3>1, TextFacts
  <2>10. PICK z \in Nat : z = m + 1
    OBVIOUS
  <2>11. t[a + z] = ","
    <3>1. z \in 1 .. Len(y)
      BY <2>5, <2>10
    <3>2. y[z] = ","
      BY <2>6, <2>10
    <3> QED BY <2>8, <2>9, <3>1, <3>2
  <2>12. Len(g[k]) = a + z /\ a + z = a + m + 1
    <3>1. Len(y) = z
      BY <2>5, <2>10
    <3>2. Len(g[k]) = a + z
      BY <2>8, <2>9, <3>1
    <3> QED BY <2>10, <3>2
  <2>13. \A i \in 1 .. m : t[a + i] = w[i]
    <3>1. \A i \in 1 .. m : i \in 1 .. Len(y) 
      BY <2>5
    <3> QED BY <2>7, <2>8, <2>9, <3>1
  <2>14. Len(g[k]) = a + m + 1 /\ t[Len(g[k])] = ","
    <3>1. PICK u : u = a + z
      OBVIOUS
    <3> QED BY <2>11, <2>12, <3>1
  <2> QED BY <2>1, <2>3, <2>8, <2>9, <2>13, <2>14
<1> DEFINE c == [k \in 0 .. n |-> Len(g[k]) + 1]
           e == [k \in 1 .. n |-> Len(g[k])]
<1>9. c[0] = 1 /\ c[n] = Len(t) + 1
  BY <1>1, <1>6, EmptySeq
<1>10. ASSUME NEW k \in 1 .. n
       PROVE  Item(Write(vals[k]), t, c[k - 1], e[k]) /\ c[k] = e[k] + 1
  <2>1. k - 1 \in 0 .. n /\ k \in 0 .. n
    BY <1>1
  <2>2. PICK a \in Nat : a = Len(g[k - 1])
    BY <1>6, <2>1, TextFacts
  <2>3. PICK w \in Text : w = Write(vals[k])
    BY <1>2
  <2>4. PICK z \in Nat : z = Len(g[k]) /\ z = a + Len(w) + 1 /\ z <= Len(t) /\ t[z] = ","
    <3>1. Len(g[k]) \in Nat
      BY <1>6, <2>1, TextFacts
    <3> QED BY <1>8, <2>2, <2>3, <3>1
  <2>5. c[k - 1] = a + 1 /\ c[k] = z + 1 /\ e[k] = z
    BY <2>1, <2>2, <2>4
  <2>6. PICK m \in Nat : m = Len(w) /\ z = a + m + 1
    BY <2>3, <2>4, TextFacts
  <2>7. PICK l \in Nat : l = Len(t) /\ z <= l
    BY <1>7, <2>4, TextFacts
  <2>8. ASSUME NEW i \in 1 .. m PROVE a + 1 + i - 1 \in 1 .. l /\ t[a + 1 + i - 1] = w[i]
    <3>1. PICK u \in Nat : u = a + i
      OBVIOUS
    <3>2. t[u] = w[i]
      BY <1>8, <2>2, <2>3, <2>6, <3>1
    <3>3. u \in 1 .. l
      BY <2>6, <2>7, <3>1
    <3>4. u = a + 1 + i - 1
      BY <3>1
    <3> QED BY <3>2, <3>3, <3>4
  <2>9. PICK b \in Nat : b = a + 1 /\ b >= 1
    OBVIOUS
  <2>10. Occurs(w, t, b)
    BY <1>7, <2>6, <2>7, <2>8, <2>9 DEF Occurs
  <2>11. Item(w, t, b, z)
    <3>1. z = b + m /\ z \in 1 .. l
      BY <2>6, <2>7, <2>9
    <3> QED BY <2>4, <2>6, <2>7, <2>10, <3>1 DEF Item
  <2> HIDE DEF c, e
  <2> QED BY <2>3, <2>5, <2>9, <2>11
<1>11. Sums(g, n, Written(vals), Commas(vals))
  <2>1. ASSUME NEW k \in 1 .. n PROVE g[k] = g[k - 1] \o (Written(vals)[k] \o Commas(vals)[k])
    BY <1>1, <1>3, <1>6 DEF Written, Commas
  <2> QED BY <1>6, <2>1 DEF Sums
<1> HIDE DEF c, e
<1>12. LaidOut(vals, n, t, c, e, g)
  BY <1>6, <1>7, <1>9, <1>10, <1>11 DEF LaidOut
<1> QED BY <1>5, <1>12

(* The comma after an item is a token of its own, and no value. *)
LEMMA CommaAt ==
    ASSUME NEW w, NEW t, NEW i, NEW e, Item(w, t, i, e)
    PROVE  /\ TokenEnd(t, e) = e + 1 /\ QuotedToken(t, e) = <<",">>
           /\ ValueEnd(t, e) = e + 1 /\ ValueAt(t, e) = <<>>
<1>1. t \in Text /\ e \in 1 .. Len(t) /\ t[e] = ","
  BY DEF Item, Occurs
<1>2. t[e] # "quote"
  BY <1>1
<1>3. e \in Nat /\ e >= 1 /\ e + 1 - 1 = e
  <2>1. PICK n \in Nat : n = Len(t)
    BY <1>1, TextFacts
  <2>2. e \in 1 .. n
    BY <1>1, <2>1
  <2>3. \A x \in 1 .. n : x \in Nat /\ x >= 1 /\ x + 1 - 1 = x
    OBVIOUS
  <2> QED BY <2>2, <2>3
<1>4. ~StartsNumber(t[e])
  BY <1>1 DEF StartsNumber, IsDigit, Digits
<1>5. TokenEnd(t, e) = e + 1 /\ ValueEnd(t, e) = e + 1
  BY <1>2, <1>4 DEF TokenEnd, ValueEnd
<1>6. ValueAt(t, e) = <<>>
  BY <1>2, <1>4 DEF ValueAt
<1>7. SubSeq(t, e, e) = <<",">>
  <2>1. Occurs(<<",">>, t, e)
    <3>1. ASSUME NEW k \in 1 .. 1 PROVE e + k - 1 \in 1 .. Len(t) /\ t[e + k - 1] = <<",">>[k]
      <4>1. k = 1 /\ e + k - 1 = e
        BY <1>3
      <4> QED BY <1>1, <4>1, CommaText
    <3> QED BY <1>1, <1>3, <3>1, CommaText DEF Occurs
  <2>2. PICK j \in Nat : j = e + 1
    BY <1>3
  <2>3. SubSeq(t, e, j - 1) = <<",">>
    BY <2>1, <2>2, CommaText, OccursIsSubSeq
  <2>4. j - 1 = e
    BY <1>3, <2>2
  <2> QED BY <2>3, <2>4
<1>8. QuotedToken(t, e) = SubSeq(t, e, e)
  BY <1>3, <1>4, <1>5 DEF QuotedToken
<1> QED BY <1>5, <1>6, <1>7, <1>8

(* A marked integer is written as the scan quotes it. *)
LEMMA QuotedIsWritten ==
    ASSUME NEW w, IsNumberText(w), ~IsFloat(w)
    PROVE  Quoted(w) = Write(Str(Between(w)))
<1>1. w \in Text /\ Len(w) \in Nat /\ \A k \in 1 .. Len(w) : w[k] \notin {"quote", "bslash"}
  BY IntegerText
<1>2. PICK v \in Text : v = Between(w)
  BY <1>1, BetweenFacts
<1>3. PICK m \in Nat : m = Len(w)
  BY <1>1
<1>4. /\ Len(v) = m + 2 /\ v[1] = Sentinel /\ v[Len(v)] = Sentinel
      /\ \A k \in 1 .. m : v[k + 1] = w[k]
  BY <1>1, <1>2, <1>3, BetweenFacts
<1>5. ASSUME NEW k \in 1 .. Len(v) PROVE v[k] \notin {"quote", "bslash"}
  <2>1. k \in 1 .. m + 2
    BY <1>4
  <2>2. CASE k = 1 \/ k = Len(v)
    BY <1>4, <2>2 DEF Sentinel
  <2>3. CASE k # 1 /\ k # Len(v)
    <3>1. k # m + 2
      BY <1>4, <2>3
    <3>2. PICK j \in 1 .. m : k = j + 1
      <4>1. k - 1 \in 1 .. m /\ k = (k - 1) + 1
        BY <2>1, <2>3, <3>1
      <4> QED BY <4>1
    <3>3. v[k] = w[j]
      BY <1>4, <3>2
    <3> QED BY <1>1, <1>3, <3>3
  <2> QED BY <2>2, <2>3
<1>6. Escaped(v) = v
  BY <1>5, PlainEscaped
<1>7. Write(Str(v)) = <<"quote">> \o v \o <<"quote">>
  BY <1>6 DEF Write, Str, Escaped
<1>8. Quoted(w) = <<"quote">> \o v \o <<"quote">>
  <2>1. PICK q, s : q = <<"quote">> /\ s = <<Sentinel>> /\ q \in Seq(Chars) /\ s \in Seq(Chars)
    <3>1. "quote" \in Chars /\ Sentinel \in Chars
      BY DEF Chars
    <3>2. <<"quote">> \in Seq(Chars) /\ <<Sentinel>> \in Seq(Chars)
      BY <3>1
    <3> QED BY <3>2
  <2>2. <<"quote", Sentinel>> = Cat(q, s) /\ <<Sentinel, "quote">> = Cat(s, q)
    BY <2>1 DEF Cat
  <2>3. Quoted(w) = Cat(Cat(Cat(q, s), w), Cat(s, q))
    BY <2>2 DEF Quoted, Cat
  <2>4. v = Cat(Cat(s, w), s)
    BY <1>2, <2>1 DEF Between, Cat
  <2>5. <<"quote">> \o v \o <<"quote">> = Cat(Cat(q, v), q)
    BY <2>1 DEF Cat
  <2>6. /\ \A x, y \in Seq(Chars) : Cat(x, y) \in Seq(Chars)
        /\ \A x, y, z \in Seq(Chars) : Cat(x, Cat(y, z)) = Cat(Cat(x, y), z)
    BY CatFacts
  <2>7. w \in Seq(Chars)
    BY <1>1 DEF Text
  <2>8. Cat(Cat(Cat(q, s), w), Cat(s, q)) = Cat(Cat(Cat(Cat(q, s), w), s), q)
    <3>1. Cat(q, s) \in Seq(Chars)
      BY <2>1, <2>6, Zenon
    <3>2. Cat(Cat(q, s), w) \in Seq(Chars)
      BY <2>6, <2>7, <3>1, Zenon
    <3>3. PICK x \in Seq(Chars) : x = Cat(Cat(q, s), w)
      BY <3>2, Zenon
    <3>4. Cat(x, Cat(s, q)) = Cat(Cat(x, s), q)
      BY <2>1, <2>6, Zenon
    <3> QED BY <3>3, <3>4, Zenon
  <2>9. Cat(Cat(Cat(q, s), w), s) = Cat(q, Cat(Cat(s, w), s))
    <3>1. Cat(Cat(q, s), w) = Cat(q, Cat(s, w)) /\ Cat(s, w) \in Seq(Chars)
      BY <2>1, <2>6, <2>7, Zenon
    <3>2. Cat(Cat(q, Cat(s, w)), s) = Cat(q, Cat(Cat(s, w), s))
      BY <2>1, <2>6, <3>1, Zenon
    <3> QED BY <3>1, <3>2, Zenon
  <2> QED BY <2>3, <2>4, <2>5, <2>8, <2>9, Zenon
<1> QED BY <1>2, <1>7, <1>8

LEMMA QuotedAt ==
    ASSUME NEW val, IsValue(val), NEW t, NEW i, NEW e, Item(Write(val), t, i, e)
    PROVE  TokenEnd(t, i) = e /\ QuotedToken(t, i) = Write(Mark(val))
<1>1. Occurs(Write(val), t, i) /\ e = i + Len(Write(val)) /\ t \in Text /\ e \in 1 .. Len(t)
  BY DEF Item, Occurs
<1>2. e \in Nat
  BY <1>1, TextFacts
<1>3. SubSeq(t, i, e - 1) = Write(val)
  BY <1>1, <1>2, OccursIsSubSeq
<1>4. Readable(val)
  BY MarkFacts
<1>5. CASE val = Str(val.v) /\ val.v \in Text
  <2>1. t[i] = "quote" /\ StringEnd(t, i + 1) = e
    BY <1>5, StringToken
  <2>2. TokenEnd(t, i) = e
    BY <2>1, QuoteStartsNone DEF TokenEnd
  <2>3. QuotedToken(t, i) = Write(val)
    BY <1>3, <2>1, <2>2, QuoteStartsNone DEF QuotedToken
  <2>4. Mark(val) = val
    <3>1. val.kind = "string"
      BY <1>5 DEF Str
    <3> QED BY <3>1 DEF Mark, Unsafe
  <2> QED BY <2>2, <2>3, <2>4
<1>6. CASE val = Number(val.v) /\ IsNumberText(val.v)
  <2>1. PICK w : w = val.v
    OBVIOUS
  <2>2. val.kind = "number" /\ Write(val) = w
    BY <1>6, <2>1 DEF Number, Write
  <2>3. StartsNumber(t[i]) /\ NumberEnd(t, i) = e
    BY <1>6, <2>1, <2>2, NumberToken
  <2>4. TokenEnd(t, i) = e
    BY <2>3, QuoteStartsNone DEF TokenEnd
  <2>5. QuotedToken(t, i) = QuoteIfUnsafe(w)
    BY <1>3, <2>2, <2>3, <2>4 DEF QuotedToken
  <2>6. CASE Unsafe(val)
    <3>1. QuoteIfUnsafe(w) = Quoted(w) /\ ~IsFloat(w)
      BY <2>1, <2>6 DEF QuoteIfUnsafe, Unsafe
    <3>2. Mark(val) = Str(Between(w))
      BY <2>1, <2>6 DEF Mark
    <3> QED BY <1>6, <2>1, <2>4, <2>5, <3>1, <3>2, QuotedIsWritten
  <2>7. CASE ~Unsafe(val)
    <3>1. QuoteIfUnsafe(w) = w
      BY <2>1, <2>2, <2>7 DEF QuoteIfUnsafe, Unsafe
    <3>2. Mark(val) = val
      BY <2>7 DEF Mark
    <3> QED BY <2>2, <2>4, <2>5, <3>1, <3>2
  <2> QED BY <2>6, <2>7
<1> QED BY <1>4, <1>5, <1>6 DEF Readable

LEMMA ReadAt ==
    ASSUME NEW val, Readable(val), NEW t, NEW i, NEW e, Item(Write(val), t, i, e)
    PROVE  ValueEnd(t, i) = e /\ ValueAt(t, i) = <<AsRead(val)>>
<1>1. Occurs(Write(val), t, i) /\ e = i + Len(Write(val)) /\ t \in Text /\ e \in 1 .. Len(t)
  BY DEF Item, Occurs
<1>2. e \in Nat
  BY <1>1, TextFacts
<1>3. SubSeq(t, i, e - 1) = Write(val)
  BY <1>1, <1>2, OccursIsSubSeq
<1>4. CASE val = Str(val.v) /\ val.v \in Text
  <2>1. t[i] = "quote" /\ LiteralEnd(t, i + 1) = e - 1 /\ SubSeq(t, i + 1, e - 2) = Escaped(val.v)
    BY <1>4, StringToken
  <2>2. ValueEnd(t, i) = e
    <3>1. ValueEnd(t, i) = (e - 1) + 1
      BY <2>1, QuoteStartsNone DEF ValueEnd
    <3>2. (e - 1) + 1 = e
      BY <1>2
    <3> QED BY <3>1, <3>2
  <2>3. ValueAt(t, i) = <<Str(Unescape(Escaped(val.v)))>>
    BY <2>1, <2>2, QuoteStartsNone DEF ValueAt
  <2>4. Unescape(Escaped(val.v)) = val.v
    BY <1>4, UnescapeEscaped
  <2>5. AsRead(val) = val
    <3>1. val.kind = "string"
      BY <1>4 DEF Str
    <3> QED BY <3>1 DEF AsRead
  <2> QED BY <1>4, <2>2, <2>3, <2>4, <2>5
<1>5. CASE val = Number(val.v) /\ IsNumberText(val.v)
  <2>1. PICK w : w = val.v
    OBVIOUS
  <2>2. val.kind = "number" /\ Write(val) = w
    BY <1>5, <2>1 DEF Number, Write
  <2>3. StartsNumber(t[i]) /\ NumberEnd(t, i) = e
    BY <1>5, <2>1, <2>2, NumberToken
  <2>4. ValueEnd(t, i) = e
    BY <2>3, QuoteStartsNone DEF ValueEnd
  <2>5. ValueAt(t, i) = <<Number(Rounded(w))>>
    BY <1>3, <2>2, <2>3, <2>4, QuoteStartsNone DEF ValueAt
  <2>6. AsRead(val) = Number(Rounded(w))
    BY <2>1, <2>2 DEF AsRead
  <2> QED BY <2>4, <2>5, <2>6
<1> QED BY <1>4, <1>5 DEF Readable

LEMMA ItemPlaces ==
    ASSUME NEW w, NEW t, NEW i, NEW e, Item(w, t, i, e)
    PROVE  i \in Positions /\ ~(i > Len(t)) /\ e \in Positions /\ ~(e > Len(t))
<1>1. t \in Text /\ w \in Text /\ i \in Nat /\ i >= 1 /\ e = i + Len(w) /\ e \in 1 .. Len(t)
  BY DEF Item, Occurs
<1>2. Len(t) \in Nat /\ Len(w) \in Nat
  BY <1>1, TextFacts
<1> QED BY <1>1, <1>2 DEF Positions

-----------------------------------------------------------------------------
(* The whole texts. *)

Marks(vals, n)   == [k \in 1 .. n |-> Mark(vals[k])]
AsReads(vals, n) == [k \in 1 .. n |-> AsRead(vals[k])]

(* The scan quotes the unsafe integers of a text, and nothing else. *)
LEMMA UnsafeQuoted ==
    ASSUME NEW vals, NEW n, n \in Nat, DOMAIN vals = 1 .. n, \A k \in 1 .. n : IsValue(vals[k])
    PROVE  Values(Marks(vals, n), n) /\ QuoteUnsafeIntegers(Stringify(vals)) = Stringify(Marks(vals, n))
<1>1. PICK us : us = Marks(vals, n)
  OBVIOUS
<1>2. DOMAIN us = 1 .. n /\ \A k \in 1 .. n : us[k] = Mark(vals[k])
  BY <1>1 DEF Marks
<1>3. Values(vals, n) /\ Values(us, n)
  BY <1>2, MarkFacts DEF Values
<1>4. PICK t, c, e, g : t = Stringify(vals) /\ LaidOut(vals, n, t, c, e, g)
  BY <1>3, DocumentText
<1>5. PICK u, d, o, h : u = Stringify(us) /\ LaidOut(us, n, u, d, o, h)
  BY <1>3, DocumentText
<1>6. t \in Text /\ c[0] = 1 /\ c[n] = Len(t) + 1
      /\ \A k \in 1 .. n : Item(Write(vals[k]), t, c[k - 1], e[k]) /\ c[k] = e[k] + 1
  BY <1>4 DEF LaidOut
<1>7. h[n] = u /\ Sums(h, n, Written(us), Commas(us))
  BY <1>5 DEF LaidOut
<1>8. PICK f : QuoteStep(t, f) /\ QuoteUnsafeIntegers(t) = f[1]
  BY <1>6, QuoteScans
<1>9. \A i \in Positions : ~(i > Len(t)) => f[i] = QuotedToken(t, i) \o f[TokenEnd(t, i)]
  BY <1>8 DEF QuoteStep
<1>10. f[c[n]] = <<>>
  <2>1. PICK i : i = Len(t) + 1
    OBVIOUS
  <2>2. Len(t) \in Nat
    BY <1>6, TextFacts
  <2>3. i \in Positions /\ i > Len(t)
    BY <2>1, <2>2 DEF Positions
  <2>4. f[i] = <<>>
    BY <1>8, <2>3 DEF QuoteStep
  <2> QED BY <1>6, <2>1, <2>4
<1>11. ASSUME NEW k \in 1 .. n
       PROVE  /\ f[c[k - 1]] = Written(us)[k] \o (Commas(us)[k] \o f[c[k]])
              /\ Written(us)[k] \in Seq(Chars) /\ Commas(us)[k] \in Seq(Chars)
  <2>1. PICK i, z : i = c[k - 1] /\ z = e[k]
    OBVIOUS
  <2>2. Item(Write(vals[k]), t, i, z) /\ c[k] = z + 1
    BY <1>6, <2>1
  <2>3. i \in Positions /\ ~(i > Len(t)) /\ z \in Positions /\ ~(z > Len(t))
    BY <2>2, ItemPlaces
  <2>4. TokenEnd(t, i) = z /\ QuotedToken(t, i) = Write(us[k])
    BY <1>2, <2>2, QuotedAt
  <2>5. TokenEnd(t, z) = z + 1 /\ QuotedToken(t, z) = <<",">>
    BY <2>2, CommaAt
  <2>6. f[i] = Write(us[k]) \o f[z]
    BY <1>9, <2>3, <2>4
  <2>7. f[z] = <<",">> \o f[z + 1]
    BY <1>9, <2>3, <2>5
  <2>8. Written(us)[k] = Write(us[k]) /\ Commas(us)[k] = <<",">>
    BY <1>2 DEF Written, Commas
  <2>9. Write(us[k]) \in Seq(Chars) /\ <<",">> \in Seq(Chars)
    BY <1>3, CommaText, WriteText DEF Values, Text
  <2> QED BY <2>1, <2>2, <2>6, <2>7, <2>8, <2>9
<1>12. Along(f, n, c, Written(us), Commas(us), Chars)
  BY <1>10, <1>11 DEF Along
<1>13. f[c[0]] = h[n]
  BY <1>7, <1>12, ScanAlong
<1> QED BY <1>1, <1>3, <1>4, <1>5, <1>6, <1>7, <1>8, <1>13

(* JSON.parse reads the values of a text one by one. *)
LEMMA DocumentRead ==
    ASSUME NEW us, NEW n, Values(us, n)
    PROVE  Read(Stringify(us)) = AsReads(us, n)
<1>1. n \in Nat /\ DOMAIN us = 1 .. n /\ \A k \in 1 .. n : Readable(us[k])
  BY DEF Values
<1>2. PICK t, c, e, g : t = Stringify(us) /\ LaidOut(us, n, t, c, e, g)
  BY DocumentText
<1>3. t \in Text /\ c[0] = 1 /\ c[n] = Len(t) + 1
      /\ \A k \in 1 .. n : Item(Write(us[k]), t, c[k - 1], e[k]) /\ c[k] = e[k] + 1
  BY <1>2 DEF LaidOut
<1>4. PICK f : ReadStep(t, f) /\ Read(t) = f[1]
  BY <1>3, ReadScans
<1>5. \A i \in Positions : ~(i > Len(t)) => f[i] = ValueAt(t, i) \o f[ValueEnd(t, i)]
  BY <1>4 DEF ReadStep
<1>6. f[c[n]] = <<>>
  <2>1. PICK i : i = Len(t) + 1
    OBVIOUS
  <2>2. Len(t) \in Nat
    BY <1>3, TextFacts
  <2>3. i \in Positions /\ i > Len(t)
    BY <2>1, <2>2 DEF Positions
  <2>4. f[i] = <<>>
    BY <1>4, <2>3 DEF ReadStep
  <2> QED BY <1>3, <2>1, <2>4
<1>7. PICK C, r : C = {AsRead(us[k]) : k \in 1 .. n} /\ r = AsReads(us, n)
  OBVIOUS
<1>8. r \in Seq(C) /\ Len(r) = n /\ \A k \in 1 .. n : r[k] = AsRead(us[k]) /\ r[k] \in C
  <2>1. \A k \in 1 .. n : r[k] = AsRead(us[k]) /\ r[k] \in C
    BY <1>7 DEF AsReads
  <2>2. r \in [1 .. n -> C]
    BY <1>7, <2>1 DEF AsReads
  <2>3. r \in Seq(C)
    BY <1>1, <2>2, SeqDef
  <2>4. Len(r) = n
    BY <1>1, <2>2, <2>3, LenProperties
  <2> QED BY <2>1, <2>3, <2>4
<1>9. ASSUME NEW k \in 1 .. n
      PROVE  /\ f[c[k - 1]] = Ones(r)[k] \o (Nones(r)[k] \o f[c[k]])
             /\ Ones(r)[k] \in Seq(C) /\ Nones(r)[k] \in Seq(C)
  <2>1. PICK i, z : i = c[k - 1] /\ z = e[k]
    OBVIOUS
  <2>2. Item(Write(us[k]), t, i, z) /\ c[k] = z + 1
    BY <1>3, <2>1
  <2>3. i \in Positions /\ ~(i > Len(t)) /\ z \in Positions /\ ~(z > Len(t))
    BY <2>2, ItemPlaces
  <2>4. ValueEnd(t, i) = z /\ ValueAt(t, i) = <<r[k]>>
    BY <1>1, <1>8, <2>2, ReadAt
  <2>5. ValueEnd(t, z) = z + 1 /\ ValueAt(t, z) = <<>>
    BY <2>2, CommaAt
  <2>6. f[i] = <<r[k]>> \o f[z]
    BY <1>5, <2>3, <2>4
  <2>7. f[z] = <<>> \o f[z + 1]
    BY <1>5, <2>3, <2>5
  <2>8. Ones(r)[k] = <<r[k]>> /\ Nones(r)[k] = <<>>
    BY <1>8 DEF Ones, Nones
  <2>9. <<r[k]>> \in Seq(C) /\ <<>> \in Seq(C)
    BY <1>8
  <2> QED BY <2>1, <2>2, <2>6, <2>7, <2>8, <2>9
<1>10. Along(f, n, c, Ones(r), Nones(r), C)
  BY <1>6, <1>9 DEF Along
<1> DEFINE h == [k \in 0 .. n |-> SubSeq(r, 1, k)]
<1>11. Sums(h, n, Ones(r), Nones(r))
  BY <1>8, PrefixSums
<1>12. h[n] = r
  BY <1>1, <1>8, SubSeqFull
<1> HIDE DEF h
<1>13. f[c[0]] = h[n]
  BY <1>1, <1>10, <1>11, ScanAlong
<1> QED BY <1>2, <1>3, <1>4, <1>7, <1>12, <1>13

(* What the server writes is what the client gets, each integer exactly. *)
LEMMA ParsedExactly ==
    ASSUME NEW vals, NEW n, n \in Nat, DOMAIN vals = 1 .. n, \A k \in 1 .. n : IsValue(vals[k])
    PROVE  ParseJson(Stringify(vals)) = [k \in 1 .. n |-> Exact(vals[k])]
<1>1. PICK us : us = Marks(vals, n)
  OBVIOUS
<1>2. PICK r : r = Read(QuoteUnsafeIntegers(Stringify(vals)))
  OBVIOUS
<1>3. r = AsReads(us, n)
  BY <1>1, <1>2, UnsafeQuoted, DocumentRead
<1>4. DOMAIN r = 1 .. n /\ \A k \in 1 .. n : Revive(r[k]) = Exact(vals[k])
  <2>1. DOMAIN r = 1 .. n /\ \A k \in 1 .. n : r[k] = AsRead(Mark(vals[k]))
    BY <1>1, <1>3 DEF Marks, AsReads
  <2> QED BY <2>1, MarkFacts
<1>5. ParseJson(Stringify(vals)) = [k \in DOMAIN r |-> Revive(r[k])]
  BY <1>2 DEF ParseJson
<1> QED BY <1>4, <1>5

USE AccountAssumption

-----------------------------------------------------------------------------
(* The hosts that a request asks are numbered modulo Hosts. *)

LEMMA Rest == ASSUME NEW a \in Nat PROVE a % Hosts \in HostIds
BY DEF HostIds

LEMMA RestBelow == ASSUME NEW a \in HostIds PROVE a % Hosts = a
BY DEF HostIds

LEMMA RestAbove == ASSUME NEW a \in HostIds PROVE (a + Hosts) % Hosts = a
BY DEF HostIds

(* The first i hosts from a start. *)
FirstHosts(start, i) == {(start + j) % Hosts : j \in 0 .. i - 1}

LEMMA NoHostYet == ASSUME NEW s PROVE FirstHosts(s, 0) = {}
BY DEF FirstHosts

LEMMA OneHostMore ==
    ASSUME NEW s, NEW i \in Nat
    PROVE  FirstHosts(s, i + 1) = FirstHosts(s, i) \cup {(s + i) % Hosts}
<1>1. 0 .. (i + 1) - 1 = (0 .. i - 1) \cup {i}
  OBVIOUS
<1> QED BY <1>1 DEF FirstHosts

(* Hosts of them are all of them, wherever they start. *)
LEMMA AllHosts ==
    ASSUME NEW s \in HostIds
    PROVE  FirstHosts(s, Hosts) = HostIds
<1>1. ASSUME NEW j \in 0 .. Hosts - 1 PROVE (s + j) % Hosts \in HostIds
  BY <1>1, Rest DEF HostIds
<1>2. ASSUME NEW h \in HostIds PROVE \E j \in 0 .. Hosts - 1 : (s + j) % Hosts = h
  <2>1. CASE h >= s
    <3>1. h - s \in 0 .. Hosts - 1 /\ s + (h - s) = h
      BY <2>1 DEF HostIds
    <3>2. (s + (h - s)) % Hosts = h
      BY <3>1, RestBelow
    <3> QED BY <3>1, <3>2
  <2>2. CASE h < s
    <3>1. h + Hosts - s \in 0 .. Hosts - 1 /\ s + (h + Hosts - s) = h + Hosts
      BY <2>2 DEF HostIds
    <3>2. (s + (h + Hosts - s)) % Hosts = h
      BY <3>1, RestAbove
    <3> QED BY <3>1, <3>2
  <2> QED BY <2>1, <2>2 DEF HostIds
<1> QED BY <1>1, <1>2 DEF FirstHosts

-----------------------------------------------------------------------------
(* The requests. *)

ReqType == [on : BOOLEAN, start : HostIds, i : HostIds, asked : SUBSET HostIds, null : BOOLEAN]

(* A request under way has asked the hosts from its start up to the next one; *)
(* one that was given up has asked them all.                                 *)
ReqOK(r) == r \in ReqType /\ r.asked = IF r.null THEN HostIds ELSE FirstHosts(r.start, r.i)

ReqsOK == req \in [Callers -> ReqType] /\ \A c \in Callers : ReqOK(req[c])

LEMMA NewReq == ASSUME NEW s \in HostIds PROVE ReqOK([NoReq EXCEPT !.on = TRUE, !.start = s]) /\ ReqOK(NoReq)
<1>1. 0 \in HostIds
  BY DEF HostIds
<1> QED BY <1>1, NoHostYet DEF ReqOK, ReqType, NoReq

LEMMA ReqSteps ==
    ASSUME cursor \in HostIds, ReqsOK, NEW c \in Callers
    PROVE  /\ Begins(c) => cursor' \in HostIds /\ ReqsOK'
           /\ Answered(c) => ReqsOK'
           /\ TriesNext(c) /\ req[c].on => ReqsOK'
<1>1. ASSUME NEW r, ReqOK(r), req' = [req EXCEPT ![c] = r] PROVE ReqsOK'
  <2>1. r \in ReqType
    BY <1>1 DEF ReqOK
  <2>2. req' \in [Callers -> ReqType]
    BY <1>1, <2>1 DEF ReqsOK
  <2>3. ASSUME NEW d \in Callers PROVE ReqOK(req'[d])
    BY <1>1, <2>3 DEF ReqsOK
  <2> QED BY <2>2, <2>3 DEF ReqsOK
<1>2. Begins(c) => cursor' \in HostIds /\ ReqsOK'
  <2>1. (cursor + 1) % Hosts \in HostIds
    BY Rest DEF HostIds
  <2> QED BY <1>1, <2>1, NewReq DEF Begins, Begun
<1>3. Answered(c) => ReqsOK'
  BY <1>1, NewReq DEF Answered
<1>4. ASSUME TriesNext(c), req[c].on PROVE ReqsOK'
  <2>1. PICK r : r = req[c]
    OBVIOUS
  <2>2. r \in ReqType /\ ReqOK(r) /\ r.i \in Nat
    BY <2>1 DEF ReqsOK, ReqType, HostIds
  <2>3. Host(c) = (r.start + r.i) % Hosts /\ Host(c) \in HostIds
    <3>1. r.start + r.i \in Nat
      BY <2>2 DEF ReqType, HostIds
    <3>2. (r.start + r.i) % Hosts \in HostIds
      BY <3>1, Rest
    <3> QED BY <2>1, <3>2 DEF Host
  <2>4. CASE LastHost(c)
    <3>1. PICK x : x = [NoReq EXCEPT !.null = TRUE, !.asked = Asked(c)]
      OBVIOUS
    <3>2. Asked(c) = HostIds
      <4>1. CASE r.null
        BY <2>1, <2>2, <2>3, <4>1 DEF Asked, ReqOK
      <4>2. CASE ~r.null
        <5>1. Asked(c) = FirstHosts(r.start, r.i + 1)
          BY <2>1, <2>2, <2>3, <4>2, OneHostMore DEF Asked, ReqOK
        <5>2. r.i + 1 = Hosts /\ r.start \in HostIds
          BY <2>1, <2>2, <2>4 DEF LastHost, ReqType
        <5> QED BY <5>1, <5>2, AllHosts
      <4> QED BY <4>1, <4>2
    <3>3. x = [on |-> FALSE, start |-> 0, i |-> 0, asked |-> HostIds, null |-> TRUE]
      BY <3>1, <3>2 DEF NoReq
    <3>4. 0 \in HostIds
      BY DEF HostIds
    <3>5. ReqOK(x)
      BY <3>3, <3>4 DEF ReqOK, ReqType
    <3> QED BY <1>1, <1>4, <2>4, <3>1, <3>5 DEF TriesNext
  <2>5. CASE ~LastHost(c)
    <3>1. PICK x : x = [r EXCEPT !.i = @ + 1, !.asked = Asked(c)]
      OBVIOUS
    <3>2. x.i = r.i + 1 /\ x.asked = Asked(c) /\ x.start = r.start /\ x.null = r.null /\ x.on = r.on
          /\ x = [on |-> x.on, start |-> x.start, i |-> x.i, asked |-> x.asked, null |-> x.null]
      BY <2>2, <3>1 DEF ReqType
    <3>3. x.i \in HostIds
      BY <2>1, <2>2, <2>5, <3>2 DEF LastHost, ReqType, HostIds
    <3>4. Asked(c) \subseteq HostIds /\ Asked(c) = IF r.null THEN HostIds ELSE FirstHosts(r.start, r.i + 1)
      BY <2>1, <2>2, <2>3, OneHostMore DEF Asked, ReqOK, ReqType
    <3>5. x \in ReqType
      BY <2>2, <3>2, <3>3, <3>4 DEF ReqType
    <3>6. ReqOK(x)
      BY <3>2, <3>4, <3>5 DEF ReqOK
    <3>7. req' = [req EXCEPT ![c] = x]
      BY <1>4, <2>1, <2>5, <3>1 DEF TriesNext, ReqsOK
    <3> QED BY <1>1, <3>6, <3>7
  <2> QED BY <2>4, <2>5
<1> QED BY <1>2, <1>3, <1>4

-----------------------------------------------------------------------------
(* The application. *)

FlowOK ==
    /\ flow = [at |-> flow.at, refused |-> flow.refused, runs |-> flow.runs, role |-> flow.role]
    /\ flow.at \in Stages /\ flow.refused \in BOOLEAN /\ flow.runs \in 0 .. MaxFlows
    /\ NoFalseFailure

AccountInv == cursor \in HostIds /\ ReqsOK /\ FlowOK /\ role \in RoleDocs \cup {None}

LEMMA FlowSteps ==
    ASSUME FlowOK
    PROVE  /\ \A at \in Stages, refused \in BOOLEAN :
                 Goes(at, refused) /\ (at = "failed" => refused) => FlowOK'
           /\ UNCHANGED flow => FlowOK'
<1>1. ASSUME NEW at \in Stages, NEW refused \in BOOLEAN, Goes(at, refused), at = "failed" => refused PROVE FlowOK'
  <2>1. /\ flow'.at = at /\ flow'.refused = (flow.refused \/ refused) /\ flow'.runs = flow.runs
        /\ flow' = [at |-> flow'.at, refused |-> flow'.refused, runs |-> flow'.runs, role |-> flow'.role]
    BY <1>1 DEF Goes, FlowOK
  <2> QED BY <1>1, <2>1 DEF FlowOK, NoFalseFailure
<1>2. UNCHANGED flow => FlowOK'
  BY DEF FlowOK, NoFalseFailure
<1> QED BY <1>1, <1>2

LEMMA AppSteps ==
    ASSUME AccountInv, AppNext
    PROVE  AccountInv'
<1>1. "app" \in Callers /\ cursor \in HostIds /\ ReqsOK /\ FlowOK /\ role \in RoleDocs \cup {None}
  BY DEF AccountInv, Callers
<1>2. /\ Begins("app") => cursor' \in HostIds /\ ReqsOK'
      /\ Answered("app") => ReqsOK'
      /\ TriesNext("app") /\ req["app"].on => ReqsOK'
  BY <1>1, ReqSteps
<1>3. /\ \A at \in Stages \ {"failed"} : Continues(at) => FlowOK' /\ cursor' \in HostIds /\ ReqsOK'
      /\ Fails(TRUE) => FlowOK' /\ cursor' \in HostIds /\ ReqsOK'
  BY <1>1, <1>2, FlowSteps DEF Continues, Fails, Stages
<1>4. ASSUME NEW doc, Ready(doc) PROVE FlowOK' /\ cursor' \in HostIds /\ ReqsOK'
  <2>1. /\ flow'.at = "ready" /\ flow'.refused = flow.refused /\ flow'.runs = flow.runs
        /\ flow' = [at |-> flow'.at, refused |-> flow'.refused, runs |-> flow'.runs, role |-> flow'.role]
    BY <1>1, <1>4 DEF Ready, FlowOK
  <2> QED BY <1>1, <1>2, <1>4, <2>1 DEF Ready, FlowOK, NoFalseFailure, Stages
<1>5. CASE SignIn
  <2>1. FlowOK'
    BY <1>1, <1>5 DEF SignIn, FlowOK, NoFalseFailure, Stages
  <2> QED BY <1>1, <1>2, <1>5, <2>1 DEF SignIn, AccountInv
<1>6. CASE Refused
  BY <1>1, <1>3, <1>6 DEF Refused, AccountInv
<1>7. CASE SignedIn
  BY <1>1, <1>3, <1>7 DEF SignedIn, AccountInv, Stages
<1>8. CASE ServersListed
  <2>1. Continues("roles") \/ Fails(TRUE)
    BY <1>8 DEF ServersListed
  <2> QED BY <1>1, <1>3, <1>8, <2>1 DEF ServersListed, AccountInv, Stages
<1>9. CASE RolesListed
  <2>1. Ready(role) \/ Continues("create_role")
    BY <1>9 DEF RolesListed, AsArray
  <2> QED BY <1>1, <1>3, <1>4, <1>9, <2>1 DEF RolesListed, AccountInv, Stages
<1>10. CASE RoleCreated
  <2>1. (\E doc : Ready(doc)) \/ Fails(TRUE)
    BY <1>10 DEF RoleCreated
  <2>2. role' \in RoleDocs \cup {None}
    BY <1>1, <1>10 DEF RoleCreated
  <2> QED BY <1>3, <1>4, <2>1, <2>2 DEF AccountInv
<1>11. CASE AppHostFails
  <2>1. FlowOK'
    BY <1>1, <1>11, FlowSteps DEF AppHostFails, Stages
  <2>2. role' \in RoleDocs \cup {None} /\ cursor' \in HostIds /\ ReqsOK'
    BY <1>1, <1>2, <1>11 DEF AppHostFails
  <2> QED BY <2>1, <2>2 DEF AccountInv
<1> QED BY <1>5, <1>6, <1>7, <1>8, <1>9, <1>10, <1>11 DEF AppNext

LEMMA LinkSteps ==
    ASSUME AccountInv, LinkNext
    PROVE  AccountInv'
<1>1. "link" \in Callers /\ cursor \in HostIds /\ ReqsOK /\ FlowOK /\ role \in RoleDocs \cup {None}
  BY DEF AccountInv, Callers
<1>2. /\ Begins("link") => cursor' \in HostIds /\ ReqsOK'
      /\ Answered("link") => ReqsOK'
      /\ TriesNext("link") /\ req["link"].on => ReqsOK'
  BY <1>1, ReqSteps
<1>3. FlowOK' /\ role' \in RoleDocs \cup {None}
  BY <1>1, FlowSteps DEF LinkNext, AsksGates, GatesListed, LinkHostFails
<1>4. cursor' \in HostIds /\ ReqsOK'
  BY <1>1, <1>2 DEF LinkNext, AsksGates, GatesListed, LinkHostFails
<1> QED BY <1>3, <1>4 DEF AccountInv

LEMMA AccountHolds == AccountSpec => []AccountInv
<1>1. AccountInit => AccountInv
  <2> SUFFICES ASSUME AccountInit PROVE AccountInv
    OBVIOUS
  <2>1. ReqsOK
    <3>1. 0 \in HostIds
      BY DEF HostIds
    <3>2. ReqOK(NoReq) /\ NoReq \in ReqType
      BY <3>1, NewReq DEF ReqOK
    <3> QED BY <3>2 DEF AccountInit, ReqsOK
  <2>2. FlowOK
    BY DEF AccountInit, FlowOK, NoFalseFailure, Stages
  <2> QED BY <2>1, <2>2 DEF AccountInit, AccountInv
<1>2. AccountInv /\ [AccountNext]_accountVars => AccountInv'
  <2>1. AccountInv /\ UNCHANGED accountVars => AccountInv'
    BY DEF AccountInv, accountVars, ReqsOK, FlowOK, NoFalseFailure
  <2> QED BY <2>1, AppSteps, LinkSteps DEF AccountNext
<1> QED BY <1>1, <1>2, PTL DEF AccountSpec

(* Type correctness: no request asks a host that is not configured. *)
THEOREM AccountTypeCorrect == AccountSpec => []AccountTypeOK
<1>1. AccountInv => AccountTypeOK
  BY DEF AccountInv, AccountTypeOK, ReqsOK, ReqType, FlowOK
<1> QED BY <1>1, AccountHolds, PTL

(* A request is given up only when it has asked every host, wherever it      *)
(* started and however requests of the other caller move the cursor.        *)
THEOREM NullMeansAllTriedAlways == AccountSpec => []NullMeansAllTried
<1>1. AccountInv => NullMeansAllTried
  BY DEF AccountInv, NullMeansAllTried, ReqsOK, ReqOK
<1> QED BY <1>1, AccountHolds, PTL

(* Signing in fails only when something was refused or not answered.         *)
THEOREM NoFalseFailureAlways == AccountSpec => []NoFalseFailure
<1>1. AccountInv => NoFalseFailure
  BY DEF AccountInv, FlowOK
<1> QED BY <1>1, AccountHolds, PTL

-----------------------------------------------------------------------------
(* The role that the application gets. *)

LEMMA RoleParsed ==
    ASSUME NEW doc \in RoleDocs
    PROVE  ParseJson(Stringify(doc)) = [i \in DOMAIN doc |-> Exact(doc[i])]
<1>1. doc \in Seq(Range(doc)) /\ \A val \in Range(doc) : IsValue(val)
  BY RolesAssumption
<1>2. PICK n \in Nat : n = Len(doc) /\ DOMAIN doc = 1 .. n
  BY <1>1, LenProperties
<1>3. \A k \in 1 .. n : IsValue(doc[k])
  BY <1>1, <1>2, ElementOfSeq
<1> QED BY <1>2, <1>3, ParsedExactly

(* The application that is ready has what was made of the account's role. *)
Got == flow.at = "ready" => role # None /\ flow.role = ParseJson(Stringify(role))

LEMMA GotSteps ==
    ASSUME AccountInv, Got, AccountNext
    PROVE  Got'
<1>1. flow = [at |-> flow.at, refused |-> flow.refused, runs |-> flow.runs, role |-> flow.role]
  BY DEF AccountInv, FlowOK
<1>2. ASSUME NEW at, NEW refused, Goes(at, refused), at # "ready" PROVE Got'
  <2>1. flow'.at = at
    BY <1>1, <1>2 DEF Goes
  <2> QED BY <1>2, <2>1 DEF Got
<1>3. /\ Fails(TRUE) => Got'
      /\ \A at : Continues(at) /\ at # "ready" => Got'
  BY <1>2 DEF Fails, Continues
<1>4. ASSUME Ready(role'), role' # None PROVE Got'
  <2>1. flow'.role = ParseJson(Stringify(role'))
    BY <1>1, <1>4 DEF Ready
  <2> QED BY <1>4, <2>1 DEF Got
<1>5. CASE SignIn
  BY <1>5 DEF SignIn, Got
<1>6. CASE Refused
  BY <1>3, <1>6 DEF Refused
<1>7. CASE SignedIn
  BY <1>3, <1>7 DEF SignedIn
<1>8. CASE ServersListed
  <2>1. Continues("roles") \/ Fails(TRUE)
    BY <1>8 DEF ServersListed
  <2> QED BY <1>3, <2>1
<1>9. CASE RolesListed
  <2>1. role' = role /\ ((role # None /\ Ready(role)) \/ Continues("create_role"))
    BY <1>9 DEF RolesListed, AsArray
  <2> QED BY <1>3, <1>4, <2>1
<1>10. CASE RoleCreated
  <2>1. (role' \in RoleDocs /\ Ready(role')) \/ Fails(TRUE)
    BY <1>10 DEF RoleCreated
  <2> QED BY <1>3, <1>4, <2>1
<1>11. CASE AppHostFails
  <2>1. CASE LastHost("app")
    BY <1>2, <1>11, <2>1 DEF AppHostFails
  <2>2. CASE ~LastHost("app")
    BY <1>11, <2>2 DEF AppHostFails, Got
  <2> QED BY <2>1, <2>2
<1>12. CASE LinkNext
  <2>1. UNCHANGED <<flow, role>>
    BY <1>12 DEF LinkNext, AsksGates, GatesListed, LinkHostFails
  <2> QED BY <2>1 DEF Got
<1> QED BY <1>5, <1>6, <1>7, <1>8, <1>9, <1>10, <1>11, <1>12 DEF AccountNext, AppNext

(* The application that is ready has the account's own role: every integer   *)
(* exactly, however many digits it has, and every string as it was, whatever *)
(* digits, quotes and backslashes it holds.                                 *)
THEOREM RoleExactAlways == AccountSpec => []RoleExact
<1>1. AccountInit => Got
  BY DEF AccountInit, Got
<1>2. AccountInv /\ Got /\ [AccountNext]_accountVars => Got'
  <2>1. Got /\ UNCHANGED accountVars => Got'
    BY DEF Got, accountVars
  <2> QED BY <2>1, GotSteps
<1>3. AccountInv /\ Got => RoleExact
  <2> SUFFICES ASSUME AccountInv, Got, flow.at = "ready"
               PROVE  role # None /\ flow.role = [i \in DOMAIN role |-> Exact(role[i])]
    BY DEF RoleExact
  <2>1. role \in RoleDocs /\ flow.role = ParseJson(Stringify(role))
    BY DEF AccountInv, Got
  <2> QED BY <2>1, RoleParsed DEF Got
<1> QED BY <1>1, <1>2, <1>3, AccountHolds, PTL DEF AccountSpec
=============================================================================
