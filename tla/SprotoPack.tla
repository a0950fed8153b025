----------------------------- MODULE SprotoPack -----------------------------
(***************************************************************************)
(* 0-packing of sproto messages (sdk/ts/src/sproto/sproto.ts): segments of  *)
(* eight bytes, the zeros of which are left out; runs of segments without   *)
(* (many) zeros are copied whole behind 0xff and a count.                   *)
(***************************************************************************)
EXTENDS Integers, FiniteSets, SequencesExt

CONSTANT MaxRun   \* segments of a run: 256 in the code

ASSUME PackAssumption == MaxRun \in 2 .. 256

Byte == 0 .. 255
Seg == 1 .. 8
Zeros(n) == [i \in 1 .. n |-> 0]
Drop(s, n) == SubSeq(s, n + 1, Len(s))

(* The last segment is padded with zeros. *)
Segment(src, k) == [i \in Seg |-> IF 8 * k + i <= Len(src) THEN src[8 * k + i] ELSE 0]
Segments(src) == (Len(src) + 7) \div 8

(* A bit of the header for each byte that is not zero, and those bytes. *)
NonZero(seg) == {i \in Seg : seg[i] # 0}
Weight == <<1, 2, 4, 8, 16, 32, 64, 128>>
Header(seg) ==
    LET bit(i) == IF seg[i] = 0 THEN 0 ELSE Weight[i]
    IN  bit(1) + bit(2) + bit(3) + bit(4) + bit(5) + bit(6) + bit(7) + bit(8)
NonZeros(seg) ==
    LET some[i \in 0 .. 8] == IF i = 0 THEN <<>>
                              ELSE IF seg[i] = 0 THEN some[i - 1] ELSE Append(some[i - 1], seg[i])
    IN  some[8]
PackSeg(seg) == <<Header(seg)>> \o NonZeros(seg)

(* Inside a run two zeros cost less than the end of the run. *)
Verbatim(seg, inRun) ==
    Cardinality(NonZero(seg)) \in IF inRun THEN 6 .. 8 ELSE {8}

WriteFf(run) == IF run = <<>> THEN <<>> ELSE <<255, Len(run) \div 8 - 1>> \o run

(* Mutant: a run that is full is written, and goes on. *)
RunGoesOn(out, run, spill) == [out |-> out \o WriteFf(run), run |-> run, spill |-> spill]

RunFull(out, run, spill) == [out |-> out \o WriteFf(run), run |-> <<>>, spill |-> spill]

(* packSeg also writes the eight bytes of a segment that continues a run, one *)
(* place behind where they belong: "spill" when nothing overwrites the last.  *)
PackStep(p, seg) ==
    LET run == p.run \o seg
        spill == p.run # <<>> /\ Cardinality(NonZero(seg)) = 8
    IN  IF ~Verbatim(seg, p.run # <<>>)
        THEN [out |-> (p.out \o WriteFf(p.run)) \o PackSeg(seg), run |-> <<>>, spill |-> FALSE]
        ELSE IF Len(run) = 8 * MaxRun
             THEN RunFull(p.out, run, spill)
             ELSE [out |-> p.out, run |-> run, spill |-> spill]

(* After so many segments. *)
Packing(src) ==
    LET p[k \in 0 .. Segments(src)] == IF k = 0 THEN [out |-> <<>>, run |-> <<>>, spill |-> FALSE]
                                       ELSE PackStep(p[k - 1], Segment(src, k - 1))
    IN  p

Pack(src) ==
    LET p == Packing(src)[Segments(src)]
    IN  (p.out \o WriteFf(p.run)) \o (IF p.spill THEN <<0>> ELSE <<>>)

-----------------------------------------------------------------------------
(* A segment of the packed message: how many bytes it takes, what it gives.  *)
(* A message cut short gives what there is, and zeros.                        *)

Bit(header, i) == (header \div Weight[i]) % 2
Bits(header, i) == Cardinality({j \in 1 .. i : Bit(header, j) = 1})
ByteAt(s, i) == IF i <= Len(s) THEN s[i] ELSE 0

UnpackSeg(s, at) ==
    [i \in Seg |-> IF Bit(s[at], i) = 1 THEN ByteAt(s, at + Bits(s[at], i)) ELSE 0]

(* What comes next at u.at; a run that is cut short ends the message. *)
UnpackStep(s, u) ==
    LET n == 8 * (ByteAt(s, u.at + 1) + 1)
    IN  IF u.at > Len(s) THEN u
        ELSE IF s[u.at] # 255
             THEN [at |-> u.at + 1 + Bits(s[u.at], 8), out |-> u.out \o UnpackSeg(s, u.at)]
             ELSE IF u.at + 1 + n > Len(s)
                  THEN [at |-> Len(s) + 1, out |-> u.out]
                  ELSE [at |-> u.at + 2 + n, out |-> u.out \o SubSeq(s, u.at + 2, u.at + 1 + n)]

(* After so many steps: there are no more than bytes. *)
Unpacking(s) ==
    LET u[k \in 0 .. Len(s)] == IF k = 0 THEN [at |-> 1, out |-> <<>>] ELSE UnpackStep(s, u[k - 1])
    IN  u

Unpack(s) == Unpacking(s)[Len(s)].out

(* What was packed comes back, with fewer than sixteen zeros behind it. *)
Whole(src, packed) ==
    LET u == Unpack(packed)
    IN  Len(u) < Len(src) + 16 /\ u = src \o Zeros(Len(u) - Len(src))
=============================================================================
