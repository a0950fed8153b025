----------------------------- MODULE SprotoWire -----------------------------
(***************************************************************************)
(* An object to bytes and back (sprotoEncode, sprotoDecode and their        *)
(* callbacks in sdk/ts/src/sproto/sproto.ts).  sch is a loaded schema, st    *)
(* the number of one of its types.  For an object in an object the callback  *)
(* comes back to its caller, and it does so through two parameters: the code *)
(* has EncodeObject for EncodeStruct and DecodeObject for DecodeStruct.      *)
(***************************************************************************)
EXTENDS Sproto

CONSTANTS EncodeStruct(_, _, _), DecodeStruct(_, _, _)

-----------------------------------------------------------------------------
(* Encoding.  A field is a word and the data it adds; word 0 refers to data. *)

FillSize(data) == Dword(Len(data)) \o data
Data(content)  == [word |-> 0, data |-> FillSize(content)]

(* A decimal is an integer of a tenth of its unit: rounded when written.     *)
IntegerOf(f, x) == IF f.extra > 0 THEN (x.v + 5) \div 10 ELSE x.v

EncodeInteger(n) ==
    LET u == n % Power[4]
    IN  CASE FitsInt32(n) /\ Inline(u)  -> [word |-> 2 * (u + 1), data |-> <<>>]
          [] FitsInt32(n) /\ ~Inline(u) -> Data(Dword(u))
          [] OTHER -> Data(Bytes(n, 8))

(* Mutant: the elements before the first long one are widened without sign.  *)
WidenUnsigned(n) == IF FitsInt32(n) THEN Dword(n) \o Zeros(4) ELSE Bytes(n, 8)

Widen(n) == IF FitsInt32(n) THEN Dword(n) \o [i \in 1 .. 4 |-> IF n < 0 THEN Base - 1 ELSE 0]
                            ELSE Bytes(n, 8)

(* Integers are written in four bytes until one needs eight: then all are.   *)
IntegerArray(ns) ==
    CASE ns = <<>> -> <<>>
      [] \A i \in DOMAIN ns : FitsInt32(ns[i]) -> <<4>> \o FlattenSeq([i \in DOMAIN ns |-> Dword(ns[i])])
      [] OTHER -> <<8>> \o FlattenSeq([i \in DOMAIN ns |-> Widen(ns[i])])

BoolByte(x) == IF x.v THEN 1 ELSE 0

(* The header words of an object and its data, with the tag written last.    *)
AddField(acc, f, w) ==
    LET gap == f.tag - acc.last - 1
        skip == IF gap > 0 THEN <<2 * (gap - 1) + 1>> ELSE <<>>
    IN  [words |-> acc.words \o skip \o <<w.word>>, data |-> acc.data \o w.data, last |-> f.tag]

WordBytes(words) == [i \in 1 .. 2 * Len(words) |-> Word(words[(i + 1) \div 2])[2 - (i % 2)]]

(* Header words have maxn places before the data, closed up at the end; more  *)
(* of them would overwrite the data.                                          *)
Layout(t, acc) ==
    LET over == 2 * (Len(acc.words) - t.maxn)
    IN  Word(Len(acc.words)) \o (WordBytes(acc.words)
            \o (IF over <= 0 THEN acc.data ELSE Drop(acc.data, over)))

(* A string is bytes. *)
Content(sch, f, x) == IF f.type = TStruct THEN EncodeStruct(sch, f.st, x.v) ELSE x.v

EncodeArray(sch, f, xs) ==
    CASE f.type = TInteger -> IntegerArray([i \in DOMAIN xs |-> IntegerOf(f, xs[i])])
      [] f.type = TBoolean -> [i \in DOMAIN xs |-> BoolByte(xs[i])]
      [] OTHER -> FlattenSeq([i \in DOMAIN xs |-> FillSize(Content(sch, f, xs[i]))])

EncodeField(sch, f, x) ==
    CASE f.array           -> Data(EncodeArray(sch, f, x.v))
      [] ~f.array /\ f.type = TInteger -> EncodeInteger(IntegerOf(f, x))
      [] ~f.array /\ f.type = TBoolean -> [word |-> 2 * (BoolByte(x) + 1), data |-> <<>>]
      [] OTHER             -> Data(Content(sch, f, x))

(* A field that the object has not is left out; a missing array is empty.    *)
EncodeStep(sch, acc, f, obj) ==
    CASE f.name \in DOMAIN obj -> AddField(acc, f, EncodeField(sch, f, obj[f.name]))
      [] f.array /\ f.name \notin DOMAIN obj -> AddField(acc, f, Data(<<>>))
      [] OTHER -> acc

EncodeObject(sch, st, obj) ==
    LET t == sch.type[st]
        acc[i \in 0 .. Len(t.f)] == IF i = 0 THEN [words |-> <<>>, data |-> <<>>, last |-> -1]
                                    ELSE EncodeStep(sch, acc[i - 1], t.f[i], obj)
    IN  Layout(t, acc[Len(t.f)])

-----------------------------------------------------------------------------
(* Decoding *)

(* The next piece of the data: its length and so many bytes.                  *)
CutShort(rest) == Len(rest) < 4 \/ Len(rest) < ToDword(rest) + 4
Piece(rest) == SubSeq(rest, 5, ToDword(rest) + 4)
After(rest) == Drop(rest, ToDword(rest) + 4)

(* The pieces of an array of strings or structs; a piece that is cut short    *)
(* ends them with Failed.                                                     *)
NextChunk(x) ==
    CASE x.rest = <<>> -> x
      [] x.rest # <<>> /\ CutShort(x.rest)  -> [out |-> Append(x.out, Failed), rest |-> <<>>]
      [] x.rest # <<>> /\ ~CutShort(x.rest) ->
            [out |-> Append(x.out, Done(Piece(x.rest))), rest |-> After(x.rest)]

Chunks(s) ==
    LET x[k \in 0 .. Len(s)] == IF k = 0 THEN [out |-> <<>>, rest |-> s] ELSE NextChunk(x[k - 1])
    IN  x[Len(s)].out

FirstFailure(rs) == SelectInSeq(rs, LAMBDA r : ~r.ok)
Vals(rs) == Val("array", [i \in DOMAIN rs |-> rs[i].val])

(* The first element that is not decoded decides.                             *)
Collect(rs) == IF \A i \in DOMAIN rs : rs[i].ok THEN Done(Vals(rs)) ELSE rs[FirstFailure(rs)]

Chunk(s, i, len) == SubSeq(s, (i - 1) * len + 1, i * len)
Pieces(s, len)   == [i \in 1 .. Len(s) \div len |-> Chunk(s, i, len)]

IntegerIn(f, x) == IF f.extra > 0 THEN Val("decimal", 10 * x.v) ELSE x

DecodeInteger(f, s) ==
    CASE Len(s) = 4 -> Done(IntegerIn(f, Expand64(s)))
      [] Len(s) = 8 -> Done(IntegerIn(f, Int64(s)))
      [] OTHER      -> Failed

(* A struct must fill its place. *)
StructIn(r, len) == IF ~r.ok THEN r
                    ELSE IF r.val.used # len THEN Failed ELSE Done(Val("object", r.val.obj))

ContentIn(sch, f, b) ==
    IF f.type = TString THEN Done(Val(IF f.extra # 0 THEN "bytes" ELSE "string", b))
    ELSE StructIn(DecodeStruct(sch, f.st, b), Len(b))

DecodeChunk(sch, f, c) == IF c.ok THEN ContentIn(sch, f, c.val) ELSE c

(* Nothing is wrong, but there is no value. *)
Unset == [ok |-> TRUE, throws |-> FALSE]

(* Each in as many bytes as the first byte says; with nothing behind that byte *)
(* the field is not set.                                                      *)
IntegersOf(f, len, s) ==
    IF len \notin {4, 8} \/ Len(s) % len # 0 THEN Failed
    ELSE IF s = <<>> THEN Unset
    ELSE Collect([i \in DOMAIN Pieces(s, len) |-> DecodeInteger(f, Pieces(s, len)[i])])

BooleanIn(v) == IF v \in {0, 1} THEN Val("boolean", v = 1) ELSE Val("null", Null)

ContentsOf(sch, f, cs) == Collect([i \in DOMAIN cs |-> DecodeChunk(sch, f, cs[i])])

DecodeArray(sch, f, s) ==
    IF s = <<>> THEN Done(Val("array", <<>>))
    ELSE CASE f.type = TInteger -> IntegersOf(f, s[1], Tail(s))
           [] f.type = TBoolean -> Done(Val("array", [i \in DOMAIN s |-> BooleanIn(s[i])]))
           [] OTHER -> ContentsOf(sch, f, Chunks(s))

DecodeData(sch, f, s) ==
    CASE f.array -> DecodeArray(sch, f, s)
      [] ~f.array /\ f.type = TInteger -> DecodeInteger(f, s)
      [] ~f.array /\ f.type \in {TString, TStruct} -> ContentIn(sch, f, s)
      [] OTHER -> Failed

DecodeInline(f, v) ==
    CASE ~f.array /\ f.type = TInteger -> Done(IntegerIn(f, ToNumber(v)))
      [] ~f.array /\ f.type = TBoolean -> Done(BooleanIn(v))
      [] OTHER -> Failed

ValueOf(sch, f, w, rest) ==
    IF w = 0 THEN DecodeData(sch, f, Piece(rest)) ELSE DecodeInline(f, NumberOf(w))

Passes(acc, w) == [acc EXCEPT !.tag = @ + 1, !.rest = IF w = 0 THEN After(@) ELSE @]

Puts(acc, f, r) ==
    CASE r = Unset         -> acc
      [] r # Unset /\ r.ok -> [acc EXCEPT !.obj = Put(@, f.name, r.val)]
      [] OTHER             -> [acc EXCEPT !.is = r]

TakesValue(sch, acc, w, f) ==
    CASE f = Null      -> Passes(acc, w)
      [] f = Undefined -> [acc EXCEPT !.is = Throws]
      [] OTHER         -> Puts(Passes(acc, w), f, ValueOf(sch, f, w, acc.rest))

(* One header word: a gap or a value.                                         *)
DecodeStep(sch, st, acc, w) ==
    IF ~acc.is.ok THEN acc
    ELSE IF w % 2 = 1 THEN [acc EXCEPT !.tag = @ + 1 + w \div 2]
    ELSE IF w = 0 /\ CutShort(acc.rest) THEN [acc EXCEPT !.is = Failed]
    ELSE TakesValue(sch, acc, w, FindTag(sch.type[st], acc.tag + 1))

FieldCount(s) == ToWord(s)
HeaderWords(s) == [i \in 1 .. FieldCount(s) |-> ToWord(Chunk(s, i + 1, 2))]
NotBegun(s) == [is |-> Done(<<>>), tag |-> -1, rest |-> Drop(s, 2 + 2 * FieldCount(s)),
                obj |-> [x \in {} |-> Null]]

Result(s, end) ==
    IF end.is.ok THEN Done([obj |-> end.obj, used |-> Len(s) - Len(end.rest)]) ELSE end.is

DecodeObject(sch, st, s) ==
    LET acc[i \in 0 .. FieldCount(s)] == IF i = 0 THEN NotBegun(s)
                                          ELSE DecodeStep(sch, st, acc[i - 1], HeaderWords(s)[i])
    IN  IF Len(s) < 2 \/ Len(s) < 2 + 2 * FieldCount(s) THEN Failed
        ELSE Result(s, acc[FieldCount(s)])
=============================================================================
