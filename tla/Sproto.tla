------------------------------- MODULE Sproto -------------------------------
(***************************************************************************)
(* sdk/ts/src/sproto/sproto.ts: the schema that a client loads, and objects *)
(* written to bytes and read back by it.  A byte has Base values, so that a *)
(* word, an int32 and an int64 are Base^2, Base^4 and Base^8 and every       *)
(* boundary of the code is there at a small size; a JS number is exact up    *)
(* to SafeMax.  Doubles are left out.  A loop is a recursive function of     *)
(* how often it has gone round.                                              *)
(*                                                                           *)
(* A JS value is [k, v]: its kind and its content.  An object's content is a *)
(* function of the names of the fields it has.                               *)
(***************************************************************************)
EXTENDS SprotoPack

CONSTANTS Base, SafeMax, Null, Undefined

Powers(b, n) == LET p[i \in 0 .. n] == IF i = 0 THEN 1 ELSE b * p[i - 1] IN p
CalcPow(b, n) == Powers(b, n)[n]
Power == Powers(Base, 8)

(* Of the code: 256 values, and 2^53 - 1.                                     *)
ASSUME SprotoAssumption ==
    /\ Base \in 3 .. 256 /\ Base % 2 = 0
    /\ SafeMax \in Nat /\ SafeMax > Power[4] /\ 2 * SafeMax < Power[8]

TInteger == 0
TBoolean == 1
TString  == 2
TStruct  == 4   \* 3 is a double

Val(kind, content) == [k |-> kind, v |-> content]
Put(x, name, v) == [n \in DOMAIN x \cup {name} |-> IF n = name THEN v ELSE x[n]]
Failed == [ok |-> FALSE, throws |-> FALSE]
Throws == [ok |-> FALSE, throws |-> TRUE]
Done(x) == [ok |-> TRUE, throws |-> FALSE, val |-> x]

-----------------------------------------------------------------------------
(* Numbers *)

Bytes(n, len) == [i \in 1 .. len |-> (n \div Power[i - 1]) % Base]  \* two's complement
Word(n)  == Bytes(n, 2)
Dword(n) == Bytes(n, 4)
Unsigned(s, len) ==
    LET u[i \in 0 .. len] == IF i = 0 THEN 0 ELSE u[i - 1] + s[i] * Power[i - 1] IN u[len]
ToWord(s)  == Unsigned(s, 2)
ToDword(s) == Unsigned(s, 4)
Signed(u, len) == IF 2 * u < Power[len] THEN u ELSE u - Power[len]

Exactly(n) == -SafeMax <= n /\ n <= SafeMax
ToNumber(n) == Val("number", IF Exactly(n) THEN n ELSE n - (n % 2))
ToBigInt(n) == Val("bigint", n)

Expand64(s) == ToNumber(Signed(ToDword(s), 4))

(* Every negative integer of eight bytes is a bigint, and the large ones.    *)
NumberOrBigInt(n) == IF n < 0 \/ n > SafeMax THEN ToBigInt(n) ELSE ToNumber(n)

Int64(s) == NumberOrBigInt(Signed(Unsigned(s, 8), 8))

FitsInt32(n) == -Power[4] <= 2 * n /\ 2 * n < Power[4]
Inline(u) == u < Power[2] \div 2 - 1

-----------------------------------------------------------------------------
(* Loading a schema: the words of a field, a type and a protocol.  An odd    *)
(* word skips tags, an even one is a number plus one, 0 stands for data.     *)

NumberOf(w) == w \div 2 - 1
NewField == [tag |-> -1, type |-> -1, name |-> Null, st |-> Null, key |-> -1, extra |-> 0,
             array |-> FALSE]

FieldWord(f, tag, v, typeN) ==
    CASE tag = 1 /\ v < TStruct -> Done([f EXCEPT !.type = v])
      [] tag = 2 /\ f.type = TInteger -> Done([f EXCEPT !.extra = CalcPow(10, v)])
      [] tag = 2 /\ f.type = TString  -> Done([f EXCEPT !.extra = v])
      [] tag = 2 /\ f.type < 0 /\ v < typeN -> Done([f EXCEPT !.type = TStruct, !.st = v + 1])
      [] tag = 3 -> Done([f EXCEPT !.tag = v])
      [] tag = 4 -> Done([f EXCEPT !.array = @ \/ v # 0])
      [] tag = 5 -> Done([f EXCEPT !.key = v])
      [] OTHER   -> Failed

FieldStep(acc, name, w, typeN) ==
    LET tag == acc.tag + 1
        r == FieldWord(acc.f, tag, NumberOf(w), typeN)
    IN  IF ~acc.ok \/ (w % 2 = 0 /\ (tag = 0 <=> w # 0)) THEN [acc EXCEPT !.ok = FALSE]
        ELSE CASE w % 2 = 1 -> [ok |-> TRUE, tag |-> tag + w \div 2, f |-> acc.f]
               [] w = 0     -> [ok |-> TRUE, tag |-> 0, f |-> [acc.f EXCEPT !.name = name]]
               [] OTHER     -> [ok |-> r.ok, tag |-> tag, f |-> IF r.ok THEN r.val ELSE acc.f]

ImportField(raw, typeN) ==
    LET acc[i \in 0 .. Len(raw.words)] ==
            IF i = 0 THEN [ok |-> TRUE, tag |-> -1, f |-> NewField]
                     ELSE FieldStep(acc[i - 1], raw.name, raw.words[i], typeN)
        end == acc[Len(raw.words)]
    IN  IF end.ok /\ end.f.tag >= 0 /\ end.f.type >= 0 /\ end.f.name # Null
        THEN Done(end.f) ELSE Failed

(* Mutant: no header word is kept for a gap between two tags. *)
MaxWordsNoGaps(f) == Len(f)

(* Header words that an object needs: one for each field and for each gap.   *)
MaxWords(f) ==
    Len(f) + Cardinality({i \in DOMAIN f : f[i].tag > 1 + IF i = 1 THEN -1 ELSE f[i - 1].tag})

(* The first tag when the tags have no gap: fields are found by index then.  *)
BaseTag(f) == CASE f = <<>> -> 0
                [] f # <<>> /\ Last(f).tag - f[1].tag + 1 = Len(f) -> f[1].tag
                [] OTHER -> -1

ImportType(raw, typeN) ==
    LET fs == [i \in DOMAIN raw |-> ImportField(raw[i], typeN)]
        f  == [i \in DOMAIN raw |-> fs[i].val]
    IN  IF /\ \A i \in DOMAIN fs : fs[i].ok
           /\ \A i \in 2 .. Len(fs) : f[i].tag > f[i - 1].tag
        THEN Done([n |-> Len(f), base |-> BaseTag(f), maxn |-> MaxWords(f), f |-> f])
        ELSE Failed

(* The position of a word decides what it is, skipped ones included; the      *)
(* response's type may be one too large.                                      *)
ProtocolWord(p, i, v, typeN) ==
    CASE i = 1 /\ v = -1 -> Done(p)
      [] i = 2 /\ v >= 0 -> Done([p EXCEPT !.tag = v])
      [] i = 3 /\ v \in 0 .. typeN - 1 -> Done([p EXCEPT !.request = v + 1])
      [] i = 4 /\ v \in 0 .. typeN -> Done([p EXCEPT !.response = IF v < typeN THEN v + 1 ELSE Null])
      [] i = 5 -> Done([p EXCEPT !.confirm = v])
      [] OTHER -> Failed

NewProtocol(name) == [name |-> name, tag |-> -1, request |-> Null, response |-> Null, confirm |-> 0]

ProtocolStep(acc, i, w, typeN) ==
    IF ~acc.ok \/ w % 2 = 1 THEN acc ELSE ProtocolWord(acc.val, i, NumberOf(w), typeN)

(* The first word stands for the name. *)
HasNameAndTag(raw, end) ==
    IF raw.words # <<>> /\ raw.words[1] = 0 /\ end.ok /\ end.val.tag >= 0 THEN end ELSE Failed

ImportProtocol(raw, typeN) ==
    LET acc[i \in 0 .. Len(raw.words)] ==
            IF i = 0 THEN Done(NewProtocol(raw.name))
                     ELSE ProtocolStep(acc[i - 1], i, raw.words[i], typeN)
    IN  HasNameAndTag(raw, acc[Len(raw.words)])

(* What is loaded; null and undefined are no part of it.                      *)
Field == [tag : Int, type : Int, name : STRING, st : Int \cup {Null}, key : Int, extra : Int, array : BOOLEAN]
Type  == [n : Int, base : Int, maxn : Int, f : Seq(Field)]
Protocol == [name : STRING, tag : Int, request : Int \cup {Null}, response : Int \cup {Null}, confirm : Int]
Loaded == [type : Seq(Type), proto : Seq(Protocol)]

ASSUME NullAssumption == \A none \in {Null, Undefined} :
    none \notin Int /\ none \notin STRING /\ none \notin Field /\ none \notin Protocol /\ none \notin Loaded

(* createFromBundle: all of it, or nothing *)
CreateNew(raw) ==
    LET n == Len(raw.types)
        types  == [i \in DOMAIN raw.types |-> ImportType(raw.types[i], n)]
        protos == [i \in DOMAIN raw.protos |-> ImportProtocol(raw.protos[i], n)]
    IN  IF \A r \in Range(types) \cup Range(protos) : r.ok
        THEN [type |-> [i \in DOMAIN types |-> types[i].val],
              proto |-> [i \in DOMAIN protos |-> protos[i].val]]
        ELSE Null

(* External, sprotoparser: what it takes for a schema.  A field of a struct    *)
(* has the number of its type in st.                                          *)
FieldDef(n) ==
    [name : STRING, tag : Nat, type : {TInteger, TString}, st : {Null}, extra : {Null} \cup Nat, array : BOOLEAN]
    \cup [name : STRING, tag : Nat, type : {TBoolean}, st : {Null}, extra : {Null}, array : BOOLEAN]
    \cup [name : STRING, tag : Nat, type : {Null}, st : 1 .. n, extra : {Null}, array : BOOLEAN]
ProtoDef(n) ==
    [name : STRING, tag : Nat, request : {Null} \cup (1 .. n), response : {Null} \cup (1 .. n), confirm : BOOLEAN]
Sorted(s) == \A i, j \in DOMAIN s : i < j => s[i].tag < s[j].tag
IsSchema(d) ==
    /\ d.types \in Seq(Seq(FieldDef(Len(d.types)))) /\ d.protos \in Seq(ProtoDef(Len(d.types)))
    /\ Sorted(d.protos) /\ \A i \in DOMAIN d.types : Sorted(d.types[i])
    /\ \A i, j \in DOMAIN d.protos : d.protos[i].name = d.protos[j].name => i = j

(* External, sprotoparser: what it writes for a field and for a protocol.    *)
EvenWord(v) == 2 * (v + 1)
PackField(d) ==
    [name |-> d.name,
     words |-> <<0>>
        \o (IF d.st = Null THEN <<EvenWord(d.type), IF d.extra = Null THEN 1 ELSE EvenWord(d.extra)>>
                           ELSE <<1, EvenWord(d.st - 1)>>)
        \o <<EvenWord(d.tag)>>
        \o (IF d.array THEN <<EvenWord(1)>> ELSE <<>>)]
PackProtocol(d) ==
    [name |-> d.name,
     words |-> <<0, EvenWord(d.tag)>>
        \o (IF d.request = Null THEN <<1>> ELSE <<EvenWord(d.request - 1)>>)
        \o (IF d.response # Null THEN <<EvenWord(d.response - 1)>>
            ELSE IF d.confirm THEN <<1, EvenWord(1)>> ELSE <<>>)]
Bundle(d) == [types  |-> [i \in DOMAIN d.types |-> [j \in DOMAIN d.types[i] |-> PackField(d.types[i][j])]],
              protos |-> [i \in DOMAIN d.protos |-> PackProtocol(d.protos[i])]]

-----------------------------------------------------------------------------
(* Looking things up *)

(* The halving search over a sequence with increasing tags: an index, or 0.  *)
(* It has come to an end when it has gone round as often as there are tags.   *)
BisectStep(s, tag, x) ==
    LET mid == (x.begin + x.end) \div 2
    IN  CASE x.at # 0 \/ x.begin >= x.end -> x
          [] x.at = 0 /\ x.begin < x.end /\ s[mid + 1].tag = tag -> [x EXCEPT !.at = mid + 1]
          [] x.at = 0 /\ x.begin < x.end /\ s[mid + 1].tag < tag -> [x EXCEPT !.begin = mid + 1]
          [] x.at = 0 /\ x.begin < x.end /\ s[mid + 1].tag > tag -> [x EXCEPT !.end = mid]

Bisect(s, tag) ==
    LET x[k \in 0 .. Len(s)] == IF k = 0 THEN [begin |-> 0, end |-> Len(s), at |-> 0]
                                 ELSE BisectStep(s, tag, x[k - 1])
    IN  x[Len(s)].at

(* One tag past the last of a type without gaps finds undefined, not null.    *)
FieldAt(t, i) ==
    CASE i < 1 \/ i > t.n + 1 -> Null
      [] i = t.n + 1          -> Undefined
      [] OTHER                -> t.f[i]

FindTag(t, tag) == FieldAt(t, IF t.base >= 0 THEN tag - t.base + 1 ELSE Bisect(t.f, tag))

QueryProto(sp, tag) ==
    LET i == Bisect(sp.proto, tag) IN IF i = 0 THEN Null ELSE sp.proto[i]

ProtoByName(sp, name) ==
    LET i == SelectInSeq(sp.proto, LAMBDA p : p.name = name) IN IF i = 0 THEN Null ELSE sp.proto[i]
=============================================================================
