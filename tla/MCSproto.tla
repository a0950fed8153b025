------------------------------ MODULE MCSproto ------------------------------
(* Two versions of a schema, and contents around every boundary: inline and   *)
(* 4-byte and 8-byte integers (a byte has four values, so 7, 128 and 32768     *)
(* stand for 2^15, 2^31 and 2^63), arrays that turn long, segments with and    *)
(* without zeros, text, nested structs, missing fields.                        *)
EXTENDS SprotoNested

F(name, tag, type) == [name |-> name, tag |-> tag, type |-> type, st |-> Null, extra |-> Null,
                       array |-> FALSE]
Extra(f, x) == [f EXCEPT !.extra = x]
Arr(f)      == [f EXCEPT !.array = TRUE]
Struct(name, tag, st) == [F(name, tag, Null) EXCEPT !.st = st]
P(name, tag, request, response, confirm) ==
    [name |-> name, tag |-> tag, request |-> request, response |-> response, confirm |-> confirm]

PackageType == <<F("type", 0, TInteger), F("session", 1, TInteger)>>
ItemType == <<F("n", 0, TInteger), F("text", 1, TString)>>
MailType ==
    <<F("n", 0, TInteger), F("ok", 1, TBoolean), F("text", 2, TString), Extra(F("bin", 3, TString), 1),
      Arr(F("ints", 5, TInteger)), Arr(Struct("items", 6, 2)), Struct("item", 7, 2),
      Extra(F("dec", 8, TInteger), 1), Arr(F("texts", 10, TString)), Arr(F("flags", 11, TBoolean))>>
PingType == <<F("n", 1, TInteger)>>

MCProtos == <<P("ping", 1, 4, 4, FALSE), P("mail", 2, 3, 3, FALSE), P("notify", 4, 3, Null, FALSE),
              P("done", 5, Null, Null, TRUE)>>

MCOld == [types |-> <<PackageType, ItemType, MailType, PingType>>, protos |-> MCProtos]

(* Fields are added directly behind the last of a type without gaps (more of    *)
(* an item, ok of a ping), further behind it, in gaps, and behind the last of a   *)
(* type with gaps.                                                               *)
MCNew == [types |-> <<PackageType,
                      ItemType \o <<F("more", 2, TInteger), Struct("item", 4, 2)>>,
                      SubSeq(MailType, 1, 4) \o <<F("more", 4, TInteger)>> \o SubSeq(MailType, 5, 10)
                          \o <<Arr(F("mores", 12, TInteger))>>,
                      PingType \o <<F("ok", 2, TBoolean), F("more", 4, TInteger)>>>>,
          protos |-> MCProtos \o <<P("later", 6, 2, Null, FALSE)>>]

MCSchemas == [old |-> MCOld, new |-> MCNew]

JsInt(n)  == Val(IF Exactly(n) THEN "number" ELSE "bigint", n)
Text(s) == Val("string", s)
List(s) == Val("array", s)
Obj(x)  == Val("object", x)

Edges == {6, 7, 127, 128, 256, SafeMax + 1, 32767, -1, -128, -129, -SafeMax - 1, -32768}

Lists == {<<>>, <<0>>, <<-1>>, <<-128, 127>>}
         \cup {<<a, b, c>> : a \in {1, -1}, b \in {-129, 128}, c \in {-1, 32767}}

(* Binaries of len bytes with every z-th one zero. *)
Bin(len, z) == Val("bytes", [i \in 1 .. len |-> IF i % z = 0 THEN 0 ELSE 1 + (i % (Base - 1))])

MCIntegers == {[n |-> JsInt(n), more |-> JsInt(n)] : n \in Edges}
MCLists    == {[ints |-> List([i \in DOMAIN s |-> JsInt(s[i])]), mores |-> List(<<>>)] : s \in Lists}
MCBins     == {[n |-> JsInt(1), bin |-> Bin(len, z)] : len \in {0, 13, 22, 29, 38}, z \in {2, 8, 99}}
MCTexts    == {[text |-> Text(s), ok |-> Val("boolean", s = <<>>)] : s \in {<<>>, <<"0", "w">>, <<"w", "w", "a">>}}
MCDecs     == {[n |-> JsInt(2), dec |-> Val("decimal", d), ok |-> Val("boolean", TRUE)] : d \in {0, 4, 5, 69, -15, 1280}}
Item(x)    == Obj([n |-> JsInt(x), text |-> Text(<<"w">>), item |-> Obj([text |-> Text(<<"a">>)])])
MCNested   == {[items |-> List(s), item |-> Item(128),
                texts |-> List(<<Text(<<>>), Text(<<"w", "0">>)>>),
                flags |-> List(<<Val("boolean", TRUE), Val("boolean", FALSE)>>)] :
               s \in {<<>>, <<Item(0)>>, <<Obj([n |-> JsInt(-1)]), Item(7)>>,
                      <<Item(1), Obj([more |-> JsInt(-1)])>>}}

(* The client is older than the server, or of the same version. *)
MCCases == [client : {"old"}, server : {"new"}, breaks : {0},
            obj : MCIntegers \cup MCLists \cup MCBins \cup MCTexts \cup MCDecs]
           \cup [client : {"old"}, server : {"old", "new"}, breaks : {1}, obj : MCNested]
=============================================================================
