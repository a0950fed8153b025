---------------------------- MODULE SprotoNested ----------------------------
(***************************************************************************)
(* The content of packages (sdk/ts/src/codec.ts, bin.ts): text and binaries  *)
(* in objects, lists and objects in them.  It gives EncodeBody and           *)
(* DecodeBody of SprotoRpc, and what must come of them.                      *)
(***************************************************************************)
EXTENDS SprotoRpc

-----------------------------------------------------------------------------
(* Text is UTF-8 in the bytes of a string field; "w" stands for a character   *)
(* of two bytes, and bytes that are no text for the replacement character.    *)

CharBytes(c) == CASE c = "0" -> <<0>> [] c = "a" -> <<1>> [] c = "w" -> <<2, 3>>
TextToBytes(s) == FlattenSeq([i \in DOMAIN s |-> CharBytes(s[i])])

RECURSIVE BytesToText(_)
BytesToText(b) ==
    CASE b = <<>>           -> <<>>
      [] IsPrefix(<<2, 3>>, b) -> <<"w">> \o BytesToText(Drop(b, 2))
      [] b[1] \in {0, 1}    -> <<IF b[1] = 0 THEN "0" ELSE "a">> \o BytesToText(Tail(b))
      [] OTHER              -> <<"FFFD">> \o BytesToText(Tail(b))

(* A Uint8Array becomes a number[], text a string of bytes. *)
RECURSIVE EncodeDeep(_)
EncodeDeep(x) ==
    CASE x.k = "string" -> Val("string", TextToBytes(x.v))
      [] x.k \in {"array", "object"} -> Val(x.k, [i \in DOMAIN x.v |-> EncodeDeep(x.v[i])])
      [] OTHER -> x

RECURSIVE DecodeDeep(_)
DecodeDeep(x) ==
    CASE x.k = "string" -> Val("string", BytesToText(x.v))
      [] x.k \in {"array", "object"} -> Val(x.k, [i \in DOMAIN x.v |-> DecodeDeep(x.v[i])])
      [] OTHER -> x

(* What the codec makes of an object of the application, and the other way.   *)
EncodeArgs(sch, body, obj) == EncodeObject(sch, body, EncodeDeep(Val("object", obj)).v)

DecodeArgs(sch, body, s) ==
    LET r == DecodeObject(sch, body, s)
    IN  IF r.ok THEN Done(DecodeDeep(Val("object", r.val.obj))) ELSE r

-----------------------------------------------------------------------------
(* What is left of the object obj when it is written with type t, and, of     *)
(* that, when it is read with type t: the fields that t has.  A missing array *)
(* is written as an empty one.                                                *)

RECURSIVE View(_, _, _, _)
ViewField(sch, f, x, writes) ==
    LET One(y) == CASE f.type = TStruct -> Val("object", View(sch, sch.type[f.st], y.v, writes))
                    [] f.type = TInteger /\ f.extra > 0 -> Val("decimal", 10 * IntegerOf(f, y))
                    [] OTHER -> y
    IN  IF f.array THEN Val("array", [i \in DOMAIN x.v |-> One(x.v[i])]) ELSE One(x)

View(sch, t, obj, writes) ==
    LET has == {i \in DOMAIN t.f : t.f[i].name \in DOMAIN obj \/ (writes /\ t.f[i].array)}
        At(n) == t.f[CHOOSE i \in has : t.f[i].name = n]
    IN  [n \in {t.f[i].name : i \in has} |->
            IF n \in DOMAIN obj THEN ViewField(sch, At(n), obj[n], writes) ELSE Val("array", <<>>)]

(* When two values are the same: integers are compared by what they are worth. *)
IsInt(x) == x.k \in {"number", "bigint"}

RECURSIVE Same(_, _)
Same(x, y) ==
    CASE IsInt(x) /\ IsInt(y) -> x.v = y.v
      [] ~(IsInt(x) /\ IsInt(y)) /\ x.k # y.k -> FALSE
      [] x.k \in {"array", "object"} /\ x.k = y.k ->
            DOMAIN x.v = DOMAIN y.v /\ \A i \in DOMAIN x.v : Same(x.v[i], y.v[i])
      [] OTHER -> x.v = y.v
-----------------------------------------------------------------------------
(* What a package was meant to bring *)

Writer == IF heard.at = "client" THEN Server ELSE Client
Reader == IF heard.at = "client" THEN Client ELSE Server

BodyAt(sch) ==
    LET p == ProtoByName(sch, heard.name)
    IN  IF p = Null THEN Null ELSE IF heard.kind = "response" THEN p.response ELSE p.request

HasBody == BodyAt(Writer) # Null /\ BodyAt(Reader) # Null
Written == View(Writer, Writer.type[BodyAt(Writer)], env.obj, TRUE)
Meant   == View(Reader, Reader.type[BodyAt(Reader)], Written, FALSE)

(* The values of the field f in what was written: one, or those of an array.   *)
ValuesOf(f, obj) ==
    IF f.name \notin DOMAIN obj THEN {} ELSE IF f.array THEN Range(obj[f.name].v) ELSE {obj[f.name]}

(* In obj, written with type t, there is a field directly behind the last one   *)
(* that the reader has in a type without gaps, or there is in one of its structs. *)
RECURSIVE Appended(_, _, _)
Appended(t, reads, obj) ==
    \E f \in Range(t.f) :
        /\ f.name \in DOMAIN obj
        /\ \/ reads.base >= 0 /\ f.tag = reads.base + reads.n
           \/ \E g \in Range(reads.f) :
                 /\ g.tag = f.tag /\ g.type = TStruct
                 /\ \E x \in ValuesOf(f, obj) : Appended(Writer.type[f.st], Reader.type[g.st], x.v)

AppendedHere == Appended(Writer.type[BodyAt(Writer)], Reader.type[BodyAt(Reader)], Written)

(* What is delivered is what was meant: to the server, to the call that made   *)
(* the request, and to onPush, however often packages are sent again (attach,    *)
(* dispatch, recoverDispatch).  The other end may have an older or a newer        *)
(* schema.  One change of a schema breaks this: when what was written has a field   *)
(* that was appended to a type without gaps, findTag does not find null, and the  *)
(* content is lost, all of it.                                                    *)
RoundTrip == heard.at # Null =>
    \/ ~HasBody /\ heard.got = Undefined
    \/ HasBody /\ heard.got # Undefined /\ Same(Val("object", Meant), heard.got)
    \/ HasBody /\ AppendedHere /\ heard.got = Undefined
=============================================================================
