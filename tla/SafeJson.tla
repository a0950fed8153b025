------------------------------ MODULE SafeJson ------------------------------
(***************************************************************************)
(* sdk/ts/src/json.ts: a JSON text is scanned before JSON.parse, and an     *)
(* integer that a JS number cannot hold is put into a marked string, which  *)
(* is made a bigint afterwards.  A text is a sequence of characters; an     *)
(* integer is safe when it has at most SafeDigits digits.  JSON.parse       *)
(* itself, and cjson, which writes the texts, are external.                 *)
(***************************************************************************)
EXTENDS Integers, FiniteSets, SequencesExt

CONSTANTS
    SafeDigits,   \* digits that fit a JS number exactly (2^53 in the code)
    Letters       \* characters that mean nothing to JSON

ASSUME SafeJsonAssumption == SafeDigits \in Nat \ {0}

Digits == {"0", "1", "7"}
Sentinel == "E000"    \* the private-use character that marks a quoted integer
Chars == Digits \cup {"-", "+", ".", "e", ",", "quote", "bslash", Sentinel} \cup Letters

Positions == Nat \ {0}
IsDigit(c) == c \in Digits
CharAt(t, i) == IF i \in DOMAIN t THEN t[i] ELSE "end"

-----------------------------------------------------------------------------
(* Where the inner loops of the scan stop: the index after what they read. *)

(* Mutant: a backslash is a character like any other. *)
StringEndNoEscape(t, i) ==
    LET end[j \in Positions] == IF j > Len(t) THEN Len(t) + 1 ELSE IF t[j] = "quote" THEN j + 1 ELSE end[j + 1]
    IN  end[i]

(* A backslash takes the next character with it. *)
AfterChar(t, i) == IF t[i] = "bslash" THEN i + 2 ELSE i + 1

StringEnd(t, i) ==
    LET end[j \in Positions] == IF j > Len(t) THEN Len(t) + 1
                          ELSE IF t[j] = "quote" THEN j + 1 ELSE end[AfterChar(t, j)]
    IN  end[i]

DigitsEnd(t, i) ==
    CHOOSE j \in i .. Len(t) + 1 :
        ~IsDigit(CharAt(t, j)) /\ \A k \in i .. j - 1 : IsDigit(CharAt(t, k))

IntEnd(t, i) == DigitsEnd(t, IF t[i] = "-" THEN i + 1 ELSE i)
FractionEnd(t, i) == IF CharAt(t, i) = "." THEN DigitsEnd(t, i + 1) ELSE i
ExponentEnd(t, i) ==
    IF CharAt(t, i) # "e" THEN i
    ELSE DigitsEnd(t, IF CharAt(t, i + 1) \in {"+", "-"} THEN i + 2 ELSE i + 1)
NumberEnd(t, i) == ExponentEnd(t, FractionEnd(t, IntEnd(t, i)))

StartsNumber(c) == c = "-" \/ IsDigit(c)
IsFloat(tok) == \E i \in DOMAIN tok : tok[i] \in {".", "e"}
IsSafeInteger(tok) == Cardinality({i \in DOMAIN tok : IsDigit(tok[i])}) <= SafeDigits

Quoted(tok) == <<"quote", Sentinel>> \o tok \o <<Sentinel, "quote">>
QuoteIfUnsafe(tok) == IF ~IsFloat(tok) /\ ~IsSafeInteger(tok) THEN Quoted(tok) ELSE tok

(* The token at i, or the one character. *)
TokenEnd(t, i) ==
    CASE t[i] = "quote"     -> StringEnd(t, i + 1)
      [] StartsNumber(t[i]) -> NumberEnd(t, i)
      [] OTHER              -> i + 1

QuotedToken(t, i) ==
    LET tok == SubSeq(t, i, TokenEnd(t, i) - 1)
    IN  IF StartsNumber(t[i]) THEN QuoteIfUnsafe(tok) ELSE tok

QuoteUnsafeIntegers(t) ==
    LET from[i \in Positions] == IF i > Len(t) THEN <<>> ELSE QuotedToken(t, i) \o from[TokenEnd(t, i)]
    IN  from[1]

-----------------------------------------------------------------------------
(* External: values, how cjson writes them and how JSON.parse reads them *)

Str(s)    == [kind |-> "string", v |-> s]
Number(s) == [kind |-> "number", v |-> s]
BigInt(s) == [kind |-> "bigint", v |-> s]

(* -?digits[.digits][e[+-]digits], where the parts end at b and c *)
DigitsBetween(w, a, b) == a < b /\ b <= Len(w) + 1 /\ \A k \in a .. b - 1 : IsDigit(w[k])
IsNumberText(w) ==
    /\ w \in Seq(Chars) /\ w # <<>>
    /\ \E b, c \in 1 .. Len(w) + 1 :
         /\ DigitsBetween(w, IF w[1] = "-" THEN 2 ELSE 1, b)
         /\ b = c \/ (CharAt(w, b) = "." /\ DigitsBetween(w, b + 1, c))
         /\ \/ c = Len(w) + 1
            \/ CharAt(w, c) = "e" /\ DigitsBetween(w, IF CharAt(w, c + 1) \in {"+", "-"} THEN c + 2 ELSE c + 1, Len(w) + 1)

(* A value that cjson writes.  The sentinel is in none of its strings.       *)
IsValue(val) == \/ val = Str(val.v) /\ val.v \in Seq(Chars \ {Sentinel})
                \/ val = Number(val.v) /\ IsNumberText(val.v)

Escape(c) == IF c \in {"quote", "bslash"} THEN <<"bslash", c>> ELSE <<c>>
Write(val) ==
    IF val.kind # "string" THEN val.v
    ELSE <<"quote">> \o FlattenSeq([i \in DOMAIN val.v |-> Escape(val.v[i])]) \o <<"quote">>
Stringify(vals) == FlattenSeq([i \in DOMAIN vals |-> Write(vals[i]) \o <<",">>])

Unescape(s) ==
    LET from[i \in Positions] == IF i > Len(s) THEN <<>> ELSE <<s[AfterChar(s, i) - 1]>> \o from[AfterChar(s, i)]
    IN  from[1]

(* An integer beyond 2^53 loses its last digit. *)
Rounded(tok) == IF IsFloat(tok) \/ IsSafeInteger(tok) THEN tok ELSE [tok EXCEPT ![Len(tok)] = "0"]

(* The quote that ends a string. *)
LiteralEnd(t, i) ==
    LET end[j \in Positions] == IF j > Len(t) \/ t[j] = "quote" THEN j ELSE end[AfterChar(t, j)]
    IN  end[i]

ValueEnd(t, i) ==
    CASE t[i] = "quote"     -> LiteralEnd(t, i + 1) + 1
      [] StartsNumber(t[i]) -> NumberEnd(t, i)
      [] OTHER              -> i + 1

ValueAt(t, i) ==
    CASE t[i] = "quote"     -> <<Str(Unescape(SubSeq(t, i + 1, ValueEnd(t, i) - 2)))>>
      [] StartsNumber(t[i]) -> <<Number(Rounded(SubSeq(t, i, ValueEnd(t, i) - 1)))>>
      [] OTHER              -> <<>>

Read(t) ==
    LET from[i \in Positions] == IF i > Len(t) THEN <<>> ELSE ValueAt(t, i) \o from[ValueEnd(t, i)]
    IN  from[1]

-----------------------------------------------------------------------------
(* parseJson: the reviver makes a marked string a bigint *)

(* -?\d+ *)
IsIntegerText(w) ==
    \E i \in {1, 2} : (i = 2 => w[1] = "-") /\ i <= Len(w) /\ \A k \in i .. Len(w) : IsDigit(w[k])

Marked(val) == /\ val.kind = "string" /\ Len(val.v) > 2
               /\ val.v[1] = Sentinel /\ val.v[Len(val.v)] = Sentinel
               /\ IsIntegerText(SubSeq(val.v, 2, Len(val.v) - 1))

Revive(val) == IF Marked(val) THEN BigInt(SubSeq(val.v, 2, Len(val.v) - 1)) ELSE val

ParseJson(t) == LET vals == Read(QuoteUnsafeIntegers(t))
                IN  [i \in DOMAIN vals |-> Revive(vals[i])]

(* The value that the client should get of one that the server wrote. *)
Exact(val) == IF val.kind = "number" /\ ~IsFloat(val.v) /\ ~IsSafeInteger(val.v)
              THEN BigInt(val.v) ELSE val
=============================================================================
