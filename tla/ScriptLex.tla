----------------------------- MODULE ScriptLex -----------------------------
(***************************************************************************)
(* The lexer of expressions: from a text to the tokens ScriptExpr parses.  *)
(* It finds the end of a string by itself; the scanners that found the     *)
(* statement (ScriptText) had an idea of their own where the string ends.  *)
(*                                                                         *)
(* A text is a sequence of characters, where a word counts as one, and so  *)
(* do the four digits of a \u escape.  A character of a string's value is  *)
(* <<c>>, or <<"code", n>> if it was written by its code.  A key of a      *)
(* reference is one character.  A number is its value, however written.    *)
(***************************************************************************)
EXTENDS ScriptExpr, ScriptText

CONSTANTS
    HexValue     \* what four hexadecimal digits stand for

Word == {"true", "false", "null", "contains", "e", "u", "x", "k"}
NameChars == Word \cup DOMAIN Digits \cup {"_"}
Punctuation == {"(", ")", "{", "}", "[", "]", ",", ":"}

\* The longest head of s made of characters of C.
HeadIn(s, C) ==
    LET ends == {i \in DOMAIN s : s[i] \notin C}
    IN  IF ends = {} THEN s ELSE SubSeq(s, 1, (CHOOSE i \in ends : \A j \in ends : i <= j) - 1)

\* What a scanner found at the head of a text, and how much of the text it is.
NoToken == [token |-> <<"end">>, size |-> 0]
Found(token, size) == [token |-> token, size |-> size]

-----------------------------------------------------------------------------
(* Strings                                                                 *)

Text(s) == <<"text", s>>
LiteralString(s, size) == Found(<<"string", <<Text(s)>>>>, size)

RECURSIVE Segments(_), SingleQuoted(_, _, _), TripleQuoted(_, _, _), DoubleQuoted(_, _, _, _)

\* A name split at its dots.
Segments(name) ==
    LET key == HeadIn(name, NameChars)
        segment == IF key = <<>> THEN "" ELSE Head(key)
    IN  IF Len(key) = Len(name) THEN <<segment>>
        ELSE <<segment>> \o Segments(From(name, Len(key) + 2))

\* After the quote: only the quote can be escaped.
SingleQuoted(s, i, value) ==
    CASE i > Len(s) -> NoToken
      [] i <= Len(s) /\ s[i] = "\\" /\ CharAt(s, i + 1) = "'" ->
           SingleQuoted(s, i + 2, Append(value, <<"'">>))
      [] i <= Len(s) /\ s[i] = "'" -> LiteralString(value, i)
      [] OTHER -> SingleQuoted(s, i + 1, Append(value, <<s[i]>>))

TripleQuoted(s, i, value) ==
    IF i > Len(s) THEN NoToken
    ELSE IF IsTriple(From(s, i)) THEN LiteralString(value, i + 2)
    ELSE TripleQuoted(s, i + 1, Append(value, <<s[i]>>))

\* lex_json_escape: what the escape after a backslash stands for, and its size.
\* The second half of a surrogate pair is taken for one whatever it is.
Escapes == ("\"" :> <<<<"\"">>>>) @@ ("\\" :> <<<<"\\">>>>) @@ ("/" :> <<<<"/">>>>)
             @@ ("n" :> <<<<NewLine>>>>) @@ ("t" :> <<<<"tab">>>>) @@ ("r" :> <<<<"return">>>>)
             @@ ("b" :> <<<<"backspace">>>>) @@ ("f" :> <<<<"feed">>>>)

IsHigh(code) == code \in 55296..56319
IsSurrogate(code) == code \in 55296..57343

Hex4(s) == IF CharAt(s, 1) \in DOMAIN HexValue THEN HexValue[s[1]] ELSE -1
UnicodeEscape(s) ==
    LET code == Hex4(s)
        low == Hex4(From(s, 4))
        pair == 65536 + ((code - 55296) * 1024) + ((low - 56320) % 1024)
    IN  IF code = -1 THEN NoToken
        ELSE IF ~IsHigh(code)
        THEN IF IsSurrogate(code) THEN NoToken ELSE Found(<<<<"code", code>>>>, 2)
        ELSE IF CharAt(s, 2) = "\\" /\ CharAt(s, 3) = "u" /\ low # -1
        THEN Found(<<<<"code", pair>>>>, 5) ELSE NoToken

JsonEscape(s) ==
    CASE s = <<>> -> Found(<<<<"\\">>>>, 0)
      [] s # <<>> /\ Head(s) \in DOMAIN Escapes -> Found(Escapes[Head(s)], 1)
      [] s # <<>> /\ Head(s) = "u" -> UnicodeEscape(Tail(s))
      [] OTHER -> Found(<<<<"\\">>, <<Head(s)>>>>, 1)

\* lex_braced_ref: s begins after the dollar sign.
BracedRef(s) ==
    LET name == HeadIn(Tail(s), NameChars \cup {"."})
    IN  IF \/ name = <<>> \/ CharAt(s, Len(name) + 2) # "}"
           \/ Head(name) = "." \/ Last(name) = "."
        THEN NoToken
        ELSE Found(<<"ref", Segments(name)>>, Len(name) + 2)

\* After the quote: JSON escapes, an escaped dollar sign, and references.
DoubleQuoted(s, i, parts, value) ==
    LET filled == IF value = <<>> THEN parts ELSE Append(parts, Text(value))
        closed == IF filled = <<>> THEN <<Text(<<>>)>> ELSE filled
        c == s[i]
        escape == JsonEscape(From(s, i + 1))
        ref == BracedRef(From(s, i + 1))
    IN  CASE i > Len(s) -> NoToken
          [] i <= Len(s) /\ c = "\\" ->
               IF CharAt(s, i + 1) = "$" THEN DoubleQuoted(s, i + 2, parts, Append(value, <<"$">>))
               ELSE IF escape = NoToken THEN NoToken
               ELSE DoubleQuoted(s, i + 1 + escape.size, parts, value \o escape.token)
          [] i <= Len(s) /\ c = "$" /\ CharAt(s, i + 1) = "{" /\ ref # NoToken ->
               DoubleQuoted(s, i + 1 + ref.size, Append(filled, ref.token), <<>>)
          [] i <= Len(s) /\ c = "\"" -> Found(<<"string", closed>>, i)
          [] OTHER -> DoubleQuoted(s, i + 1, parts, Append(value, <<c>>))

-----------------------------------------------------------------------------
(* Numbers                                                                 *)

RECURSIVE NumberEnd(_, _, _)

\* Where the digits, dots and one exponent that begin before i end.
NumberEnd(s, i, exponent) ==
    LET c == CharAt(s, i)
    IN  CASE c \in DOMAIN Digits \cup {"."} -> NumberEnd(s, i + 1, exponent)
          [] c = "e" /\ ~exponent ->
               NumberEnd(s, IF CharAt(s, i + 1) \in {"+", "-"} THEN i + 2 ELSE i + 1, TRUE)
          [] OTHER -> i

Decimal(digits) == FoldLeft(LAMBDA n, d : 10 * n + Digits[d], 0, digits)

\* The value of a text the standard library takes for a number, as an integer
\* or as <<"frac", n, k>> for n / 10^k.
Number(text) ==
    LET negative == Head(text) = "-"
        body == IF negative THEN Tail(text) ELSE text
        mantissa == HeadIn(body, DOMAIN Digits \cup {"."})
        rest == From(body, Len(mantissa) + 1)
        whole == HeadIn(mantissa, DOMAIN Digits)
        fraction == From(mantissa, Len(whole) + 2)
        signed == Len(rest) > 1 /\ rest[2] \in {"+", "-"}
        power == From(rest, IF signed THEN 3 ELSE 2)
        n == (IF negative THEN -1 ELSE 1) * Decimal(whole \o fraction)
        k == (IF signed /\ rest[2] = "-" THEN -1 ELSE 1) * Decimal(power) - Len(fraction)
    IN  IF \/ ~(Range(fraction) \cup Range(power) \subseteq DOMAIN Digits)
           \/ rest # <<>> /\ power = <<>>
        THEN NoToken
        ELSE IF k >= 0 THEN Found(<<"lit", ScrNum(n * 10 ^ k)>>, Len(text))
        ELSE IF n % 10 ^ (-k) = 0 THEN Found(<<"lit", ScrNum(n \div 10 ^ (-k))>>, Len(text))
        ELSE Found(<<"lit", <<"frac", n, -k>>>>, Len(text))

-----------------------------------------------------------------------------
(* Tokens                                                                  *)

Keywords == ("true" :> <<"lit", ScrBool(TRUE)>>) @@ ("false" :> <<"lit", ScrBool(FALSE)>>)
              @@ ("null" :> <<"lit", ScrNull>>) @@ ("contains" :> <<"op", "contains">>)

\* Signs that mean something only when doubled, and those that may be followed
\* by an equals sign.
Doubled == ("&" :> <<"&&">>) @@ ("|" :> <<"||">>) @@ ("=" :> <<"op", "==">>)
Alone == ("!" :> <<"!">>) @@ ("<" :> <<"op", "<">>) @@ (">" :> <<"op", ">">>)
WithEquals == ("!" :> <<"op", "!=">>) @@ ("<" :> <<"op", "<=">>) @@ (">" :> <<"op", ">=">>)

\* The token at the head of a text that begins with no blank.
NextToken(s) ==
    LET c == Head(s)
        name == HeadIn(Tail(s), NameChars \cup {"."})
        word == HeadIn(s, NameChars)
    IN  CASE c \in Punctuation -> Found(<<c>>, 1)
          [] c \in DOMAIN Doubled ->
               IF CharAt(s, 2) = c THEN Found(Doubled[c], 2) ELSE NoToken
          [] c \in DOMAIN Alone ->
               IF CharAt(s, 2) = "=" THEN Found(WithEquals[c], 2) ELSE Found(Alone[c], 1)
          [] c = "'" -> IF IsTriple(s) THEN TripleQuoted(s, 4, <<>>) ELSE SingleQuoted(s, 2, <<>>)
          [] c = "\"" -> DoubleQuoted(s, 2, <<>>, <<>>)
          [] c = "$" -> IF name = <<>> THEN NoToken
                        ELSE Found(<<"var", Segments(name)>>, Len(name) + 1)
          [] c \in DOMAIN Digits \/ (c = "-" /\ CharAt(s, 2) \in DOMAIN Digits) ->
               Number(SubSeq(s, 1, NumberEnd(s, 2, FALSE) - 1))
          [] c \in Word \cup {"_"} ->
               IF word = <<c>> /\ c \in DOMAIN Keywords THEN Found(Keywords[c], 1) ELSE NoToken
          [] OTHER -> NoToken

NoTokens == <<NoToken.token>>

RECURSIVE Lex(_)
Lex(text) ==
    LET s == TrimStart(text)
        first == NextToken(s)
        rest == Lex(From(s, first.size + 1))
    IN  CASE s = <<>> -> <<>>
          [] s # <<>> /\ first = NoToken -> NoTokens
          [] OTHER -> IF rest = NoTokens THEN NoTokens ELSE <<first.token>> \o rest

\* parse_expr from its text
ParseText(text) == IF Lex(text) \in {<<>>, NoTokens} THEN NoTree ELSE ParseExpr(Lex(text))

-----------------------------------------------------------------------------
(* The reference: the ways to write a token                                *)

Hex(n) == CHOOSE h \in DOMAIN HexValue : HexValue[h] = n

\* A character between double quotes.
Escaped(char) ==
    CASE char[1] \in {"\"", "\\", "$"} -> <<"\\", char[1]>>
      [] char[1] = NewLine -> <<"\\", "n">>
      [] char[1] = "code" ->
           IF char[2] < 65536 THEN <<"\\", "u", Hex(char[2])>>
           ELSE <<"\\", "u", Hex(55296 + ((char[2] - 65536) \div 1024)),
                  "\\", "u", Hex(56320 + (char[2] % 1024))>>
      [] OTHER -> char

Dotted(ref) == [i \in 1..2 * Len(ref) - 1 |-> IF i % 2 = 1 THEN ref[(i + 1) \div 2] ELSE "."]

PartText(part) ==
    IF Tag(part) = "text" THEN FlattenSeq([i \in DOMAIN part[2] |-> Escaped(part[2][i])])
    ELSE <<"$", "{">> \o Dotted(part[2]) \o <<"}">>

\* Single quotes cannot hold a text that ends in a backslash, triple quotes
\* none that has three quotes or ends in one, neither a character by its code.
QuotedTexts(text) ==
    LET plain == [i \in DOMAIN text |-> text[i][1]]
        single == FlattenSeq([i \in DOMAIN text |->
                    IF plain[i] = "'" THEN <<"\\", "'">> ELSE <<plain[i]>>])
        last == IF text = <<>> THEN "" ELSE Last(plain)
    IN  IF "code" \in Range(plain) THEN {}
        ELSE {<<"'">> \o single \o <<"'">> : i \in IF last = "\\" THEN {} ELSE {1}}
               \cup {<<"'", "'", "'">> \o plain \o <<"'", "'", "'">> : i \in
                       IF last = "'" \/ \E j \in DOMAIN plain : IsTriple(From(plain, j))
                       THEN {} ELSE {1}}

Spellings(tok) ==
    CASE Tag(tok) = "string" ->
           {<<"\"">> \o FlattenSeq([i \in DOMAIN tok[2] |-> PartText(tok[2][i])]) \o <<"\"">>}
             \cup (IF Len(tok[2]) = 1 /\ Tag(tok[2][1]) = "text" THEN QuotedTexts(tok[2][1][2]) ELSE {})
      [] Tag(tok) = "var" -> {<<"$">> \o Dotted(tok[2])}
      [] OTHER -> {}

\* The tokens of a text written in one of these ways are the ones meant, and
\* the scanners that split a script leave the text whole.
LexLaw(written) ==
    LET tokens == [i \in DOMAIN written |-> written[i][1]]
        text == Between([i \in DOMAIN written |-> written[i][2]], <<" ">>)
    IN  /\ Lex(text) = tokens
        /\ StatementsOf(text \o <<";", " ">> \o text) = <<text, text>>

\* Wherever the lexer finds an end to every string of a text, the scanners see
\* a `;` after it as the end of the statement, and none before it.
QuotesAgree(text) ==
    Lex(text) # NoTokens => Split(text \o <<";", "1">>, ";") = <<text, <<"1">>>>
=============================================================================
