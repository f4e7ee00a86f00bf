----------------------------- MODULE ScriptExpr -----------------------------
(***************************************************************************)
(* Expressions of the script language: the recursive-descent parser, from  *)
(* a sequence of tokens to a tree, and the evaluator.                      *)
(*                                                                         *)
(* JSON values are tuples with a tag, so that values of different types    *)
(* compare as unequal: <<"null">>, <<"bool", b>>, <<"num", n>>,            *)
(* <<"str", text>>, <<"arr", items>>, <<"obj", fields>>.  A text is a      *)
(* sequence of characters, each a tuple, where the JSON form of another    *)
(* value counts as one character.  A key is one character.  Trees and      *)
(* tokens are tuples with a tag, too.                                      *)
(***************************************************************************)
EXTENDS Integers, Sequences, SequencesExt

ScrNull == <<"null">>
ScrBool(b) == <<"bool", b>>
ScrNum(n) == <<"num", n>>
ScrStr(text) == <<"str", text>>
ScrArr(items) == <<"arr", items>>
ScrObj(fields) == <<"obj", fields>>
ScrError == <<"error">>

Tag(t) == t[1]

-----------------------------------------------------------------------------
(* The parser: each operator takes the tokens and a position, and answers  *)
(* with a tree and the position after it.                                  *)

NoTree == <<"no tree">>
NoParse == [tree |-> NoTree, next |-> 0]
Failed(p) == p.tree = NoTree
Tree(t, next) == [tree |-> t, next |-> next]

TokenAt(toks, i) == IF i <= Len(toks) THEN toks[i] ELSE <<"end">>

\* A string without references is a literal.
TemplateExpr(parts) ==
    IF Len(parts) = 1 /\ Tag(parts[1]) = "text" THEN <<"lit", ScrStr(parts[1][2])>>
    ELSE <<"template", parts>>

RECURSIVE ParseOr(_, _), OrRest(_, _), ParseAnd(_, _), AndRest(_, _), ParseUnary(_, _),
          ParseItems(_, _, _), ParseFields(_, _, _)

\* After an item: a comma, which may be the last thing in there, or the end.
AfterItem(toks, i, close) ==
    IF TokenAt(toks, i) = <<",">> THEN i + 1
    ELSE IF TokenAt(toks, i) = <<close>> THEN i ELSE 0

ParseItems(toks, i, items) ==
    IF TokenAt(toks, i) = <<"]">> THEN Tree(<<"array", items>>, i + 1)
    ELSE LET item == ParseOr(toks, i)
         IN  IF Failed(item) \/ AfterItem(toks, item.next, "]") = 0 THEN NoParse
             ELSE ParseItems(toks, AfterItem(toks, item.next, "]"), Append(items, item.tree))

ParseFields(toks, i, fields) ==
    LET key == TokenAt(toks, i)
        value == ParseOr(toks, i + 2)
    IN  IF key = <<"}">> THEN Tree(<<"object", fields>>, i + 1)
        ELSE IF Tag(key) # "string" \/ TokenAt(toks, i + 1) # <<":">> THEN NoParse
        ELSE IF Failed(value) \/ AfterItem(toks, value.next, "}") = 0 THEN NoParse
        ELSE ParseFields(toks, AfterItem(toks, value.next, "}"),
                         Append(fields, <<TemplateExpr(key[2]), value.tree>>))

ParseAtom(toks, i) ==
    LET tok == TokenAt(toks, i)
    IN  CASE Tag(tok) = "(" ->
               (LET inner == ParseOr(toks, i + 1)
                IN  IF Failed(inner) \/ TokenAt(toks, inner.next) # <<")">> THEN NoParse
                    ELSE Tree(inner.tree, inner.next + 1))
          [] Tag(tok) = "var" -> Tree(tok, i + 1)
          [] Tag(tok) = "lit" -> Tree(tok, i + 1)
          [] Tag(tok) = "string" -> Tree(TemplateExpr(tok[2]), i + 1)
          [] Tag(tok) = "[" -> ParseItems(toks, i + 1, <<>>)
          [] Tag(tok) = "{" -> ParseFields(toks, i + 1, <<>>)
          [] OTHER -> NoParse

\* At most one comparison: they do not chain.
ParseComparison(toks, i) ==
    LET left == ParseAtom(toks, i)
        op == TokenAt(toks, left.next)
        right == ParseAtom(toks, left.next + 1)
    IN  IF Failed(left) \/ Tag(op) # "op" THEN left
        ELSE IF Failed(right) THEN NoParse
        ELSE Tree(<<"compare", op[2], left.tree, right.tree>>, right.next)

ParseUnary(toks, i) ==
    IF TokenAt(toks, i) # <<"!">> THEN ParseComparison(toks, i)
    ELSE LET inner == ParseUnary(toks, i + 1)
         IN  IF Failed(inner) THEN NoParse ELSE Tree(<<"not", inner.tree>>, inner.next)

AndRest(toks, left) ==
    IF Failed(left) \/ TokenAt(toks, left.next) # <<"&&">> THEN left
    ELSE LET right == ParseUnary(toks, left.next + 1)
         IN  IF Failed(right) THEN NoParse
             ELSE AndRest(toks, Tree(<<"and", left.tree, right.tree>>, right.next))
ParseAnd(toks, i) == AndRest(toks, ParseUnary(toks, i))

OrRest(toks, left) ==
    IF Failed(left) \/ TokenAt(toks, left.next) # <<"||">> THEN left
    ELSE LET right == ParseAnd(toks, left.next + 1)
         IN  IF Failed(right) THEN NoParse
             ELSE OrRest(toks, Tree(<<"or", left.tree, right.tree>>, right.next))
ParseOr(toks, i) == OrRest(toks, ParseAnd(toks, i))

\* parse_expr: every token must have been used.
ParseExpr(toks) ==
    LET p == ParseOr(toks, 1)
    IN  IF p.next = Len(toks) + 1 THEN p.tree ELSE NoTree

-----------------------------------------------------------------------------
(* The evaluator                                                           *)

IsTruthy(v) ==
    CASE Tag(v) = "null" -> FALSE
      [] Tag(v) = "bool" -> v[2]
      [] Tag(v) = "num"  -> v[2] # 0
      [] Tag(v) = "obj"  -> DOMAIN v[2] # {}
      [] OTHER -> v[2] # <<>>

\* One key of an object, or one index of an array (Digits: what parses as one).
Digits == [d \in {"0", "1", "2"} |-> CASE d = "0" -> 0 [] d = "1" -> 1 [] d = "2" -> 2]

Child(v, key) ==
    CASE Tag(v) = "obj" /\ key \in DOMAIN v[2] -> v[2][key]
      [] Tag(v) = "arr" /\ key \in DOMAIN Digits -> IF Digits[key] < Len(v[2])
                                                    THEN v[2][Digits[key] + 1] ELSE ScrNull
      [] OTHER -> ScrNull

\* A reference is a name and the keys after it; what is not there is null.
ResolveVar(ref, ctx) ==
    IF ref[1] \in DOMAIN ctx THEN FoldLeft(Child, ctx[ref[1]], Tail(ref)) ELSE ScrNull

\* value_to_arg_string: a string as it is, anything else as its JSON.
ArgText(v) == IF Tag(v) = "str" THEN v[2] ELSE <<v>>

RenderTemplate(parts, ctx) ==
    FlattenSeq([i \in DOMAIN parts |-> IF Tag(parts[i]) = "text" THEN parts[i][2]
                                       ELSE ArgText(ResolveVar(parts[i][2], ctx))])

HasPart(haystack, needle) ==
    CASE Tag(haystack) = "str" ->
           /\ Tag(needle) = "str"
           /\ \E i \in 0..Len(haystack[2]) : IsPrefix(needle[2], SubSeq(haystack[2], i + 1, Len(haystack[2])))
      [] Tag(haystack) = "arr" -> \E i \in DOMAIN haystack[2] : haystack[2][i] = needle
      [] Tag(haystack) = "obj" ->
           Tag(needle) = "str" /\ \E k \in DOMAIN haystack[2] : needle[2] = <<<<k>>>>
      [] OTHER -> FALSE

\* Only numbers have an order.
EvalCompare(op, a, b) ==
    LET ordered(holds) == IF {Tag(a), Tag(b)} = {"num"} THEN ScrBool(holds) ELSE ScrError
    IN  CASE op = "==" -> ScrBool(a = b)
          [] op = "!=" -> ScrBool(a # b)
          [] op = "contains" -> ScrBool(HasPart(a, b))
          [] op = "<"  -> ordered(a[2] < b[2])
          [] op = "<=" -> ordered(a[2] <= b[2])
          [] op = ">"  -> ordered(a[2] > b[2])
          [] op = ">=" -> ordered(a[2] >= b[2])

RECURSIVE EvalExpr(_, _)

\* && and || answer with the operand that decided, and leave the other alone.
EvalExpr(e, ctx) ==
    CASE Tag(e) = "lit" -> e[2]
      [] Tag(e) = "var" -> ResolveVar(e[2], ctx)
      [] Tag(e) = "template" -> ScrStr(RenderTemplate(e[2], ctx))
      [] Tag(e) = "array" ->
           (LET items == [i \in DOMAIN e[2] |-> EvalExpr(e[2][i], ctx)]
            IN  IF \E i \in DOMAIN items : items[i] = ScrError THEN ScrError ELSE ScrArr(items))
      [] Tag(e) = "object" ->
           (LET keys == [i \in DOMAIN e[2] |-> EvalExpr(e[2][i][1], ctx)[2]]
                values == [i \in DOMAIN e[2] |-> EvalExpr(e[2][i][2], ctx)]
                last(k) == CHOOSE i \in DOMAIN keys :
                             keys[i] = <<<<k>>>> /\ \A j \in i + 1..Len(keys) : keys[j] # <<<<k>>>>
            IN  IF \E i \in DOMAIN values : values[i] = ScrError THEN ScrError
                ELSE ScrObj([k \in {keys[i][1][1] : i \in DOMAIN keys} |-> values[last(k)]]))
      [] Tag(e) = "not" ->
           (LET v == EvalExpr(e[2], ctx)
            IN  IF v = ScrError THEN v ELSE ScrBool(~IsTruthy(v)))
      [] Tag(e) \in {"and", "or"} ->
           (LET v == EvalExpr(e[2], ctx)
            IN  IF v = ScrError THEN v
                ELSE IF IsTruthy(v) = (Tag(e) = "or") THEN v ELSE EvalExpr(e[3], ctx))
      [] Tag(e) = "compare" ->
           (LET a == EvalExpr(e[3], ctx)
                b == EvalExpr(e[4], ctx)
            IN  IF ScrError \in {a, b} THEN ScrError ELSE EvalCompare(e[2], a, b))

-----------------------------------------------------------------------------
(* The reference: how an expression is written, with as few brackets as    *)
(* its meaning allows.                                                     *)

Binding == [or |-> 1, and |-> 2, not |-> 3, compare |-> 4]
Strength(e) == IF Tag(e) \in DOMAIN Binding THEN Binding[Tag(e)] ELSE 5

RECURSIVE WriteExpr(_, _)

Between(seqs, separator) ==
    FlattenSeq([i \in DOMAIN seqs |-> IF i = Len(seqs) THEN seqs[i] ELSE seqs[i] \o separator])

\* e where something that binds at least as strong as need is wanted.
WriteExpr(e, need) ==
    LET text ==
          CASE Tag(e) = "or"  -> WriteExpr(e[2], 1) \o <<<<"||">>>> \o WriteExpr(e[3], 2)
            [] Tag(e) = "and" -> WriteExpr(e[2], 2) \o <<<<"&&">>>> \o WriteExpr(e[3], 3)
            [] Tag(e) = "not" -> <<<<"!">>>> \o WriteExpr(e[2], 3)
            [] Tag(e) = "compare" ->
                 WriteExpr(e[3], 5) \o <<<<"op", e[2]>>>> \o WriteExpr(e[4], 5)
            [] Tag(e) = "array" ->
                 <<<<"[">>>> \o Between([i \in DOMAIN e[2] |-> WriteExpr(e[2][i], 1)], <<<<",">>>>)
                   \o <<<<"]">>>>
            [] Tag(e) = "object" ->
                 <<<<"{">>>>
                   \o Between([i \in DOMAIN e[2] |->
                                 <<<<"string", <<<<"text", e[2][i][1][2][2]>>>>>>, <<":">>>>
                                   \o WriteExpr(e[2][i][2], 1)], <<<<",">>>>)
                   \o <<<<"}">>>>
            [] Tag(e) = "template" -> <<<<"string", e[2]>>>>
            [] OTHER -> <<e>>
    IN  IF Strength(e) < need THEN <<<<"(">>>> \o text \o <<<<")">>>> ELSE text

\* What is written is parsed back as it was meant, and `!`, `&&` and `||` obey
\* the laws of logic, up to which error shows first.
ExprLaw(e, f, ctx) ==
    LET truth(x) == LET v == EvalExpr(x, ctx)
                    IN  IF v = ScrError THEN ScrError ELSE ScrBool(IsTruthy(v))
    IN  /\ ParseExpr(WriteExpr(e, 1)) = e
        /\ truth(<<"not", <<"and", e, f>>>>) = truth(<<"or", <<"not", e>>, <<"not", f>>>>)
        /\ truth(<<"not", <<"not", e>>>>) = truth(e)
        /\ truth(e) = ScrBool(TRUE) => EvalExpr(<<"or", e, f>>, ctx) = EvalExpr(e, ctx)
=============================================================================
