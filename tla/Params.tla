------------------------------- MODULE Params -------------------------------
(***************************************************************************)
(* The parameters of an internal action, which come in either spelling of  *)
(* a name: each one that is given also counts under the other spelling.    *)
(*                                                                         *)
(* A key is a sequence of characters; parameters are a function of keys.   *)
(***************************************************************************)
EXTENDS Integers, Sequences, SequencesExt, TLC

CONSTANT UpperOf    \* a small letter -> its capital

Capitals == {UpperOf[c] : c \in DOMAIN UpperOf}
LowerOf(c) == CHOOSE l \in DOMAIN UpperOf : UpperOf[l] = c
Capital(c) == IF c \in DOMAIN UpperOf THEN UpperOf[c] ELSE c

\* Underscores go, and what comes after them is a capital.
ToCamelCase(key) ==
    FlattenSeq([i \in DOMAIN key |->
        IF key[i] = "_" THEN <<>>
        ELSE IF i > 1 /\ key[i - 1] = "_" THEN <<Capital(key[i])>> ELSE <<key[i]>>])

\* Every capital becomes a small letter, after an underscore unless it is first.
ToSnakeCase(key) ==
    FlattenSeq([i \in DOMAIN key |->
        IF key[i] \notin Capitals THEN <<key[i]>>
        ELSE IF i = 1 THEN <<LowerOf(key[i])>> ELSE <<"_", LowerOf(key[i])>>])

Aliases(key) == {ToCamelCase(key), ToSnakeCase(key)}

\* Only what is not there at all is added; Rank tells which of two keys that
\* want the same alias comes first.
NormalizeParams(params, Rank) ==
    LET wants(alias) == {k \in DOMAIN params : alias \in Aliases(k)}
        first(alias) == CHOOSE k \in wants(alias) : \A j \in wants(alias) : Rank[k] <= Rank[j]
    IN  params @@ [alias \in (UNION {Aliases(k) : k \in DOMAIN params}) \ DOMAIN params
                       |-> params[first(alias)]]

-----------------------------------------------------------------------------

\* The keys that people write: words joined by single underscores, or camel case.
IsSnake(key) ==
    /\ key # <<>> /\ key[1] # "_" /\ Last(key) # "_"
    /\ \A i \in DOMAIN key : key[i] \notin Capitals /\ (key[i] = "_" => key[i + 1] # "_")
IsCamel(key) == key # <<>> /\ key[1] \notin Capitals /\ \A i \in DOMAIN key : key[i] # "_"

\* For such keys a handler finds a value under its own spelling whichever one
\* the caller used, what the caller gave is never replaced, not even when both
\* spellings are given, and a second normalization changes nothing.
ParamsLaw(params, Rank) ==
    LET out == NormalizeParams(params, Rank)
    IN  /\ \A k \in DOMAIN params : out[k] = params[k]
        /\ (\A k \in DOMAIN params : IsSnake(k) \/ IsCamel(k)) =>
              /\ NormalizeParams(out, Rank) = out
              /\ \A k \in DOMAIN params : \A other \in Aliases(k) \ DOMAIN params :
                    out[other] = params[k]
=============================================================================
