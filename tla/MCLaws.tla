------------------------------- MODULE MCLaws -------------------------------
(***************************************************************************)
(* Small inputs for the modules without state: each initial state is one   *)
(* input of one of them, tagged with the law to check on it.               *)
(***************************************************************************)
EXTENDS Script, ScriptText, ScriptLex, DocFields, Policy, Listing, Params, Paths, Masking, Mcp,
        ConsoleActions

McSeqs(S, from, to) == UNION {[1..n -> S] : n \in from..to}

-----------------------------------------------------------------------------
(* Expressions: all of depth 2 over a variable and a number, and compounds *)
(* of them with one more operand                                           *)

McLeaves == {<<"var", <<"x">>>>, <<"lit", ScrNum(1)>>}
McUp(S, T) ==
    {<<op, e, f>> : op \in {"or", "and"}, e \in S, f \in T}
      \cup {<<"compare", op, e, f>> : op \in {"==", "<", "contains"}, e \in S, f \in T}
      \cup {<<"not", e>> : e \in S} \cup {<<"array", <<e>>>> : e \in S}
      \cup {<<"object", <<<<<<"lit", ScrStr(<<<<"k">>>>)>>, e>>>>>> : e \in S}
McExprs1 == McLeaves \cup McUp(McLeaves, McLeaves)
              \cup {<<"template", <<<<"text", <<<<"p">>>>>>, <<"ref", <<"y", "k">>>>>>>>}
McExprs == McExprs1 \cup McUp(McExprs1, McLeaves) \cup McUp(McLeaves, McExprs1)
McContext == ("x" :> ScrNum(0)) @@ ("y" :> ScrObj("k" :> ScrStr(<<<<"p">>>>)))

-----------------------------------------------------------------------------
(* Texts: statements with separators and comment signs in their quotes,    *)
(* ended in the ways their kind allows; arguments with stage separators    *)

McPlain == {<<"x">>, <<"x", "'", ";", "#", "\\", "'", "'">>,
            <<"x", "\"", ";", "\\", "\\", "\"">>, <<"x", NewLine, "then">>,
            <<"'", "'", "'", "\\", "'", ";", "#", "'", "'", "'">>}
McCond == {<<"if", "x">>, <<"else", "if", "'", "then", NewLine, "'">>}
McWord == {<<"else">>, <<"wait", "\"", ";", "#", "\"">>}
McEnds == {<<";">>, <<" ", "#", "'", ";", NewLine, ";">>}
McLineEnds == McEnds \cup {<<NewLine>>, <<"#", "\"", NewLine>>}
McCondEnds == McLineEnds \cup {<<" ", "then", " ">>}
McWritten == (McPlain \X McEnds) \cup (McWord \X McLineEnds) \cup (McCond \X McCondEnds)

McOpen == <<"{", "|", "|", "'", "}", "'", "[", NewLine, "]", "}">>
McQuoted == <<"[", "\"", "]", "\\", "\"", "\"", "]">>
McArgs == {<<<<"text", <<"a">>>>, <<"a">>>>,
           <<<<"text", <<"|", " ", "\"", "'">>>>,
             <<"\"", "|", " ", "\\", "\"", "'", "\"">>>>,
           <<<<"text", <<"{", "\"">>>>, <<"'", "{", "\"", "'">>>>,
           <<<<"text", <<"\\", "'", "|">>>>,
             <<"'", "'", "'", "\\", "'", "|", "'", "'", "'">>>>,
           <<<<"literal", McOpen>>, McOpen>>, <<<<"literal", McQuoted>>, McQuoted>>}

-----------------------------------------------------------------------------
(* Tokens: strings with everything that is special between quotes, in all  *)
(* the ways to quote them, beside numbers, words and signs; and all short  *)
(* texts of quotes, backslashes and a separator                            *)

McHex == ("0041" :> 65) @@ ("D83D" :> 55357) @@ ("DE00" :> 56832) @@ ("DC00" :> 56320)
McChars == {<<"x">>, <<"'">>, <<"\\">>, <<"\"">>, <<"$">>, <<NewLine>>, <<";">>, <<"#">>,
            <<"code", 65>>, <<"code", 128512>>}
McStrings == {<<"string", <<<<"text", s>>>>>> : s \in McSeqs(McChars, 0, 2) \cup
                {<<<<"'">>, <<"'">>, <<"'">>>>, <<<<"$">>, <<"{">>, <<"k">>, <<"}">>>>}}
                \cup {<<"string", <<<<"ref", <<"x", "0">>>>, <<"text", <<c>>>>>>>> : c \in McChars}
McSigns == {<<<<"var", <<"x", "k">>>>, <<"$", "x", ".", "k">>>>,
            <<<<"lit", ScrNum(-120)>>, <<"-", "1", ".", "2", "e", "+", "2">>>>,
            <<<<"lit", <<"frac", 12, 1>>>>, <<"1", "2", "e", "-", "1">>>>,
            <<<<"op", "contains">>, <<"contains">>>>, <<<<"lit", ScrBool(TRUE)>>, <<"true">>>>,
            <<<<"!">>, <<"!">>>>, <<<<"op", "!=">>, <<"!", "=">>>>, <<<<"op", "<">>, <<"<">>>>,
            <<<<"op", ">=">>, <<">", "=">>>>, <<<<"op", "==">>, <<"=", "=">>>>,
            <<<<"&&">>, <<"&", "&">>>>, <<<<"||">>, <<"|", "|">>>>}
McTokens == McSigns \cup UNION {{<<t, w>> : w \in Spellings(t)} : t \in McStrings}
McQuotes == McSeqs({"'", "\"", "\\", ";", "1"}, 0, 5)

-----------------------------------------------------------------------------
(* Documents of depth 2, paths of up to 3 segments                         *)

McIndexes == ("0" :> 0) @@ ("1" :> 1) @@ ("00" :> 0)
McLeafValues == {<<"s">>, FieldNull}
McNest(V) == {<<"obj", f>> : f \in UNION {[d -> V] : d \in SUBSET {"a", "0"}}}
               \cup {<<"arr", s>> : s \in McSeqs(V, 0, 2)}
McContents == McLeafValues \cup McNest({<<"s">>} \cup McNest({<<"s">>}))
McFieldPaths == McSeqs({"a", "0", "1"}, 0, 3) \cup McSeqs({"0", "00"}, 1, 2)

-----------------------------------------------------------------------------
(* Policies, lists, parameters, paths                                      *)

McPatterns == McSeqs({"a", "b", "*", "?"}, 0, 3)
McTexts == McSeqs({"a", "b", "*"}, 0, 3)
McRules == [path : {<<"*">>, <<"a", "*">>}, actions : {{}, {"x"}}]
McPolicyActions == [path : {<<"a">>, <<"a", "b">>, <<>>}, name : {"x", "y"},
                    type : {"Command", "Script"},
                    capabilities : SUBSET {CapHidden, CapDestructive}]

\* "_" is a wildcard of LIKE, and an upper-case letter is the lower-case one.
McLike == {<<"a", "a">>, <<"b", "b">>, <<"_", "_">>, <<"_", "a">>, <<"_", "b">>}
McRank == (<<>> :> 0) @@ (<<"a">> :> 1) @@ (<<"a", "b">> :> 2) @@ (<<"_">> :> 3)
            @@ (<<"n">> :> 4) @@ (<<"m">> :> 5)
McRow(p, n, u) == [path |-> p, name |-> n, updated |-> u, hidden |-> n = <<"m">> /\ u = 1]
McRowSets == {{McRow(<<>>, <<"n">>, 1), McRow(p, <<"m">>, u), McRow(q, <<"n">>, v)} :
                p \in {<<"a">>, <<"a", "b">>}, q \in {<<"a">>, <<"_">>}, u, v \in 1..2}
McListOptions == [prefix : {<<>>, <<"a">>, <<"_">>}, after : {0, 2}, before : {0, 1},
                  sort : {"name", "updated", "other"}, desc : BOOLEAN]

McUpper == ("a" :> "A") @@ ("b" :> "B")
McKeys == McSeqs({"a", "A", "_", "b"}, 0, 3)

McForbidden == {"*"}
McCharacters == {"a", "/", " ", ".", "*"}

McProtected(k) == <<"secrets", k>>
McConfigs == { <<McProtected("K"), <<"cwd">>, <<"auth", "type">>>>,
               <<<<"auth", "token">>, <<"auth", "scope", "x">>, <<"auth", "0">>>> }
McLeafConfigs == UNION {[{c[i] : i \in 1..n} -> {"v1", "v2", "n"}] : c \in McConfigs, n \in 0..3}

-----------------------------------------------------------------------------
(* Tools: segments with underscores at every place, one that begins with   *)
(* the marker; consoles at up to three polls of a call                     *)

McBytes == ("/" :> 47) @@ ("a" :> 97) @@ ("_" :> 95) @@ ("b32" :> 98) @@ ("n" :> 110)
             @@ ("m" :> 109) @@ ("b" :> 255)
McSegments == McSeqs({"a", "_"}, 1, 3) \cup {<<"b32", "_", "a">>, <<"a", "_", "_", "b">>}
McSpelled == [s \in {"a", "b", "n", "m", "_"} |-> <<s>>]
McPolls == {s \in McSeqs(0..4, 1, 3) : \A i \in 1..Len(s) - 1 : s[i] <= s[i + 1]}

(* Parameters of the console's handlers: one of each kind or none.         *)
McFieldValues == {Absence, StringOf("/z"), IntegerOf(1)}
McHandlerParams ==
    [ {"action_ref", "invocation_id", "from_action_ref", "name", "cursor", "from_seq"} -> McFieldValues ]

-----------------------------------------------------------------------------

VARIABLE lawCase

LawCases ==
    \/ \E e \in McExprs : lawCase = <<"expression", e>>
    \/ \E written \in McSeqs(McWritten, 0, 2) : lawCase = <<"statements", written>>
    \/ \E t \in McTokens, u \in McSigns : lawCase = <<"tokens", <<t, u, t>>>>
    \/ \E s \in McQuotes : lawCase = <<"quotes", s>>
    \/ \E a \in McSeqs(McArgs, 1, 2), b \in McSeqs(McArgs, 1, 1) : lawCase = <<"arguments", <<a, b>>>>
    \/ \E v \in McContents, path \in McFieldPaths, create \in BOOLEAN :
          lawCase = <<"field", v, path, create>>
    \/ \E pattern \in McPatterns, text \in McTexts : lawCase = <<"glob", pattern, text>>
    \/ \E rule, more \in McRules, action \in McPolicyActions, edited \in {{}, {CapHidden}} :
          lawCase = <<"policy", {rule}, {more}, action, edited>>
    \/ \E rows \in McRowSets, opts \in McListOptions, limit \in 1..2 :
          lawCase = <<"pages", rows, opts, limit>>
    \/ \E k, l \in McKeys : lawCase = <<"params", (k :> 1) @@ (l :> 2)>>
    \/ \E s \in McSeqs(McCharacters, 0, 4), name \in McSeqs(McCharacters, 1, 1) :
          lawCase = <<"path", s, name>>
    \/ \E cfg \in McLeafConfigs : lawCase = <<"mask", cfg>>
    \/ \E path \in McSeqs(McSegments, 0, 2), name \in McSegments :
          lawCase = <<"tool", path, name>>
    \/ \E rows \in McRowSets, prefix \in {<<>>, <<"a">>} : lawCase = <<"router", rows, prefix>>
    \/ \E polls \in McPolls, tip \in 0..4 : lawCase = <<"progress", polls, tip>>
    \/ \E fn \in HandlerNames, params \in McHandlerParams, caller \in {<<>>, <<"/c", "i">>} :
          lawCase = <<"handler", fn, params, caller>>

\* On every one of these inputs each law holds: expressions, tokens, statements and
\* arguments are read as they were written (expr.rs, block.rs, lib.rs of
\* solx-scripts), fields are set where they are read and nowhere else
\* (doc_fields.rs), globs match what they stand for and rules only ever add
\* marks (types.rs), pages partition a list (query.rs, store.rs), parameters
\* keep their values under both spellings (internal/mod.rs), references come
\* apart as they were put together (path.rs), redaction is undone by echoing
\* it (mask.rs), tools lead to their actions and callers hear of what a call
\* prints (tools.rs, server.rs), and the console's handlers keep to their
\* caller (actions.rs of solx-console).
LawsHold ==
    CASE lawCase[1] = "none" -> TRUE
      [] lawCase[1] = "expression" -> \A f \in McLeaves : ExprLaw(lawCase[2], f, McContext)
      [] lawCase[1] = "statements" -> StatementsAreFound(lawCase[2])
      [] lawCase[1] = "tokens" -> LexLaw(lawCase[2])
      [] lawCase[1] = "quotes" -> QuotesAgree(lawCase[2])
      [] lawCase[1] = "arguments" -> ArgumentsAreFound(lawCase[2])
      [] lawCase[1] = "field" ->
           FieldLaw(lawCase[2], lawCase[3], <<"new">>, lawCase[4], McFieldPaths)
      [] lawCase[1] = "glob" -> GlobLaw(lawCase[2], lawCase[3])
      [] lawCase[1] = "policy" -> PolicyLaw(lawCase[2], lawCase[3], lawCase[4], lawCase[5])
      [] lawCase[1] = "pages" -> PagesLaw(lawCase[2], lawCase[3], lawCase[4])
      [] lawCase[1] = "params" -> ParamsLaw(lawCase[2], lawCase[2])
      [] lawCase[1] = "path" -> PathLaw(lawCase[2], lawCase[3])
      [] lawCase[1] = "mask" -> RoundTrip(lawCase[2]) /\ MaskHides(lawCase[2])
      [] lawCase[1] = "tool" -> ToolNameLaw(lawCase[2], lawCase[3])
      [] lawCase[1] = "router" -> RouterLaw(lawCase[2], lawCase[3])
      [] lawCase[1] = "progress" ->
           ProgressLaw([i \in DOMAIN lawCase[2] |-> 1..lawCase[2][i]], "/c" :> lawCase[3], "/c")
      [] lawCase[1] = "handler" -> ScopeLaw(lawCase[2], lawCase[3], lawCase[4])
=============================================================================
