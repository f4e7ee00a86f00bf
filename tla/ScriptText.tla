----------------------------- MODULE ScriptText -----------------------------
(***************************************************************************)
(* The text of a script, up to its statements and their arguments: what is *)
(* a comment, where a statement ends, where a stage of a pipeline ends and *)
(* which arguments it has.  Each of these scanners follows the quotes by   *)
(* itself.                                                                 *)
(*                                                                         *)
(* A text is a sequence of characters, where a word counts as one.         *)
(***************************************************************************)
EXTENDS Integers, Sequences, SequencesExt

LineKeywords == {"if", "elseif", "else", "endif", "for", "endfor", "wait"}

NewLine == "\n"
Spaces == {" ", NewLine}

CharAt(s, i) == IF i <= Len(s) THEN s[i] ELSE "end"
IsTriple(s) == Len(s) > 2 /\ SubSeq(s, 1, 3) = <<"'", "'", "'">>
From(s, i) == SubSeq(s, i, Len(s))

RECURSIVE TrimStart(_), TrimEnd(_)
TrimStart(s) == IF s # <<>> /\ Head(s) \in Spaces THEN TrimStart(Tail(s)) ELSE s
TrimEnd(s) == IF s # <<>> /\ Last(s) \in Spaces THEN TrimEnd(Front(s)) ELSE s
Trim(s) == TrimEnd(TrimStart(s))

-----------------------------------------------------------------------------
(* Quotes                                                                  *)

\* What would break it: a backslash that does not escape another one.
PieceQuotesOnly(s, mode) ==
    LET c == Head(s)
        escaped == c = "\\" /\ mode # "" /\ CharAt(s, 2) = mode
    IN  CASE mode \in {"", "'''"} /\ IsTriple(s) ->
                  [size |-> 3, mode |-> IF mode = "" THEN "'''" ELSE ""]
          [] mode # "'''" /\ escaped -> [size |-> 2, mode |-> mode]
          [] mode = "" /\ c \in {"'", "\""} -> [size |-> 1, mode |-> c]
          [] mode = c /\ c \in {"'", "\""} -> [size |-> 1, mode |-> ""]
          [] OTHER -> [size |-> 1, mode |-> mode]

\* How many characters belong together at the head of a text in this mode, and
\* the mode after them: a triple quote, an escaped quote, or one character.
Piece(s, mode) ==
    LET c == Head(s)
        escaped == c = "\\" /\ \/ mode = "'" /\ CharAt(s, 2) = "'"
                               \/ mode = "\"" /\ CharAt(s, 2) \in {"\"", "\\"}
    IN  CASE mode \in {"", "'''"} /\ IsTriple(s) ->
                  [size |-> 3, mode |-> IF mode = "" THEN "'''" ELSE ""]
          [] mode # "'''" /\ escaped -> [size |-> 2, mode |-> mode]
          [] mode = "" /\ c \in {"'", "\""} -> [size |-> 1, mode |-> c]
          [] mode = c /\ c \in {"'", "\""} -> [size |-> 1, mode |-> ""]
          [] OTHER -> [size |-> 1, mode |-> mode]

RECURSIVE Marks(_, _), StripFrom(_, _), Literal(_, _, _), ArgsFrom(_, _, _)

\* For each character whether it stands outside of quotes, and is none.
Marks(s, mode) ==
    IF s = <<>> THEN <<>>
    ELSE LET piece == Piece(s, mode)
         IN  [i \in 1..piece.size |-> mode = "" /\ piece.mode = ""]
               \o Marks(From(s, piece.size + 1), piece.mode)

\* strip_comments
StripFrom(s, mode) ==
    IF s = <<>> THEN <<>>
    ELSE IF mode = "" /\ Head(s) = "#"
    THEN LET ends == {i \in DOMAIN s : s[i] = NewLine}
         IN  IF ends = {} THEN <<>>
             ELSE StripFrom(From(s, CHOOSE i \in ends : \A j \in ends : i <= j), mode)
    ELSE LET piece == Piece(s, mode)
         IN  SubSeq(s, 1, piece.size) \o StripFrom(From(s, piece.size + 1), piece.mode)
StripComments(s) == StripFrom(s, "")

\* split_respecting_quotes_by: cut at these positions, which stand outside of
\* quotes; a blank rest is dropped.
CutAt(s, cuts) ==
    LET ends == SetToSortSeq(cuts, LAMBDA a, b : a < b) \o <<Len(s) + 1>>
        parts == [k \in DOMAIN ends |->
                    SubSeq(s, IF k = 1 THEN 1 ELSE ends[k - 1] + 1, ends[k] - 1)]
    IN  IF Trim(Last(parts)) = <<>> THEN Front(parts) ELSE parts

Separators(s, sep) == {i \in DOMAIN s : s[i] = sep /\ Marks(s, "")[i]}
Split(s, sep) == CutAt(s, Separators(s, sep))

-----------------------------------------------------------------------------
(* Statements                                                              *)

RECURSIVE PushStatements(_, _)

\* A piece between two `;`: a keyword's statement ends at the line's end, and a
\* condition also at a `then`.
PushStatements(piece, out) ==
    LET rest == Trim(piece)
        lines == Split(rest, NewLine)
        line == lines[1]
        thens == Separators(line, "then")
        conditional == \/ Head(rest) \in {"if", "elseif"}
                       \/ Head(rest) = "else" /\ TrimStart(Tail(rest)) # <<>>
                            /\ Head(TrimStart(Tail(rest))) = "if"
        at == IF conditional /\ thens # {} THEN CHOOSE i \in thens : \A j \in thens : i <= j
              ELSE Len(line) + 1
    IN  IF rest = <<>> THEN out
        ELSE IF Head(rest) \notin LineKeywords THEN Append(out, rest)
        ELSE PushStatements(From(line, at + 1) \o <<NewLine>> \o From(rest, Len(line) + 2),
                            Append(out, Trim(SubSeq(line, 1, at - 1))))

StatementsOf(source) ==
    FoldLeft(LAMBDA out, piece : PushStatements(piece, out), <<>>,
             Split(StripComments(source), ";"))

-----------------------------------------------------------------------------
(* Stages and arguments                                                    *)

Opening == {"{", "["}
Closing == {"}", "]"}

\* The brackets open before i, of those outside of quotes.
DepthAt(s, i) ==
    LET marks == Marks(s, "")
    IN  Cardinality({j \in 1..(i - 1) : marks[j] /\ s[j] \in Opening})
          - Cardinality({j \in 1..(i - 1) : marks[j] /\ s[j] \in Closing})

Stages(s) == CutAt(s, {i \in Separators(s, "|") : DepthAt(s, i) <= 0})

\* scan_bracketed: how long the literal at the head of the text is.  It has its
\* own idea of quotes: a backslash escapes whatever follows.
Literal(s, depth, mode) ==
    IF s = <<>> THEN 0
    ELSE LET c == Head(s)
             more(n, d, m) == n + Literal(From(s, n + 1), d, m)
         IN  CASE mode \in {"", "'''"} /\ IsTriple(s) ->
                       more(3, depth, IF mode = "" THEN "'''" ELSE "")
               [] mode \in {"'", "\""} /\ c = "\\" -> more(IF Len(s) > 1 THEN 2 ELSE 1, depth, mode)
               [] mode = c /\ c \in {"'", "\""} -> more(1, depth, "")
               [] mode = "" /\ c \in {"'", "\""} -> more(1, depth, c)
               [] mode = "" /\ c \in Opening -> more(1, depth + 1, "")
               [] mode = "" /\ c \in Closing -> IF depth = 1 THEN 1 ELSE more(1, depth - 1, "")
               [] OTHER -> more(1, depth, mode)

\* tokenize_stage_args: a bracket at the start of an argument makes a literal,
\* quotes are dropped, and inside of them only the quote can be escaped.
ArgsFrom(s, current, mode) ==
    LET flush == IF current = <<>> THEN <<>> ELSE <<<<"text", current>>>>
        c == Head(s)
    IN  IF s = <<>> THEN flush
        ELSE CASE current = <<>> /\ mode = "" /\ c \in Opening ->
                    <<<<"literal", SubSeq(s, 1, Literal(s, 0, ""))>>>>
                      \o ArgsFrom(From(s, Literal(s, 0, "") + 1), <<>>, "")
               [] mode \in {"", "'''"} /\ IsTriple(s) ->
                    ArgsFrom(From(s, 4), current, IF mode = "" THEN "'''" ELSE "")
               [] mode \in {"'", "\""} /\ c = "\\" /\ CharAt(s, 2) = mode ->
                    ArgsFrom(From(s, 3), Append(current, mode), mode)
               [] mode = "" /\ c \in {"'", "\""} -> ArgsFrom(Tail(s), current, c)
               [] mode = c /\ c \in {"'", "\""} -> ArgsFrom(Tail(s), current, "")
               [] mode = "" /\ c \in Spaces -> flush \o ArgsFrom(Tail(s), <<>>, "")
               [] OTHER -> ArgsFrom(Tail(s), Append(current, c), mode)
StageArgs(s) == ArgsFrom(s, <<>>, "")

-----------------------------------------------------------------------------

\* However a list of statements is written down, with each one ended in any way
\* its kind allows (pairs <<statement, ending>>), it is read as that list.
StatementsAreFound(written) ==
    StatementsOf(FlattenSeq([i \in DOMAIN written |-> written[i][1] \o written[i][2]]))
      = [i \in DOMAIN written |-> written[i][1]]

\* Stages of arguments, each written in some way (pairs <<argument, written>>),
\* are read as those arguments, whatever stands in their quotes and brackets.
ArgumentsAreFound(stages) ==
    LET write(stage) == FlattenSeq([i \in DOMAIN stage |-> <<" ">> \o stage[i][2]])
        text == FlattenSeq([k \in DOMAIN stages |-> IF k = 1 THEN write(stages[k])
                                                    ELSE <<"|">> \o write(stages[k])])
        found == Stages(text)
    IN  [k \in DOMAIN found |-> StageArgs(found[k])]
          = [k \in DOMAIN stages |-> [i \in DOMAIN stages[k] |-> stages[k][i][1]]]
=============================================================================
