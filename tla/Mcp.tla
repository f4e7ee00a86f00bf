--------------------------------- MODULE Mcp ---------------------------------
(***************************************************************************)
(* The MCP server: how an action's reference becomes the name of a tool    *)
(* and a reference again, what the router tool shows of the actions, what  *)
(* a call of a tool runs, and what the caller is told while it runs.       *)
(*                                                                         *)
(* A name is a sequence of characters.  "act" and "b32" stand for the      *)
(* letters of the two markers, each as one character.                      *)
(***************************************************************************)
EXTENDS Listing, Paths, FiniteSetsExt, TLC

CONSTANTS
    Spelled,          \* a row's segments, each with its characters
    ByteOf,           \* the characters of references, each with its byte
    MaxPrettyLen,     \* the longest name that is not given in base 32
    ListSize,         \* PAGE_SIZE
    SearchSize,       \* the limit of the router's search
    RouterPageSize,
    ReadSize          \* the entries one read of a console returns

Prefix == <<"act", "_", "_">>
OpaqueMarker == <<"b32", "_">>
Joint == <<"_", "_">>

AfterFirst(s, t) == SubSeq(s, Len(t) + 1, Len(s))

-----------------------------------------------------------------------------
(* base 32: bits waits in buf until there are five of them, and on the way *)
(* back until there are eight; the last few of a text are lost             *)

Base32Digits == <<"a", "b", "c", "d", "e", "f", "g", "h", "i", "j", "k", "l", "m", "n", "o", "p",
            "q", "r", "s", "t", "u", "v", "w", "x", "y", "z", "2", "3", "4", "5", "6", "7">>

\* What is in buf above its bits is never read.
RECURSIVE Regroup(_, _, _, _, _)
Regroup(data, from, to, buf, bits) ==
    IF bits >= to
    THEN <<buf \div 2^(bits - to)>> \o Regroup(data, from, to, buf % 2^(bits - to), bits - to)
    ELSE IF data # <<>>
    THEN Regroup(Tail(data), from, to, buf * 2^from + Head(data), bits + from)
    ELSE IF bits > 0 /\ to < from THEN <<buf * 2^(to - bits)>>
    ELSE <<>>

Base32Encode(bytes) ==
    LET groups == Regroup(bytes, 8, 5, 0, 0) IN [i \in DOMAIN groups |-> Base32Digits[groups[i] + 1]]

\* Any character that is no digit refuses the whole.
Base32Decode(s) ==
    IF \E i \in DOMAIN s : s[i] \notin ToSet(Base32Digits) THEN <<"none">>
    ELSE LET value(c) == CHOOSE n \in 0..31 : Base32Digits[n + 1] = c
         IN  <<"bytes", Regroup([i \in DOMAIN s |-> value(s[i])], 5, 8, 0, 0)>>

-----------------------------------------------------------------------------
(* Names of tools: a segment is a sequence of characters                   *)

HasJoint(seg) == \E i \in 1..Len(seg) - 1 : SubSeq(seg, i, i + 1) = Joint

PrettyName(path, name) ==
    LET parts == Append(path, name)
    IN  Prefix \o FlattenSeq([i \in DOMAIN parts |->
                       IF i = 1 THEN parts[i] ELSE Joint \o parts[i]])

IsPretty(path, name) ==
    /\ \A i \in DOMAIN path : ~HasJoint(path[i])
    /\ ~HasJoint(name)
    /\ Len(PrettyName(path, name)) <= MaxPrettyLen

EncodeToolName(path, name) ==
    LET full == PathText(<<"path", Append(path, name)>>)
    IN  IF IsPretty(path, name) THEN PrettyName(path, name)
        ELSE Prefix \o OpaqueMarker \o Base32Encode([i \in DOMAIN full |-> ByteOf[full[i]]])

\* The parts between joints, each found from the left.
RECURSIVE SplitJoints(_)
SplitJoints(s) ==
    LET joints == {i \in 1..Len(s) - 1 : SubSeq(s, i, i + 1) = Joint}
        i == CHOOSE i \in joints : \A j \in joints : i <= j
    IN  IF joints = {} THEN <<s>>
        ELSE <<SubSeq(s, 1, i - 1)>> \o SplitJoints(SubSeq(s, i + 2, Len(s)))

NoTool == <<"none">>

DecodeToolName(tool) ==
    IF ~IsPrefix(Prefix, tool) THEN NoTool
    ELSE LET rest == AfterFirst(tool, Prefix)
             bytes == Base32Decode(AfterFirst(rest, OpaqueMarker))
             text == [i \in DOMAIN bytes[2] |->
                        CHOOSE c \in DOMAIN ByteOf : ByteOf[c] = bytes[2][i]]
             parts == SplitJoints(rest)
             isText == bytes # NoTool /\ ToSet(bytes[2]) \subseteq {ByteOf[c] : c \in DOMAIN ByteOf}
         IN  IF IsPrefix(OpaqueMarker, rest)
             THEN IF ~isText \/ SplitRef(text) = PathError THEN NoTool ELSE SplitRef(text)
             ELSE IF Last(parts) = <<>> THEN NoTool
             ELSE <<"ref", Front(parts), Last(parts)>>

-----------------------------------------------------------------------------
(* The router: a row is as in Listing; Rank orders its paths and names     *)

DefaultOrder(prefix) ==
    [prefix |-> prefix, after |-> 0, before |-> 0, sort |-> "name", desc |-> FALSE]

\* all_actions: page after page until one is empty or the last.
RECURSIVE AllFrom(_, _, _)
AllFrom(rows, prefix, offset) ==
    LET page == ListPage(rows, DefaultOrder(prefix), ListSize, offset)
        next == offset + Len(page.items)
        shown == SelectSeq(page.items, LAMBDA r : ~r.hidden)
    IN  IF page.items = <<>> \/ next >= page.total THEN shown
        ELSE shown \o AllFrom(rows, prefix, next)

AllActions(rows, prefix) == AllFrom(rows, prefix, 0)

NoCursor == 0 - 1

\* The cursor is a position in the list of all of them.
ExploreListAll(rows, prefix, cursor) ==
    LET all == AllActions(rows, prefix)
        end == IF cursor + RouterPageSize < Len(all) THEN cursor + RouterPageSize ELSE Len(all)
    IN  IF cursor >= Len(all) THEN [tools |-> <<>>, next |-> NoCursor]
        ELSE [tools |-> SubSeq(all, cursor + 1, end),
              next |-> IF end < Len(all) THEN end ELSE NoCursor]

ExploreSearch(rows, prefix) ==
    Slice(SearchPage(rows, DefaultOrder(prefix), SearchSize, 0).items, RouterPageSize, 0)

\* An argument counts before the server's own prefix; none is the root.
EffectivePrefix(argument, own) ==
    IF argument # <<>> THEN argument[1] ELSE IF own # <<>> THEN own[1] ELSE <<>>

ExploreTools(rows, args, own) ==
    LET prefix == EffectivePrefix(args.prefix, own)
    IN  CASE args.mode = "search" /\ args.query -> <<"tools", ExploreSearch(rows, prefix)>>
          [] args.mode = "list_all" -> <<"tools", ExploreListAll(rows, prefix, args.cursor).tools>>
          [] OTHER -> <<"error">>

\* The path and the name of a row, in characters.
Reference(r) == <<[i \in DOMAIN r.path |-> Spelled[r.path[i]]], Spelled[r.name[1]]>>

\* A row that is not there is left to exec to report.
CallTool(rows, tool, args, own) ==
    IF tool = <<"explore_tools">> THEN ExploreTools(rows, args, own)
    ELSE LET ref == DecodeToolName(tool)
             named == {r \in rows : <<"ref">> \o Reference(r) = ref}
         IN  IF ref = NoTool \/ \E r \in named : r.hidden THEN <<"unknown">>
             ELSE <<"exec", named>>

-----------------------------------------------------------------------------
(* The console of a running call, told to its caller: from the next number *)
(* at the start, by polls that return at most ReadSize entries, and one    *)
(* more read when the call has ended                                       *)

\* The next number of the console, if it is among the listed ones.
CurrentTip(listed, ref) == IF ref \in DOMAIN listed THEN listed[ref] ELSE 0

ReadFrom(seqs, cursor) ==
    LET new == SetToSortSeq({s \in seqs : s >= cursor}, <)
    IN  Slice(new, ReadSize, 0)

NextCursor(page, cursor) == IF page = <<>> THEN cursor ELSE Last(page) + 1

\* seen is what the console held at each poll; the last is at the end.
RECURSIVE Progress(_, _)
Progress(seen, cursor) ==
    IF seen = <<>> THEN <<>>
    ELSE LET page == ReadFrom(Head(seen), cursor)
         IN  page \o Progress(Tail(seen), NextCursor(page, cursor))

-----------------------------------------------------------------------------

\* Segments that the joints between them, and the marker before them, are not
\* confused with.
PlainSegment(seg) == seg # <<>> /\ Head(seg) # "_" /\ Last(seg) # "_"
Plain(path, name) ==
    LET parts == Append(path, name)
    IN  /\ \A i \in DOMAIN parts : PlainSegment(parts[i])
        /\ ~IsPrefix(OpaqueMarker, Head(parts))

\* A tool's name leads back to the action it was made from: always in its
\* base 32 form, and in its readable form where the segments are plain.
ToolNameLaw(path, name) ==
    Plain(path, name) \/ ~IsPretty(path, name) =>
        DecodeToolName(EncodeToolName(path, name)) = <<"ref", path, name>>

\* Whoever follows the cursors of list_all meets every action in scope that is
\* not hidden, once, in order; a search shows only such actions; a tool that
\* the router shows runs the one action it was shown for, and the name of a
\* hidden one is unknown.
RouterLaw(rows, prefix) ==
    LET Walk[c \in 0..Cardinality(rows)] ==
            LET page == ExploreListAll(rows, prefix, c)
            IN  page.tools \o IF page.next = NoCursor THEN <<>> ELSE Walk[page.next]
        shown == {r \in Selected(rows, DefaultOrder(prefix)) : ~r.hidden}
        none == [mode |-> "", query |-> FALSE, cursor |-> 0, prefix |-> <<>>]
        called(r) == CallTool(rows, EncodeToolName(Reference(r)[1], Reference(r)[2]), none, <<>>)
        plain(r) == Plain(Reference(r)[1], Reference(r)[2])
        asked(mode, own) == CallTool(rows, <<"explore_tools">>,
                                     [none EXCEPT !.mode = mode, !.query = TRUE], own)
    IN  /\ ToSet(Walk[0]) = shown /\ Len(Walk[0]) = Cardinality(shown)
        /\ \A mode \in {"search", "list_all"} :
              LET answer == asked(mode, <<prefix>>)
              IN  /\ answer[1] = "tools" /\ ToSet(answer[2]) \subseteq shown
                  /\ shown # {} => answer[2] # <<>> \/ mode = "search"
        /\ \A r \in rows : plain(r) =>
              called(r) = IF r.hidden THEN <<"unknown">> ELSE <<"exec", {r}>>

\* The caller is told every entry from the start of its call, once and in
\* order, if what is left at the end fits one read.
ProgressLaw(seen, listed, ref) ==
    LET tip == CurrentTip(listed, ref)
        told == Progress(seen, tip)
        due == {s \in UNION ToSet(seen) : s >= tip}
        polled == ToSet(Progress(Front(seen), tip))
    IN  /\ \A i \in 1..Len(told) - 1 : told[i] < told[i + 1]
        /\ ToSet(told) \subseteq due
        /\ Cardinality(due \ polled) <= ReadSize => ToSet(told) = due
=============================================================================
