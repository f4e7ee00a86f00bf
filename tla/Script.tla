------------------------------- MODULE Script -------------------------------
(***************************************************************************)
(* Statements of the script language: the block parser, which turns the    *)
(* flat list of statements into a tree, and the interpreter of that tree.  *)
(* The reference is a machine that runs the flat list, by jumps.           *)
(*                                                                         *)
(* A statement is a tuple with a tag: <<"if", e>>, <<"elseif", e>>,        *)
(* <<"else">>, <<"endif">>, <<"for", name, source>>, <<"endfor">>,         *)
(* <<"wait", e>>, <<"value", name, e>> and <<"pipeline", name, stages>>,   *)
(* where the name "" assigns nothing, a source is <<"range", from, to>>,   *)
(* <<"var", ref>> or <<"pipeline", stages>>, and a stage is a sequence of  *)
(* arguments, <<"text", parts>> or <<"literal", e>>.                       *)
(***************************************************************************)
EXTENDS ScriptExpr, TLC

CONSTANTS
    ScrStatements,    \* the statements a script may be made of
    ScrParams,        \* the variables it starts with
    ScrFailing,       \* the commands that fail, as values
    MaxStatements     \* bound on its length

ASSUME ScriptAssumption == MaxStatements \in Nat

VARIABLE scrProgram

ScrInit == scrProgram = <<>>

-----------------------------------------------------------------------------
(* The block parser                                                        *)

Closers == {"elseif", "else", "endif", "endfor"}
TagAt(stmts, i) == IF i <= Len(stmts) THEN Tag(stmts[i]) ELSE "end"

BadBlock == [body |-> <<>>, next |-> 0]
IsBad(block) == block.next = 0
Block(body, next) == [body |-> body, next |-> next]

RECURSIVE ParseBlock(_, _, _), ParseIf(_, _, _)

\* The statements up to one that closes something.
ParseBlock(stmts, i, body) ==
    LET if == ParseIf(stmts, i, <<>>)
        loop == ParseBlock(stmts, i + 1, <<>>)
    IN  CASE TagAt(stmts, i) \in Closers \cup {"end"} -> Block(body, i)
          [] TagAt(stmts, i) = "if" ->
               IF IsBad(if) THEN BadBlock
               ELSE ParseBlock(stmts, if.next, body \o if.body)
          [] TagAt(stmts, i) = "for" ->
               IF IsBad(loop) \/ TagAt(stmts, loop.next) # "endfor" THEN BadBlock
               ELSE ParseBlock(stmts, loop.next + 1,
                               Append(body, <<"for", stmts[i][2], stmts[i][3], loop.body>>))
          [] OTHER -> ParseBlock(stmts, i + 1, Append(body, stmts[i]))

\* From an if or elseif at i, with the branches before it.
ParseIf(stmts, i, before) ==
    LET block == ParseBlock(stmts, i + 1, <<>>)
        branches == Append(before, <<stmts[i][2], block.body>>)
        otherwise == ParseBlock(stmts, block.next + 1, <<>>)
    IN  IF IsBad(block) THEN BadBlock
        ELSE CASE TagAt(stmts, block.next) = "elseif" -> ParseIf(stmts, block.next, branches)
               [] TagAt(stmts, block.next) = "endif" ->
                    Block(<<<<"if", branches, <<>>>>>>, block.next + 1)
               [] TagAt(stmts, block.next) = "else" ->
                    IF IsBad(otherwise) \/ TagAt(stmts, otherwise.next) # "endif" THEN BadBlock
                    ELSE Block(<<<<"if", branches, otherwise.body>>>>, otherwise.next + 1)
               [] OTHER -> BadBlock

ParseProgram(stmts) ==
    LET block == ParseBlock(stmts, 1, <<>>)
    IN  IF block.next = Len(stmts) + 1 THEN block ELSE BadBlock

-----------------------------------------------------------------------------
(* The interpreter: from a state to a state, where value is the value of   *)
(* the last statement and log the commands that ran.                       *)

Start == [vars |-> ScrParams, value |-> ScrNull, log |-> <<>>]
Broke(s) == s.value = ScrError
Yields(s, v) == [s EXCEPT !.value = v]
Assign(s, name, v) ==
    IF name = "" \/ v = ScrError THEN Yields(s, v)
    ELSE [s EXCEPT !.value = v, !.vars = (name :> v) @@ @]

\* In an argument that is text a variable that is not there stays as it is.
Substitute(parts, vars) ==
    FlattenSeq([i \in DOMAIN parts |->
        IF Tag(parts[i]) = "text" THEN parts[i][2]
        ELSE IF parts[i][2][1] \in DOMAIN vars THEN ArgText(ResolveVar(parts[i][2], vars))
        ELSE <<parts[i]>>])

Argument(arg, vars) ==
    IF Tag(arg) = "text" THEN ScrStr(Substitute(arg[2], vars)) ELSE EvalExpr(arg[2], vars)

\* One stage: its arguments, then the command, on what the stage before gave.
RunStage(s, stage) ==
    LET args == [i \in DOMAIN stage |-> Argument(stage[i], s.vars)]
        log == Append(s.log, <<args, s.value>>)
    IN  IF Broke(s) \/ \E i \in DOMAIN args : args[i] = ScrError THEN Yields(s, ScrError)
        ELSE [s EXCEPT !.log = log,
                       !.value = IF args[1] \in ScrFailing THEN ScrError ELSE ScrNum(Len(log))]

ExecutePipeline(s, stages) == FoldLeft(RunStage, Yields(s, ScrNull), stages)

\* The state after the source was evaluated, and the items it gives.
Source(s, source) ==
    CASE Tag(source) = "range" ->
           Yields(s, ScrArr([i \in 1..(source[3] - source[2]) |-> ScrNum(source[2] + i - 1)]))
      [] Tag(source) = "var" -> Yields(s, ResolveVar(source[2], s.vars))
      [] OTHER -> ExecutePipeline(s, source[2])

Items(v) ==
    CASE Tag(v) = "arr" -> v[2] [] Tag(v) = "null" -> <<>> [] OTHER -> <<v>>

MaxWait == 300
ExecWait(s, e) ==
    LET v == EvalExpr(e, s.vars)
    IN  IF Tag(v) = "num" /\ v[2] >= 0
        THEN Yields(s, ScrObj("waited_secs" :> ScrNum(IF v[2] > MaxWait THEN MaxWait ELSE v[2])))
        ELSE Yields(s, ScrError)

\* A variable as it was before a loop took its name.
Restored(s, name, vars) ==
    [s EXCEPT !.vars = IF name \in DOMAIN vars THEN (name :> vars[name]) @@ @
                       ELSE [n \in DOMAIN @ \ {name} |-> @[n]]]

RECURSIVE ExecStatement(_, _)

ExecBlock(s, body) == FoldLeft(ExecStatement, Yields(s, ScrNull), body)

\* What would break it: a loop that leaves its variable behind.
ExecForLeaks(s, name, items, body) ==
    FoldLeft(LAMBDA t, item : IF Broke(t) THEN t ELSE ExecBlock(Assign(t, name, item), body),
             Yields(s, ScrNull), items)

ExecFor(s, name, items, body) ==
    LET turn(t, item) == IF Broke(t) THEN t ELSE ExecBlock(Assign(t, name, item), body)
        done == FoldLeft(turn, Yields(s, ScrNull), items)
    IN  IF Broke(done) THEN done ELSE Restored(done, name, s.vars)

ExecStatement(s, stmt) ==
    IF Broke(s) THEN s
    ELSE CASE Tag(stmt) = "value" -> Assign(s, stmt[2], EvalExpr(stmt[3], s.vars))
           [] Tag(stmt) = "pipeline" ->
                (LET t == ExecutePipeline(s, stmt[3]) IN Assign(t, stmt[2], t.value))
           [] Tag(stmt) = "wait" -> ExecWait(s, stmt[2])
           [] Tag(stmt) = "for" ->
                (LET t == Source(s, stmt[3])
                 IN  IF Broke(t) THEN t ELSE ExecFor(t, stmt[2], Items(t.value), stmt[4]))
           [] Tag(stmt) = "if" ->
                LET values == [i \in DOMAIN stmt[2] |-> EvalExpr(stmt[2][i][1], s.vars)]
                    decides(i) == values[i] = ScrError \/ IsTruthy(values[i])
                    taken == {i \in DOMAIN values :
                                decides(i) /\ \A j \in 1..(i - 1) : ~decides(j)}
                IN  IF taken = {} THEN ExecBlock(s, stmt[3])
                    ELSE LET i == CHOOSE i \in taken : TRUE
                         IN  IF values[i] = ScrError THEN Yields(s, ScrError)
                             ELSE ExecBlock(s, stmt[2][i][2])

-----------------------------------------------------------------------------
(* The reference: which lists are scripts, and how one runs without a tree *)

\* The constructs still open after a list of statements; "bad" stays bad.
Opens(open, stmt) ==
    LET top == IF open = <<>> THEN "" ELSE Last(open)
    IN  CASE top = "bad" -> open
          [] Tag(stmt) \in {"if", "for"} -> Append(open, Tag(stmt))
          [] Tag(stmt) = "elseif" -> IF top = "if" THEN open ELSE <<"bad">>
          [] Tag(stmt) = "else" -> IF top = "if" THEN Append(Front(open), "else") ELSE <<"bad">>
          [] Tag(stmt) = "endif" -> IF top \in {"if", "else"} THEN Front(open) ELSE <<"bad">>
          [] Tag(stmt) = "endfor" -> IF top = "for" THEN Front(open) ELSE <<"bad">>
          [] OTHER -> open
OpenAfter(stmts) == FoldLeft(Opens, <<>>, stmts)

\* The next statement of these tags that belongs to the construct at i.
Partner(stmts, i, tags) ==
    CHOOSE j \in i + 1..Len(stmts) :
        /\ Tag(stmts[j]) \in tags
        /\ OpenAfter(SubSeq(stmts, i + 1, j - 1)) = <<>>

RECURSIVE Walk(_, _, _, _), Test(_, _, _, _)

\* A condition is tested: into the branch, or on to the next one.
Test(stmts, i, s, loops) ==
    LET v == EvalExpr(stmts[i][2], s.vars)
        j == Partner(stmts, i, {"elseif", "else", "endif"})
    IN  IF v = ScrError THEN Yields(s, v)
        ELSE IF IsTruthy(v) THEN Walk(stmts, i + 1, Yields(s, ScrNull), loops)
        ELSE IF Tag(stmts[j]) = "elseif" THEN Test(stmts, j, s, loops)
        ELSE Walk(stmts, j + 1, Yields(s, ScrNull), loops)

\* One turn of the innermost loop, or out of it.
Turn(stmts, s, loops) ==
    LET loop == Last(loops)
    IN  IF loop.items = <<>>
        THEN Walk(stmts, Partner(stmts, loop.at, {"endfor"}) + 1,
                  Restored(s, loop.name, loop.vars), Front(loops))
        ELSE Walk(stmts, loop.at + 1,
                  Yields(Assign(s, loop.name, Head(loop.items)), ScrNull),
                  Append(Front(loops), [loop EXCEPT !.items = Tail(@)]))

Walk(stmts, i, s, loops) ==
    IF i > Len(stmts) \/ Broke(s) THEN s
    ELSE CASE Tag(stmts[i]) = "if" -> Test(stmts, i, s, loops)
           [] Tag(stmts[i]) \in {"elseif", "else"} ->
                Walk(stmts, Partner(stmts, i, {"elseif", "else", "endif"}), s, loops)
           [] Tag(stmts[i]) = "endif" -> Walk(stmts, i + 1, s, loops)
           [] Tag(stmts[i]) = "for" ->
                LET t == Source(s, stmts[i][3])
                IN  IF Broke(t) THEN t
                    ELSE Turn(stmts, Yields(t, ScrNull),
                              Append(loops, [at |-> i, name |-> stmts[i][2],
                                             items |-> Items(t.value), vars |-> t.vars]))
           [] Tag(stmts[i]) = "endfor" -> Turn(stmts, s, loops)
           [] OTHER -> Walk(stmts, i + 1, ExecStatement(s, stmts[i]), loops)

-----------------------------------------------------------------------------

\* A script grows by a statement; one that cannot become a script any more
\* does not.
ScrWrite ==
    /\ Len(scrProgram) < MaxStatements
    /\ OpenAfter(scrProgram) # <<"bad">>
    /\ \E stmt \in ScrStatements : scrProgram' = Append(scrProgram, stmt)

\* The block parser accepts the lists whose constructs are closed in order and
\* no other, and running the tree it builds does what the statements say one
\* after the other: the same commands with the same arguments, the same
\* variables, the same value, the same error.
ScriptsRunAsWritten ==
    LET parsed == ParseProgram(scrProgram)
    IN  /\ ~IsBad(parsed) <=> OpenAfter(scrProgram) = <<>>
        /\ ~IsBad(parsed) => ExecBlock(Start, parsed.body) = Walk(scrProgram, 1, Start, <<>>)
=============================================================================
