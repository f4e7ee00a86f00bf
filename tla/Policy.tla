------------------------------- MODULE Policy -------------------------------
(***************************************************************************)
(* The decisions about actions that the config's rules make: which ones a  *)
(* model sees and may call, and which it must ask about.                   *)
(***************************************************************************)
EXTENDS Integers, Sequences, SequencesExt

CapHidden == "solx:hidden"
CapDestructive == "solx:destructive"

-----------------------------------------------------------------------------
(* Globs: the loop with two pointers, which goes back to the last star     *)

\* p and t are the pointers, star is the position of the last star, 0 before
\* one, and mark is where what it stands for ends.
GlobStart == [p |-> 1, t |-> 1, star |-> 0, mark |-> 1]
\* One turn of the loop; it stays where it is when it is over, at the end of
\* the text or at a character that nothing matches.
GlobStep(pattern, text, s) ==
    IF s.t > Len(text) THEN s
    ELSE IF s.p <= Len(pattern) /\ pattern[s.p] \in {"?", text[s.t]}
    THEN [s EXCEPT !.p = @ + 1, !.t = @ + 1]
    ELSE IF s.p <= Len(pattern) /\ pattern[s.p] = "*"
    THEN [p |-> s.p + 1, t |-> s.t, star |-> s.p, mark |-> s.t]
    ELSE IF s.star # 0
    THEN [s EXCEPT !.p = s.star + 1, !.t = s.mark + 1, !.mark = s.mark + 1]
    ELSE s

\* More turns than the loop takes: with each a star is passed, the last star
\* stands for one more character, or t moves on.
GlobTurns(pattern, text) == (Len(pattern) + Len(text) + 1) * (Len(text) + 2)

GlobMatches(pattern, text) ==
    LET loop[n \in Nat] == IF n = 0 THEN GlobStart ELSE GlobStep(pattern, text, loop[n - 1])
        end == loop[GlobTurns(pattern, text)]
    IN  end.t > Len(text) /\ \A i \in end.p..Len(pattern) : pattern[i] = "*"

\* The reference: a pattern stands for a text that it cuts up, a piece of any
\* length for each star and the character itself, or any for "?", elsewhere.
\* The piece of the k-th character of the pattern ends at cut[k].
Cuts(pattern, text, i, j) ==
    {cut \in [0..i -> 0..j] :
        /\ cut[0] = 0 /\ cut[i] = j
        /\ \A k \in 1..i : IF pattern[k] = "*" THEN cut[k - 1] <= cut[k]
                           ELSE cut[k] = cut[k - 1] + 1 /\ pattern[k] \in {"?", text[cut[k]]}}
Denotes(pattern, text) == Cuts(pattern, text, Len(pattern), Len(text)) # {}

\* A pattern matches only what it stands for, and all of it, at least where
\* the text has no star of its own.
GlobLaw(pattern, text) ==
    /\ GlobMatches(pattern, text) => Denotes(pattern, text)
    /\ Denotes(pattern, text) /\ "*" \notin ToSet(text) => GlobMatches(pattern, text)

-----------------------------------------------------------------------------
(* ToolRule and ToolPolicy                                                 *)

\* A rule without action names, or with an empty list of them, is about all
\* the actions at the paths it matches.
RuleMatches(rule, action) ==
    /\ GlobMatches(rule.path, action.path)
    /\ rule.actions = {} \/ action.name \in rule.actions

IsHidden(rules, action) ==
    CapHidden \in action.capabilities \/ \E r \in rules : RuleMatches(r, action)

IsDestructive(rules, action) ==
    \/ action.type \in {"Command", "Webhook"}
    \/ CapDestructive \in action.capabilities
    \/ \E r \in rules : RuleMatches(r, action)

\* More rules hide more and never less, and no edit of a row that a rule
\* matches, or of one that runs a command, takes the mark off it.
PolicyLaw(rules, more, action, edited) ==
    LET kept == [action EXCEPT !.capabilities = edited]
    IN  /\ IsHidden(rules, action) => IsHidden(rules \cup more, action)
        /\ IsDestructive(rules, action) => IsDestructive(rules \cup more, action)
        /\ (\E r \in rules : Denotes(r.path, action.path) /\ r.actions = {} /\ "*" \notin ToSet(action.path))
             => IsHidden(rules, kept) /\ IsDestructive(rules, kept)
        /\ action.type = "Command" => IsDestructive({}, kept)

=============================================================================
