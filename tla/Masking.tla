------------------------------- MODULE Masking -------------------------------
(***************************************************************************)
(* Redaction of an action_config on its way out, and its restoration on    *)
(* the way back in.  A config is a function from the paths of its leaves   *)
(* (object keys, and indices in arrays) to their values; one that is not   *)
(* an object or is not there is the empty function.                        *)
(***************************************************************************)
EXTENDS Naturals, Sequences

CONSTANTS
    Mask,           \* the sentinel "***"
    VisibleKeys,    \* AUTH_VISIBLE, and the keys that end in _env
    Indices,        \* array indices
    Scalars         \* leaf values that are not strings

NoConfig == <<>>

IsIndex(step) == step \in Indices
StartsWith(path, prefix) ==
    Len(prefix) <= Len(path) /\ SubSeq(path, 1, Len(prefix)) = prefix

\* mask_action_config: any string under secrets; under auth the strings that
\* are an object's, unless a visible key is on the way to them.
IsProtected(path) ==
    \/ path[1] = "secrets"
    \/ /\ path[1] = "auth"
       /\ Len(path) > 1
       /\ ~IsIndex(path[Len(path)])
       /\ \A i \in 2..Len(path) : IsIndex(path[i]) \/ path[i] \notin VisibleKeys

MaskConfig(cfg) ==
    [p \in DOMAIN cfg |-> IF IsProtected(p) /\ cfg[p] \notin Scalars THEN Mask ELSE cfg[p]]

\* unmask_merge: a sentinel stands for all that is stored at its path, and is
\* an error where nothing is.
Stored(cfg, path) == {q \in DOMAIN cfg : StartsWith(q, path)}
Echoes(incoming) == {p \in DOMAIN incoming : incoming[p] = Mask}

CanUnmask(incoming, existing) == \A p \in Echoes(incoming) : Stored(existing, p) # {}

\* What would break it: a sentinel that is stored as it comes.
UnmaskMergeNot(incoming, existing) == incoming

UnmaskMerge(incoming, existing) ==
    LET restored == UNION {Stored(existing, p) : p \in Echoes(incoming)}
    IN  [p \in (DOMAIN incoming \ Echoes(incoming)) \cup restored |->
            IF p \in restored THEN existing[p] ELSE incoming[p]]

-----------------------------------------------------------------------------

\* Whatever is read and written back unchanged is stored unchanged, and what
\* is read shows no protected string of two configs that differ only there.
RoundTrip(cfg) ==
    /\ CanUnmask(MaskConfig(cfg), cfg)
    /\ UnmaskMerge(MaskConfig(cfg), cfg) = cfg

MaskHides(cfg) ==
    \A p \in DOMAIN cfg : IsProtected(p) => MaskConfig(cfg)[p] \in Scalars \cup {Mask}
=============================================================================
