----------------------------- MODULE TypeStore -----------------------------
(***************************************************************************)
(* The type registry: rows of one database that several processes open,    *)
(* which seeds the built-in types, and save to, which reads a row, merges  *)
(* and writes.  A schema is told apart only by whether it compiles.        *)
(***************************************************************************)
EXTENDS Naturals

CONSTANTS
    TypThreads,    \* callers, of any process
    TypKeys,       \* full references of types
    TypBuiltins,   \* those in the built-in catalogue
    TypSchemas,    \* schemas that compile
    TypBroken,     \* one that does not
    TypTexts,      \* descriptions; groups merge alike
    Builtin,       \* schema and description of a built-in
    Missing,       \* a field that is not given, a row that is not there
    MaxTypOps      \* bound on operations

ASSUME TypAssumption == TypBuiltins \subseteq TypKeys /\ MaxTypOps \in Nat

VARIABLES
    typRows,     \* key -> [schema, text], or Missing
    typPc,       \* thread -> step
    typJob,      \* thread -> [key, row, new, todo]
    typEdited,   \* key -> the row as it was last written or deleted by a caller
    typOps       \* operations so far

typVars == <<typRows, typPc, typJob, typEdited, typOps>>

NoTypJob == [key |-> Missing, row |-> Missing, new |-> FALSE, todo |-> {}]
Either(value, otherwise) == IF value = Missing THEN otherwise ELSE value
BuiltinType == [schema |-> Builtin, text |-> Builtin]

TypInit ==
    /\ typRows = [k \in TypKeys |-> Missing]
    /\ typPc = [t \in TypThreads |-> "idle"]
    /\ typJob = [t \in TypThreads |-> NoTypJob]
    /\ typEdited = [k \in TypKeys |-> Missing]
    /\ typOps = 0

-----------------------------------------------------------------------------

TypBegin(t, step, job) ==
    /\ typPc[t] = "idle"
    /\ typOps < MaxTypOps
    /\ typOps' = typOps + 1
    /\ typPc' = [typPc EXCEPT ![t] = step]
    /\ typJob' = [typJob EXCEPT ![t] = job]
    /\ UNCHANGED <<typRows, typEdited>>

\* open, and seed_builtins: INSERT OR IGNORE, one by one.
OpenTypes(t) == TypBegin(t, "seed", [NoTypJob EXCEPT !.todo = TypBuiltins])

SeedType(t) ==
    /\ typPc[t] = "seed"
    /\ \E k \in typJob[t].todo :
          /\ typRows' = [typRows EXCEPT ![k] = Either(@, BuiltinType)]
          /\ typJob' = [typJob EXCEPT ![t].todo = @ \ {k}]
          /\ typPc' = [typPc EXCEPT ![t] = IF typJob[t].todo = {k} THEN "idle" ELSE "seed"]
    /\ UNCHANGED <<typEdited, typOps>>

\* save reads and merges; a new type needs a schema, and it must compile.
SaveType(t, k, schema, text) ==
    LET found == Either(typRows[k], [schema |-> Missing, text |-> Missing])
        row == [schema |-> Either(schema, found.schema), text |-> Either(text, found.text)]
    IN  /\ row.schema \notin {Missing, TypBroken}
        /\ TypBegin(t, "write", [NoTypJob EXCEPT !.key = k, !.row = row,
                                                 !.new = typRows[k] = Missing])

\* INSERT, which fails if the key has been taken, or UPDATE, which does nothing
\* if the row is gone.
WriteType(t) ==
    LET k == typJob[t].key
        done == typJob[t].new <=> typRows[k] = Missing
    IN  /\ typPc[t] = "write"
        /\ typPc' = [typPc EXCEPT ![t] = "idle"]
        /\ typJob' = [typJob EXCEPT ![t] = NoTypJob]
        /\ typRows' = IF done THEN [typRows EXCEPT ![k] = typJob[t].row] ELSE typRows
        /\ typEdited' = IF done THEN [typEdited EXCEPT ![k] = typJob[t].row] ELSE typEdited
        /\ UNCHANGED typOps

DeleteType(k) ==
    /\ typOps < MaxTypOps
    /\ typOps' = typOps + 1
    /\ typRows[k] # Missing
    /\ typRows' = [typRows EXCEPT ![k] = Missing]
    /\ typEdited' = [typEdited EXCEPT ![k] = Missing]
    /\ UNCHANGED <<typPc, typJob>>

\* The process of t dies.
TypCrash(t) ==
    /\ typPc[t] # "idle"
    /\ typPc' = [typPc EXCEPT ![t] = "idle"]
    /\ typJob' = [typJob EXCEPT ![t] = NoTypJob]
    /\ UNCHANGED <<typRows, typEdited, typOps>>

TypNext ==
    \/ \E t \in TypThreads :
          \/ OpenTypes(t) \/ SeedType(t) \/ WriteType(t) \/ TypCrash(t)
          \/ \E k \in TypKeys, schema \in TypSchemas \cup {TypBroken, Missing},
                text \in TypTexts \cup {Missing} : SaveType(t, k, schema, text)
    \/ \E k \in TypKeys : DeleteType(k)

TypSpec == TypInit /\ [][TypNext]_typVars

-----------------------------------------------------------------------------

TypRow == [schema : TypSchemas \cup {Builtin}, text : TypTexts \cup {Builtin, Missing}]

TypTypeOK ==
    /\ typRows \in [TypKeys -> TypRow \cup {Missing}]
    /\ typEdited \in [TypKeys -> TypRow \cup {Missing}]
    /\ typPc \in [TypThreads -> {"idle", "seed", "write"}]

\* Seeding, in whichever process and however often it is repeated or cut off,
\* never undoes what a caller has saved; it only brings back a built-in that
\* is not there, and nothing that is not a built-in.
EditsSurviveSeeding ==
    \A k \in TypKeys :
        \/ typRows[k] = typEdited[k]
        \/ typEdited[k] = Missing /\ k \in TypBuiltins /\ typRows[k] = BuiltinType
=============================================================================
