----------------------------- MODULE ActionStore -----------------------------
(***************************************************************************)
(* The actions of one database, written by several processes.  Reads are   *)
(* redacted (Masking); a save reads the stored row, restores what comes    *)
(* back redacted from it, and writes the whole row in one statement.       *)
(* Opening the database seeds the built-in actions.                        *)
(*                                                                         *)
(* The optional fields of a row merge alike: caption stands for them.      *)
(***************************************************************************)
EXTENDS Masking

CONSTANTS
    ActThreads,    \* callers, of any process
    ActKeys,       \* full references of actions
    ActBuiltins,   \* those in the built-in catalogue
    ActCaptions,
    ActConfigs,    \* configs a caller may write of its own accord
    ActEdits,      \* a pair <<path, value>> a caller may put into what it read
    Omitted,       \* a field that is not given
    MaxActOps      \* bound on operations

ASSUME ActAssumption ==
    /\ ActBuiltins \subseteq ActKeys
    /\ Omitted \notin ActKeys \cup ActThreads
    /\ MaxActOps \in Nat

VARIABLES
    actRows,    \* key -> [caption, config, trusted, executable], or Omitted
    actView,    \* thread -> the config it got from a read, or Omitted
    actPc,      \* thread -> step
    actJob,     \* thread -> [key, input, row, new, guarded, alone, todo]
    actOps      \* operations so far

actVars == <<actRows, actView, actPc, actJob, actOps>>

NoActJob == [key |-> Omitted, input |-> NoConfig, row |-> Omitted, new |-> FALSE,
             guarded |-> FALSE, alone |-> TRUE, todo |-> {}]

Or(value, otherwise) == IF value = Omitted THEN otherwise ELSE value

\* A config with one value put in.
Edited(cfg, path, value) ==
    [p \in DOMAIN cfg \cup {path} |-> IF p = path THEN value ELSE cfg[p]]

\* The row that seed_builtins inserts.
BuiltinRow == [caption |-> Omitted, config |-> NoConfig, trusted |-> TRUE, executable |-> FALSE]

ActInit ==
    /\ actRows = [k \in ActKeys |-> IF k \in ActBuiltins THEN BuiltinRow ELSE Omitted]
    /\ actView = [t \in ActThreads |-> Omitted]
    /\ actPc = [t \in ActThreads |-> "idle"]
    /\ actJob = [t \in ActThreads |-> NoActJob]
    /\ actOps = 0

-----------------------------------------------------------------------------

ActBegin(t, step, job) ==
    /\ actPc[t] = "idle"
    /\ actOps < MaxActOps
    /\ actOps' = actOps + 1
    /\ actPc' = [actPc EXCEPT ![t] = step]
    /\ actJob' = [actJob EXCEPT ![t] = job]

\* t's statement on row k meets the other calls on it that have read already.
Meets(t, k) ==
    [s \in ActThreads |-> IF s = t THEN NoActJob
                          ELSE [actJob[s] EXCEPT !.alone = @ /\ actJob[s].key # k]]

\* get: what leaves the process is redacted.
GetAction(t, k) ==
    /\ actPc[t] = "idle"
    /\ actOps < MaxActOps
    /\ actOps' = actOps + 1
    /\ actRows[k] # Omitted
    /\ actView' = [actView EXCEPT ![t] = MaskConfig(actRows[k].config)]
    /\ UNCHANGED <<actRows, actPc, actJob>>

\* save reads the row and merges: a config that comes back redacted in a place
\* where nothing is stored is refused.  executable tells commands and webhooks
\* from the other action types.
SaveAction(t, k, input) ==
    LET found == actRows[k]
        before == IF found = Omitted
                  THEN [caption |-> Omitted, config |-> NoConfig, trusted |-> FALSE,
                        executable |-> FALSE]
                  ELSE found
        merged == [caption |-> Or(input.caption, before.caption),
                   config |-> IF input.config = Omitted THEN before.config
                              ELSE UnmaskMerge(input.config, before.config),
                   trusted |-> Or(input.trusted, before.trusted),
                   executable |-> Or(input.executable, before.executable)]
    IN  /\ actPc[t] \in {"idle", "guarded"}
        /\ input.config # Omitted => CanUnmask(input.config, before.config)
        /\ actPc' = [actPc EXCEPT ![t] = "write"]
        /\ actJob' = [actJob EXCEPT ![t].key = k, ![t].row = merged, ![t].new = found = Omitted,
                                    ![t].input = Or(input.config, NoConfig)]
        /\ UNCHANGED <<actRows, actView>>

ActInputs == [caption : ActCaptions \cup {Omitted}, config : ActConfigs \cup {Omitted},
              trusted : {TRUE, Omitted}, executable : BOOLEAN \cup {Omitted}]

\* The CLI and the server save directly, a config of their own or what they
\* got from a read, with an edit.
SaveFresh(t, k) ==
    /\ actPc[t] = "idle"
    /\ actOps < MaxActOps
    /\ actOps' = actOps + 1
    /\ \E input \in ActInputs : SaveAction(t, k, input)

SaveEdited(t, k) ==
    /\ actPc[t] = "idle"
    /\ actOps < MaxActOps
    /\ actOps' = actOps + 1
    /\ actView[t] # Omitted
    /\ \E edit \in ActEdits :
          SaveAction(t, k, [caption |-> Omitted, config |-> Edited(actView[t], edit[1], edit[2]),
                            trusted |-> Omitted, executable |-> Omitted])

\* What would break it: a guard that looks at what comes in only.
GuardSaveBlind(t, k) ==
    /\ ActBegin(t, "guarded", [NoActJob EXCEPT !.key = k, !.guarded = TRUE])
    /\ UNCHANGED <<actRows, actView>>

\* entity-save-action, for actions, scripts and MCP clients: what is there must
\* not be executable when it looks, nor what it is to become.
GuardSave(t, k) ==
    /\ actRows[k] # Omitted => ~actRows[k].executable
    /\ ActBegin(t, "guarded", [NoActJob EXCEPT !.key = k, !.guarded = TRUE])
    /\ UNCHANGED <<actRows, actView>>

SaveGuarded(t) ==
    /\ actPc[t] = "guarded"
    /\ \E input \in ActInputs :
          input.executable # TRUE /\ SaveAction(t, actJob[t].key, input)
    /\ UNCHANGED actOps

\* INSERT, which fails if the key has been taken, or UPDATE, which does nothing
\* if the row is gone.
WriteAction(t) ==
    LET k == actJob[t].key
        taken == actJob[t].new /\ actRows[k] # Omitted
        gone == ~actJob[t].new /\ actRows[k] = Omitted
    IN  /\ actPc[t] = "write"
        /\ actPc' = [actPc EXCEPT ![t] = "idle"]
        /\ actRows' = IF taken \/ gone THEN actRows ELSE [actRows EXCEPT ![k] = actJob[t].row]
        /\ actJob' = Meets(t, k)
        /\ actView' = [actView EXCEPT ![t] = Omitted]
        /\ UNCHANGED actOps

DeleteAction(k) ==
    /\ actOps < MaxActOps
    /\ actOps' = actOps + 1
    /\ actRows[k] # Omitted
    /\ actRows' = [actRows EXCEPT ![k] = Omitted]
    /\ actJob' = Meets(Omitted, k)
    /\ UNCHANGED <<actView, actPc>>

\* entity-delete-action looks and then deletes, too.
DeleteGuarded(t) ==
    /\ actPc[t] = "guarded"
    /\ actPc' = [actPc EXCEPT ![t] = "idle"]
    /\ actRows' = [actRows EXCEPT ![actJob[t].key] = Omitted]
    /\ actJob' = Meets(t, actJob[t].key)
    /\ UNCHANGED <<actView, actOps>>

\* open runs seed_builtins: INSERT OR IGNORE of each built-in.
OpenActions(t) ==
    /\ ActBegin(t, "seed", [NoActJob EXCEPT !.todo = ActBuiltins])
    /\ UNCHANGED <<actRows, actView>>

SeedAction(t) ==
    /\ actPc[t] = "seed"
    /\ \E k \in actJob[t].todo :
          /\ actRows' = IF actRows[k] = Omitted THEN [actRows EXCEPT ![k] = BuiltinRow] ELSE actRows
          /\ actJob' = [s \in ActThreads |->
                          IF s = t THEN [actJob[t] EXCEPT !.todo = @ \ {k}]
                          ELSE [actJob[s] EXCEPT !.alone = @ /\ actJob[s].key # k]]
    /\ UNCHANGED <<actView, actPc, actOps>>

ActionsOpen(t) ==
    /\ actPc[t] = "seed"
    /\ actJob[t].todo = {}
    /\ actPc' = [actPc EXCEPT ![t] = "idle"]
    /\ UNCHANGED <<actRows, actView, actJob, actOps>>

ActNext ==
    \/ \E t \in ActThreads :
          \/ \E k \in ActKeys : GetAction(t, k) \/ SaveFresh(t, k) \/ SaveEdited(t, k)
                                  \/ GuardSave(t, k)
          \/ SaveGuarded(t) \/ DeleteGuarded(t) \/ WriteAction(t) \/ OpenActions(t) \/ SeedAction(t) \/ ActionsOpen(t)
    \/ \E k \in ActKeys : DeleteAction(k)

ActSpec == ActInit /\ [][ActNext]_actVars

-----------------------------------------------------------------------------

ActTypeOK ==
    /\ actPc \in [ActThreads -> {"idle", "guarded", "write", "seed"}]
    /\ \A k \in ActKeys : actRows[k] # Omitted =>
          /\ DOMAIN actRows[k] = {"caption", "config", "trusted", "executable"}
          /\ actRows[k].caption \in ActCaptions \cup {Omitted}
          /\ {actRows[k].trusted, actRows[k].executable} \subseteq BOOLEAN

\* The sentinel is never stored, whatever mixture of reads, edits, deletions
\* and concurrent saves a config has come through.
NoMaskStored ==
    \A k \in ActKeys : actRows[k] # Omitted => Echoes(actRows[k].config) = {}

\* A secret that left the process only as its sentinel is neither lost nor
\* replaced by the sentinel on the way back: no step stores the sentinel, a
\* save keeps every secret it echoes as it is stored at that moment, and a
\* seeding keeps every row, unless another statement hit the row after the
\* save had read it (LocalActionManager::save, seed_builtins).
SecretsSurviveEcho ==
    [][/\ NoMaskStored'
       /\ \A t \in ActThreads :
            LET job == actJob[t]
                k == job.key
            IN  /\ actPc[t] = "write" /\ actPc'[t] = "idle" /\ job.alone /\ ~job.new =>
                      \A p \in Echoes(job.input) : \A q \in Stored(actRows[k].config, p) :
                         q \in DOMAIN actRows'[k].config
                           /\ actRows'[k].config[q] = actRows[k].config[q]
                /\ actPc[t] = "seed" /\ actJob'[t] # job =>
                      \A b \in ActKeys : actRows[b] # Omitted => actRows'[b] = actRows[b]]_actVars

\* What comes in through entity-save-action neither changes an executable
\* action nor makes one, unless another statement hit the row after the guard
\* had looked.
GuardHolds ==
    [][\A t \in ActThreads :
         actPc[t] # "idle" /\ actPc'[t] = "idle" /\ actJob[t].guarded /\ actJob[t].alone =>
             \A row \in {actRows[actJob[t].key], actRows'[actJob[t].key]} :
                row # Omitted => ~row.executable]_actVars
=============================================================================
