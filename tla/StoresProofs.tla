---------------------------- MODULE StoresProofs ----------------------------
(* Theorems about the stores that several processes or threads write: for    *)
(* every set of callers, keys and values and every value of the bounds.      *)
EXTENDS Stores, ConfigProofs, DocFields, NaturalOrder, FiniteSetTheorems, SequenceTheorems, TLAPS

------------------------------------------------------------------------------
(* The scoped secrets                                                        *)

\* What some get is about to delete is not promised any more, unless it was set
\* since; of that the get knows nothing, but the model does.
SecHeals == [name : SecNames, key : SecKeys, met : BOOLEAN]
SecHealing ==
    /\ secHealing \in [SecThreads -> SecHeals \cup {NoEntry}]
    /\ \A t \in SecThreads :
          secHealing[t] # NoEntry /\ ~secHealing[t].met => secKept[secHealing[t].name] = NoEntry

SecInv == SecTypeOK /\ SecHealing /\ SecretsStay

\* Each call keeps it.
LEMMA SecStep ==
  ASSUME SecInv, NEW t \in SecThreads,
         \/ \E n \in SecNames, key \in SecKeys \cup {BadKey} :
               GetSecret(t, n, key) \/ \E value \in SecValues : SetSecret(t, n, value, key)
         \/ \E n \in SecNames : DeleteSecret(t, n)
         \/ HealSecret(t)
  PROVE  SecInv'
<1> USE DEF SecInv, SecTypeOK, SecHealing, SecretsStay
<1>1. ASSUME NEW n \in SecNames, NEW key \in SecKeys \cup {BadKey}, GetSecret(t, n, key)
      PROVE  SecInv'
  <2> DEFINE heals == key # BadKey /\ secEntries[n] # NoEntry /\ secEntries[n].key # key
  <2>1. /\ secHealing' = [secHealing EXCEPT ![t] = IF heals THEN [name |-> n, key |-> key, met |-> FALSE]
                                                   ELSE NoEntry]
        /\ secKept' = IF heals THEN [secKept EXCEPT ![n] = NoEntry] ELSE secKept
        /\ secEntries' = secEntries
    BY <1>1 DEF GetSecret
  <2>2. heals => key \in SecKeys
    OBVIOUS
  <2> HIDE DEF heals
  <2>3. SecTypeOK' /\ SecretsStay'
    BY <2>1
  <2>4. secHealing' \in [SecThreads -> SecHeals \cup {NoEntry}]
    BY <2>1, <2>2 DEF SecHeals
  <2>5. ASSUME NEW s \in SecThreads, secHealing'[s] # NoEntry, ~secHealing'[s].met
        PROVE  secKept'[secHealing'[s].name] = NoEntry
    <3>1. CASE s = t
      <4>1. heals /\ secHealing'[s].name = n
        BY <2>1, <2>5, <3>1
      <4> QED
        BY <2>1, <4>1
    <3>2. CASE s # t
      <4>1. secHealing'[s] = secHealing[s] /\ secHealing[s].name \in SecNames
        BY <2>1, <2>5, <3>2 DEF SecHeals
      <4> QED
        BY <2>1, <2>5, <4>1
    <3> QED
      BY <3>1, <3>2
  <2> QED
    BY <2>3, <2>4, <2>5
<1>2. ASSUME NEW n \in SecNames, NEW key \in SecKeys \cup {BadKey}, NEW value \in SecValues,
             SetSecret(t, n, value, key)
      PROVE  SecInv'
  <2>1. CASE key = BadKey
    <3>1. UNCHANGED <<secEntries, secKept, secHealing>>
      BY <1>2, <2>1 DEF SetSecret
    <3> QED
      BY <3>1
  <2>2. CASE key # BadKey
    <3> DEFINE entry == [value |-> value, key |-> key]
           set(heal) == [heal EXCEPT !.met = TRUE]
    <3>1. /\ secEntries' = [secEntries EXCEPT ![n] = entry]
          /\ secKept' = [secKept EXCEPT ![n] = entry]
          /\ secHealing' = [u \in SecThreads |->
               IF secHealing[u] # NoEntry /\ secHealing[u].name = n THEN set(secHealing[u]) ELSE secHealing[u]]
      BY <1>2, <2>2 DEF SetSecret
    <3>2. entry \in [value : SecValues, key : SecKeys]
      BY <2>2
    <3>3. \A heal \in SecHeals : set(heal) \in SecHeals /\ set(heal).met
      BY DEF SecHeals
    <3> HIDE DEF entry, set
    <3>4. SecTypeOK' /\ SecretsStay'
      BY <3>1, <3>2
    <3>5. secHealing' \in [SecThreads -> SecHeals \cup {NoEntry}]
      BY <3>1, <3>3
    <3>6. ASSUME NEW s \in SecThreads, secHealing'[s] # NoEntry, ~secHealing'[s].met
          PROVE  secKept'[secHealing'[s].name] = NoEntry
      <4>1. /\ secHealing[s] # NoEntry /\ secHealing[s].name # n
            /\ secHealing'[s] = secHealing[s]
        BY <3>1, <3>3, <3>6
      <4>2. secHealing[s].name \in SecNames
        BY <4>1 DEF SecHeals
      <4> QED
        BY <3>1, <3>6, <4>1, <4>2
    <3> QED
      BY <3>4, <3>5, <3>6
  <2> QED
    BY <2>1, <2>2
<1>3. ASSUME NEW n \in SecNames, DeleteSecret(t, n)
      PROVE  SecInv'
  BY <1>3 DEF DeleteSecret, SecHeals
<1>4. CASE HealSecret(t)
  <2> DEFINE name == secHealing[t].name
  <2>1. /\ secHealing[t] # NoEntry /\ secHealing[t] \in SecHeals /\ name \in SecNames
        /\ secEntries' = [secEntries EXCEPT ![name] = NoEntry]
        /\ secKept' = IF secHealing[t].met THEN [secKept EXCEPT ![name] = NoEntry] ELSE secKept
        /\ secHealing' = [secHealing EXCEPT ![t] = NoEntry]
    BY <1>4 DEF HealSecret, SecHeals
  <2>2. secKept' = [secKept EXCEPT ![name] = NoEntry]
    BY <2>1
  <2>3. SecTypeOK' /\ SecretsStay'
    BY <2>1, <2>2
  <2>4. ASSUME NEW s \in SecThreads, secHealing'[s] # NoEntry, ~secHealing'[s].met
        PROVE  secKept'[secHealing'[s].name] = NoEntry
    <3>1. secHealing'[s] = secHealing[s] /\ secHealing[s].name \in SecNames
      BY <2>1, <2>4 DEF SecHeals
    <3> QED
      BY <2>2, <2>4, <3>1
  <2>5. secHealing' \in [SecThreads -> SecHeals \cup {NoEntry}]
    BY <2>1
  <2> QED
    BY <2>3, <2>4, <2>5
<1> QED
  BY <1>1, <1>2, <1>3, <1>4

\* A secret stays as it was set until a deletion, a get that reads it with
\* another valid key, or a get that had read, before it was set, an entry its
\* own key did not open: get_secret, set_secret, delete_secret.
THEOREM SecInvariant == SecSpec => [](SecTypeOK /\ SecretsStay)
<1>1. SecInit => SecInv
  BY DEF SecInit, SecInv, SecTypeOK, SecHealing, SecretsStay
<1>2. SecInv /\ [SecNext]_secVars => SecInv'
  <2> SUFFICES ASSUME SecInv, [SecNext]_secVars PROVE SecInv'
    OBVIOUS
  <2>1. CASE SecNext
    BY <2>1, SecStep DEF SecNext
  <2>2. CASE UNCHANGED secVars
    BY <2>2 DEF secVars, SecInv, SecTypeOK, SecHealing, SecretsStay
  <2> QED
    BY <2>1, <2>2
<1>3. SecInv => SecTypeOK /\ SecretsStay
  BY DEF SecInv
<1> QED
  BY <1>1, <1>2, <1>3, PTL DEF SecSpec

------------------------------------------------------------------------------
(* The type registry                                                         *)

\* What a seeding still has to do is built-in; what a save will write is a row.
TypJobs ==
    /\ DOMAIN typJob = TypThreads
    /\ \A t \in TypThreads :
          /\ DOMAIN typJob[t] = {"key", "row", "new", "todo"}
          /\ typJob[t].todo \subseteq TypBuiltins
          /\ typPc[t] = "write" => typJob[t].key \in TypKeys /\ typJob[t].row \in TypRow

TypInv == TypTypeOK /\ TypJobs /\ EditsSurviveSeeding

\* Each statement keeps it.
LEMMA TypStep ==
  ASSUME TypInv, TypNext
  PROVE  TypInv'
<1> USE TypAssumption DEF TypInv, TypTypeOK, TypJobs
<1>1. ASSUME NEW t \in TypThreads, NEW step \in {"seed", "write"}, NEW job,
             TypBegin(t, step, job), DOMAIN job = {"key", "row", "new", "todo"},
             job.todo \subseteq TypBuiltins, step = "write" => job.key \in TypKeys /\ job.row \in TypRow
      PROVE  TypInv'
  <2>1. /\ typPc' = [typPc EXCEPT ![t] = step] /\ typJob' = [typJob EXCEPT ![t] = job]
        /\ typRows' = typRows /\ typEdited' = typEdited
    BY <1>1 DEF TypBegin
  <2>2. EditsSurviveSeeding'
    BY <2>1 DEF EditsSurviveSeeding
  <2>3. TypTypeOK'
    BY <2>1
  <2>4. TypJobs'
    BY <1>1, <2>1
  <2> QED
    BY <2>2, <2>3, <2>4
<1>2. ASSUME NEW t \in TypThreads, OpenTypes(t)
      PROVE  TypInv'
  <2> DEFINE job == [NoTypJob EXCEPT !.todo = TypBuiltins]
  <2>1. DOMAIN job = {"key", "row", "new", "todo"} /\ job.todo \subseteq TypBuiltins
    BY DEF NoTypJob
  <2>2. TypBegin(t, "seed", job)
    BY <1>2 DEF OpenTypes
  <2> HIDE DEF job
  <2> QED
    BY <1>1, <2>1, <2>2
<1>3. ASSUME NEW t \in TypThreads, SeedType(t)
      PROVE  TypInv'
  <2>1. PICK k \in typJob[t].todo :
          /\ typRows' = [typRows EXCEPT ![k] = Either(@, BuiltinType)]
          /\ typJob' = [typJob EXCEPT ![t].todo = @ \ {k}]
          /\ typPc' = [typPc EXCEPT ![t] = IF typJob[t].todo = {k} THEN "idle" ELSE "seed"]
          /\ typEdited' = typEdited
    BY <1>3 DEF SeedType
  <2>2. k \in TypBuiltins /\ k \in TypKeys
    BY <2>1
  <2>3. BuiltinType \in TypRow
    BY DEF BuiltinType, TypRow
  <2>4. TypTypeOK'
    BY <2>1, <2>2, <2>3 DEF Either
  <2>5. TypJobs'
    BY <1>3, <2>1 DEF SeedType
  <2>6. EditsSurviveSeeding'
    BY <2>1, <2>2 DEF EditsSurviveSeeding, Either
  <2> QED
    BY <2>4, <2>5, <2>6
<1>4. ASSUME NEW t \in TypThreads, NEW k \in TypKeys, NEW schema \in TypSchemas \cup {TypBroken, Missing},
             NEW text \in TypTexts \cup {Missing}, SaveType(t, k, schema, text)
      PROVE  TypInv'
  <2> DEFINE found == Either(typRows[k], [schema |-> Missing, text |-> Missing])
             row == [schema |-> Either(schema, found.schema), text |-> Either(text, found.text)]
             job == [NoTypJob EXCEPT !.key = k, !.row = row, !.new = typRows[k] = Missing]
  <2>1. row.schema \notin {Missing, TypBroken} /\ TypBegin(t, "write", job)
    BY <1>4 DEF SaveType
  <2>2. row \in TypRow
    <3>1. typRows[k] \in TypRow \/ typRows[k] = Missing
      OBVIOUS
    <3>2. found.text \in TypTexts \cup {Builtin, Missing}
          /\ found.schema \in TypSchemas \cup {Builtin, Missing}
      BY <3>1 DEF Either, TypRow
    <3> HIDE DEF found
    <3>3. Either(text, found.text) \in TypTexts \cup {Builtin, Missing}
      BY <3>2 DEF Either
    <3>4. Either(schema, found.schema) \in TypSchemas \cup {Builtin}
      BY <2>1, <3>2 DEF Either
    <3> QED
      BY <3>3, <3>4 DEF TypRow
  <2> HIDE DEF row
  <2>3. /\ DOMAIN job = {"key", "row", "new", "todo"} /\ job.todo \subseteq TypBuiltins
        /\ job.key = k /\ job.row = row
    BY DEF NoTypJob
  <2> HIDE DEF job
  <2> QED
    BY <1>1, <2>1, <2>2, <2>3
<1>5. ASSUME NEW t \in TypThreads, WriteType(t)
      PROVE  TypInv'
  <2> DEFINE k == typJob[t].key
             done == typJob[t].new <=> typRows[k] = Missing
  <2>1. /\ k \in TypKeys /\ typJob[t].row \in TypRow
        /\ typPc' = [typPc EXCEPT ![t] = "idle"] /\ typJob' = [typJob EXCEPT ![t] = NoTypJob]
        /\ typRows' = IF done THEN [typRows EXCEPT ![k] = typJob[t].row] ELSE typRows
        /\ typEdited' = IF done THEN [typEdited EXCEPT ![k] = typJob[t].row] ELSE typEdited
    BY <1>5 DEF WriteType
  <2> HIDE DEF done
  <2>2. TypTypeOK'
    BY <2>1
  <2>3. TypJobs'
    BY <2>1 DEF NoTypJob
  <2>4. EditsSurviveSeeding'
    BY <2>1 DEF EditsSurviveSeeding
  <2> QED
    BY <2>2, <2>3, <2>4
<1>6. ASSUME NEW t \in TypThreads, TypCrash(t)
      PROVE  TypInv'
  BY <1>6 DEF TypCrash, NoTypJob, EditsSurviveSeeding
<1>7. ASSUME NEW k \in TypKeys, DeleteType(k)
      PROVE  TypInv'
  BY <1>7 DEF DeleteType, EditsSurviveSeeding
<1> QED
  BY <1>2, <1>3, <1>4, <1>5, <1>6, <1>7 DEF TypNext

\* Seeding the built-in types never undoes what a caller has saved: INSERT OR
\* IGNORE, in whichever process, repeated or cut off.
THEOREM TypInvariant == TypSpec => [](TypTypeOK /\ EditsSurviveSeeding)
<1>1. TypInit => TypInv
  BY TypAssumption DEF TypInit, TypInv, TypTypeOK, TypJobs, NoTypJob, EditsSurviveSeeding
<1>2. TypInv /\ [TypNext]_typVars => TypInv'
  <2> SUFFICES ASSUME TypInv, [TypNext]_typVars PROVE TypInv'
    OBVIOUS
  <2>1. CASE UNCHANGED typVars
    BY <2>1 DEF typVars, TypInv, TypTypeOK, TypJobs, EditsSurviveSeeding
  <2> QED
    BY <2>1, TypStep
<1>3. TypInv => TypTypeOK /\ EditsSurviveSeeding
  BY DEF TypInv
<1> QED
  BY <1>1, <1>2, <1>3, PTL DEF TypSpec

------------------------------------------------------------------------------
(* The file store                                                            *)

\* The directories that a put still has to make, each below the one before it.
FilChain(job) ==
    /\ job.dirs \in Seq(FilDirs \cup {FilRoot})
    /\ job.dirs # <<>> => FilParent[job.file] = job.dirs[Len(job.dirs)]
    /\ \A i \in 1..(Len(job.dirs) - 1) :
          job.dirs[i + 1] \in FilDirs /\ FilParent[job.dirs[i + 1]] = job.dirs[i]

\* What a thread works on at each step.
FilJobOK(pc, job) ==
    /\ DOMAIN job = {"file", "bytes", "dirs", "down", "todo"}
    /\ job.file \in FilNames \cup {FilNone} /\ job.todo \subseteq FilNames
    /\ pc \in {"mkdir", "fill", "remove", "look", "prune"} => job.file \in FilNames
    /\ pc \in {"mkdir", "fill"} => job.bytes \in FilThreads \X Nat
    /\ pc = "mkdir" => FilChain(job)
    /\ pc \in {"look", "prune"} => \E d \in FilDirs \cup {FilRoot} : job.dirs = <<d>>
    /\ pc = "prune" => Head(job.dirs) \in FilDirs

FilJobs ==
    /\ filOps \in Nat
    /\ DOMAIN filJob = FilThreads
    /\ \A t \in FilThreads : FilJobOK(filPc[t], filJob[t])

FilParents ==
    /\ \A f \in FilNames : filBytes[f] # FilNone => FilThere(FilParent[f])
    /\ \A d \in filTree : FilThere(FilParent[d])

\* Nothing is known of a file while somebody is about to write or remove it.
FilKeeps ==
    /\ DOMAIN filBytes = FilNames /\ DOMAIN filKept = FilNames
    /\ \A f \in FilNames : /\ filKept[f] # FilNone => filBytes[f] = filKept[f]
                           /\ FilWriters(f) # {} => filKept[f] = FilNone

\* A put is about to make something in the directory, or a delete to look at it.
TendsBy(pc, job, d) ==
    \/ pc = "mkdir" /\ job.dirs # <<>> /\ Head(job.dirs) # FilRoot /\ FilParent[Head(job.dirs)] = d
    \/ pc = "mkdir" /\ job.dirs = <<>> /\ FilParent[job.file] = d
    \/ pc \in {"look", "prune"} /\ Head(job.dirs) = d

FilTended ==
    \/ filLitter
    \/ \A d \in filTree :
          FilChildren(d) # {} \/ \E t \in FilThreads : TendsBy(filPc[t], filJob[t], d)

FilInv == FilTypeOK /\ FilJobs /\ FilParents /\ FilKeeps /\ FilTended

\* A thread goes on with a job that is in order.
LEMMA FilGoes ==
  ASSUME FilInv, NEW t \in FilThreads, NEW job,
         NEW pc \in {"idle", "mkdir", "truncate", "fill", "next", "remove", "look", "prune"},
         FilJobOK(pc, job), filOps' \in Nat, filTree' \subseteq FilDirs,
         filPc' = [filPc EXCEPT ![t] = pc],
         filJob' = [filJob EXCEPT ![t] = job] \/ (filJob' = filJob /\ filJob[t] = job)
  PROVE  /\ FilTypeOK' /\ FilJobs' /\ filPc'[t] = pc /\ filJob'[t] = job
         /\ \A s \in FilThreads : s # t => filPc'[s] = filPc[s] /\ filJob'[s] = filJob[s]
<1>1. /\ filPc \in [FilThreads -> {"idle", "mkdir", "truncate", "fill", "next", "remove", "look", "prune"}]
      /\ DOMAIN filJob = FilThreads /\ \A s \in FilThreads : FilJobOK(filPc[s], filJob[s])
  BY DEF FilInv, FilTypeOK, FilJobs
<1>2. /\ DOMAIN filJob' = FilThreads /\ filPc'[t] = pc /\ filJob'[t] = job
      /\ \A s \in FilThreads : s # t => filPc'[s] = filPc[s] /\ filJob'[s] = filJob[s]
      /\ filPc' \in [FilThreads -> {"idle", "mkdir", "truncate", "fill", "next", "remove", "look", "prune"}]
  BY <1>1
<1>3. \A s \in FilThreads : FilJobOK(filPc'[s], filJob'[s])
  BY <1>1, <1>2
<1>4. FilJobs'
  BY <1>2, <1>3 DEF FilJobs, FilJobOK, FilChain
<1>5. FilTypeOK'
  BY <1>2, <1>3 DEF FilTypeOK, FilJobOK
<1> QED
  BY <1>2, <1>4, <1>5

\* Directories that were empty stay tended by others; t answers for the rest.
LEMMA FilTends ==
  ASSUME FilInv, NEW t \in FilThreads, filLitter' = filLitter \/ filLitter' = TRUE,
         \A s \in FilThreads : s # t => filPc'[s] = filPc[s] /\ filJob'[s] = filJob[s],
         \A d \in filTree' : (FilChildren(d))' = {} =>
            \/ TendsBy(filPc'[t], filJob'[t], d)
            \/ d \in filTree /\ FilChildren(d) = {} /\ ~TendsBy(filPc[t], filJob[t], d)
  PROVE  FilTended'
<1>1. CASE filLitter'
  BY <1>1 DEF FilTended
<1>2. CASE ~filLitter'
  <2>1. \A d \in filTree : FilChildren(d) # {} \/ \E s \in FilThreads : TendsBy(filPc[s], filJob[s], d)
    BY <1>2 DEF FilInv, FilTended
  <2>2. ASSUME NEW d \in filTree', (FilChildren(d))' = {}
        PROVE  \E s \in FilThreads : TendsBy(filPc'[s], filJob'[s], d)
    <3>1. CASE TendsBy(filPc'[t], filJob'[t], d)
      BY <3>1
    <3>2. CASE d \in filTree /\ FilChildren(d) = {} /\ ~TendsBy(filPc[t], filJob[t], d)
      <4>1. PICK s \in FilThreads : TendsBy(filPc[s], filJob[s], d)
        BY <2>1, <3>2
      <4>2. s # t
        BY <3>2, <4>1
      <4> QED
        BY <4>1, <4>2
    <3> QED
      BY <2>2, <3>1, <3>2
  <2>3. (\A d \in filTree : FilChildren(d) # {} \/ \E s \in FilThreads : TendsBy(filPc[s], filJob[s], d))'
    BY <2>2 DEF TendsBy
  <2> QED
    BY <2>3 DEF FilTended
<1> QED
  BY <1>1, <1>2

\* The writers of a file but t are who they were.
LEMMA FilWritersAre ==
  ASSUME NEW t \in FilThreads, NEW f \in FilNames,
         \A s \in FilThreads : s # t => filPc'[s] = filPc[s] /\ filJob'[s] = filJob[s]
  PROVE  /\ (FilWriters(f))' \ {t} = FilWriters(f) \ {t}
         /\ t \in (FilWriters(f))' <=>
               filPc'[t] \in {"mkdir", "truncate", "fill", "remove"} /\ filJob'[t].file = f
         /\ t \in FilWriters(f) <=>
               filPc[t] \in {"mkdir", "truncate", "fill", "remove"} /\ filJob[t].file = f
BY DEF FilWriters

\* The job of a thread that is at no work, and what jobs are in order for it.
LEMMA FilIdle ==
  /\ FilJobOK("idle", NoFilJob) /\ \A d : ~TendsBy("idle", NoFilJob, d)
  /\ \A job, d : ~TendsBy("idle", job, d) /\ ~TendsBy("next", job, d) /\ ~TendsBy("remove", job, d)
                 /\ ~TendsBy("fill", job, d)
BY DEF FilJobOK, NoFilJob, TendsBy

\* Files that nobody starts or ends to write stay known as they are.
LEMMA FilKeepsAre ==
  ASSUME FilInv, NEW t \in FilThreads, UNCHANGED <<filBytes, filKept>>,
         \A s \in FilThreads : s # t => filPc'[s] = filPc[s] /\ filJob'[s] = filJob[s],
         filPc'[t] \in {"mkdir", "truncate", "fill", "remove"} =>
            filPc[t] \in {"mkdir", "truncate", "fill", "remove"} /\ filJob'[t].file = filJob[t].file
  PROVE  FilKeeps'
<1>1. /\ DOMAIN filBytes' = FilNames /\ DOMAIN filKept' = FilNames
      /\ \A f \in FilNames : filKept'[f] # FilNone => filBytes'[f] = filKept'[f]
  BY DEF FilInv, FilKeeps
<1>2. ASSUME NEW f \in FilNames, (FilWriters(f))' # {}
      PROVE  filKept'[f] = FilNone
  <2>1. (FilWriters(f))' \subseteq FilWriters(f)
    BY FilWritersAre
  <2>2. FilWriters(f) # {}
    BY <1>2, <2>1
  <2> QED
    BY <2>2 DEF FilInv, FilKeeps
<1>3. (\A f \in FilNames : /\ filKept[f] # FilNone => filBytes[f] = filKept[f]
                           /\ FilWriters(f) # {} => filKept[f] = FilNone)'
  BY <1>1, <1>2
<1> QED
  BY <1>1, <1>3 DEF FilKeeps

\* A put that fails, or a caller that dies, leaves everything but litter.
LEMMA FilGivesUp ==
  ASSUME FilInv, NEW t \in FilThreads, filPc' = [filPc EXCEPT ![t] = "idle"],
         filJob' = [filJob EXCEPT ![t] = NoFilJob], filLitter' = TRUE,
         UNCHANGED <<filTree, filBytes, filKept, filOps>>
  PROVE  FilInv'
<1>1. /\ FilTypeOK' /\ FilJobs' /\ filPc'[t] = "idle" /\ filJob'[t] = NoFilJob
      /\ \A s \in FilThreads : s # t => filPc'[s] = filPc[s] /\ filJob'[s] = filJob[s]
  <2>1. filOps' \in Nat /\ filTree' \subseteq FilDirs
    BY DEF FilInv, FilJobs, FilTypeOK
  <2> QED
    BY <2>1, FilIdle, FilGoes
<1>2. FilParents'
  BY DEF FilInv, FilParents, FilThere
<1>3. FilKeeps'
  BY <1>1, FilKeepsAre
<1>4. FilTended'
  BY DEF FilTended
<1> QED
  BY <1>1, <1>2, <1>3, <1>4 DEF FilInv

\* put begins.
LEMMA FilPutStep ==
  ASSUME FilInv, NEW t \in FilThreads, NEW f \in FilNames, FilPut(t, f)
  PROVE  FilInv'
<1> DEFINE job == [NoFilJob EXCEPT !.file = f, !.bytes = <<t, filOps>>, !.dirs = <<FilParent[f]>>]
<1>1. /\ filPc[t] = "idle" /\ filPc' = [filPc EXCEPT ![t] = "mkdir"] /\ filJob' = [filJob EXCEPT ![t] = job]
      /\ filOps' = filOps + 1 /\ filKept' = [filKept EXCEPT ![f] = FilNone]
      /\ UNCHANGED <<filTree, filBytes, filLitter>>
  BY DEF FilPut, FilStart, FilGo
<1>2. FilParent[f] \in FilDirs \cup {FilRoot} /\ filOps \in Nat /\ filTree \subseteq FilDirs
      /\ DOMAIN filKept = FilNames /\ DOMAIN filBytes = FilNames
  BY FilAssumption DEF FilInv, FilJobs, FilTypeOK, FilKeeps
<1>3. /\ DOMAIN job = {"file", "bytes", "dirs", "down", "todo"}
      /\ job.file = f /\ job.bytes = <<t, filOps>> /\ job.dirs = <<FilParent[f]>> /\ job.todo = {}
  BY DEF NoFilJob
<1> HIDE DEF job
<1>4. FilJobOK("mkdir", job)
  BY <1>2, <1>3 DEF FilJobOK, FilChain
<1>5. /\ FilTypeOK' /\ FilJobs' /\ filPc'[t] = "mkdir" /\ filJob'[t] = job
      /\ \A s \in FilThreads : s # t => filPc'[s] = filPc[s] /\ filJob'[s] = filJob[s]
  <2>1. filOps' \in Nat /\ filTree' \subseteq FilDirs
    BY <1>1, <1>2
  <2> QED
    BY <1>1, <1>4, <2>1, FilGoes
<1>6. FilParents'
  BY <1>1 DEF FilInv, FilParents, FilThere
<1>7. FilKeeps'
  <2>1. ASSUME NEW g \in FilNames
        PROVE  /\ filKept'[g] # FilNone => filBytes'[g] = filKept'[g]
               /\ (FilWriters(g))' # {} => filKept'[g] = FilNone
    <3>1. CASE g = f
      BY <1>1, <1>2, <3>1
    <3>2. CASE g # f
      <4>1. (FilWriters(g))' \subseteq FilWriters(g)
        BY <1>3, <1>5, <3>2, FilWritersAre
      <4> QED
        BY <1>1, <1>2, <3>2, <4>1 DEF FilInv, FilKeeps
    <3> QED
      BY <3>1, <3>2
  <2>2. (\A g \in FilNames : /\ filKept[g] # FilNone => filBytes[g] = filKept[g]
                             /\ FilWriters(g) # {} => filKept[g] = FilNone)'
    BY <2>1
  <2> QED
    BY <1>1, <1>2, <2>2 DEF FilKeeps
<1>8. FilTended'
  <2>1. \A d \in filTree' : (FilChildren(d))' = {} =>
           d \in filTree /\ FilChildren(d) = {} /\ ~TendsBy(filPc[t], filJob[t], d)
    BY <1>1, FilIdle DEF FilChildren
  <2> QED
    BY <1>1, <1>5, <2>1, FilTends
<1> QED
  BY <1>5, <1>6, <1>7, <1>8 DEF FilInv

\* create_dir_all makes a directory, goes up, or fails.
LEMMA FilMkdirStep ==
  ASSUME FilInv, NEW t \in FilThreads, FilMkdir(t)
  PROVE  FilInv'
<1> DEFINE dirs == filJob[t].dirs
           d == Head(dirs)
<1>1. /\ filPc[t] = "mkdir" /\ dirs # <<>> /\ UNCHANGED <<filBytes, filKept, filOps>>
  BY DEF FilMkdir
<1>2. /\ DOMAIN filJob = FilThreads /\ FilJobOK("mkdir", filJob[t]) /\ filOps \in Nat /\ filTree \subseteq FilDirs
      /\ filPc \in [FilThreads -> {"idle", "mkdir", "truncate", "fill", "next", "remove", "look", "prune"}]
      /\ FilParent \in [FilNames \cup FilDirs -> FilDirs \cup {FilRoot}]
  BY <1>1, FilAssumption DEF FilInv, FilJobs, FilTypeOK
<1>3. /\ filJob[t].file \in FilNames /\ filJob[t].bytes \in FilThreads \X Nat /\ FilChain(filJob[t])
      /\ DOMAIN filJob[t] = {"file", "bytes", "dirs", "down", "todo"} /\ filJob[t].todo \subseteq FilNames
  BY <1>2 DEF FilJobOK
<1>4. /\ dirs \in Seq(FilDirs \cup {FilRoot}) /\ d \in FilDirs \cup {FilRoot} /\ d = dirs[1] /\ Len(dirs) \in Nat \ {0}
      /\ Tail(dirs) \in Seq(FilDirs \cup {FilRoot}) /\ Len(Tail(dirs)) = Len(dirs) - 1
      /\ \A i \in 1..Len(Tail(dirs)) : Tail(dirs)[i] = dirs[i + 1]
      /\ Tail(dirs) = <<>> => Len(dirs) = 1
      /\ FilParent[filJob[t].file] = dirs[Len(dirs)]
      /\ \A i \in 1..(Len(dirs) - 1) : dirs[i + 1] \in FilDirs /\ FilParent[dirs[i + 1]] = dirs[i]
  <2>1. dirs \in Seq(FilDirs \cup {FilRoot}) /\ FilParent[filJob[t].file] = dirs[Len(dirs)]
        /\ \A i \in 1..(Len(dirs) - 1) : dirs[i + 1] \in FilDirs /\ FilParent[dirs[i + 1]] = dirs[i]
    BY <1>1, <1>3 DEF FilChain
  <2> HIDE DEF dirs
  <2>2. /\ Head(dirs) \in FilDirs \cup {FilRoot} /\ Head(dirs) = dirs[1] /\ Len(dirs) \in Nat \ {0}
        /\ Tail(dirs) \in Seq(FilDirs \cup {FilRoot}) /\ Len(Tail(dirs)) = Len(dirs) - 1
        /\ \A i \in 1..Len(Tail(dirs)) : Tail(dirs)[i] = dirs[i + 1]
    BY <1>1, <2>1
  <2>3. ASSUME Tail(dirs) = <<>>
        PROVE  Len(dirs) = 1
    <3>1. Len(<<>>) = 0
      OBVIOUS
    <3>2. Len(Tail(dirs)) = 0
      BY <2>3, <3>1, Zenon
    <3>3. \A n \in Nat \ {0} : n - 1 = 0 => n = 1
      OBVIOUS
    <3> QED
      BY <2>2, <3>2, <3>3, Zenon
  <2> QED
    BY <2>1, <2>2, <2>3
<1> HIDE DEF dirs, d
<1>5. CASE /\ FilThere(d) \/ FilThere(FilParent[d])
           /\ filTree' = (filTree \cup {d}) \ {FilRoot}
           /\ filJob' = [filJob EXCEPT ![t].dirs = Tail(dirs), ![t].down = FALSE]
           /\ UNCHANGED <<filPc, filLitter>>
  <2> DEFINE job == [filJob[t] EXCEPT !.dirs = Tail(dirs), !.down = FALSE]
  <2>1. filJob' = [filJob EXCEPT ![t] = job] /\ filPc' = [filPc EXCEPT ![t] = "mkdir"]
    BY <1>1, <1>2, <1>5
  <2>2. /\ DOMAIN job = {"file", "bytes", "dirs", "down", "todo"} /\ job.file = filJob[t].file
        /\ job.bytes = filJob[t].bytes /\ job.todo = filJob[t].todo /\ job.dirs = Tail(dirs)
    BY <1>3
  <2> HIDE DEF job
  <2>3. FilChain(job)
    <3>1. Tail(dirs) # <<>> => FilParent[filJob[t].file] = Tail(dirs)[Len(Tail(dirs))]
      <4>1. Tail(dirs) # <<>> => Len(Tail(dirs)) \in 1..Len(Tail(dirs))
        BY <1>4
      <4> QED
        BY <1>4, <4>1
    <3>2. \A i \in 1..(Len(Tail(dirs)) - 1) :
             Tail(dirs)[i + 1] \in FilDirs /\ FilParent[Tail(dirs)[i + 1]] = Tail(dirs)[i]
      BY <1>4
    <3> QED
      BY <1>4, <2>2, <3>1, <3>2 DEF FilChain
  <2>4. FilJobOK("mkdir", job)
    BY <1>3, <2>2, <2>3 DEF FilJobOK
  <2>5. /\ FilTypeOK' /\ FilJobs' /\ filPc'[t] = "mkdir" /\ filJob'[t] = job
        /\ \A s \in FilThreads : s # t => filPc'[s] = filPc[s] /\ filJob'[s] = filJob[s]
    <3>1. filOps' \in Nat /\ filTree' \subseteq FilDirs
      BY <1>1, <1>2, <1>4, <1>5
    <3> QED
      BY <2>1, <2>4, <3>1, FilGoes
  <2>6. FilParents'
    <3>1. /\ \A e : FilThere(e) => FilThere(e)'
          /\ \A e \in filTree' : e \in filTree \/ (e = d /\ d \notin filTree /\ d # FilRoot)
      BY <1>5 DEF FilThere
    <3>2. \A f \in FilNames : filBytes'[f] # FilNone => FilThere(FilParent[f])'
      BY <1>1, <3>1 DEF FilInv, FilParents
    <3>3. \A e \in filTree' : FilThere(FilParent[e])'
      <4>1. d \notin filTree /\ d # FilRoot => FilThere(FilParent[d])
        BY <1>5 DEF FilThere
      <4> QED
        BY <3>1, <4>1 DEF FilInv, FilParents
    <3> QED
      BY <3>2, <3>3 DEF FilParents
  <2>7. FilKeeps'
    BY <1>1, <2>2, <2>5, FilKeepsAre
  <2>8. FilTended'
    <3>1. ASSUME NEW e \in filTree', (FilChildren(e))' = {}
          PROVE  \/ TendsBy(filPc'[t], filJob'[t], e)
                 \/ e \in filTree /\ FilChildren(e) = {} /\ ~TendsBy(filPc[t], filJob[t], e)
      <4>1. CASE e = d
        <5>1. CASE Tail(dirs) = <<>>
          <6>1. FilParent[job.file] = d
            <7>1. Len(dirs) = 1
              BY <1>4, <5>1
            <7>2. FilParent[filJob[t].file] = d
              BY <1>4, <7>1
            <7> QED
              BY <2>2, <7>2
          <6> QED
            BY <2>2, <2>5, <4>1, <5>1, <6>1 DEF TendsBy
        <5>2. CASE Tail(dirs) # <<>>
          <6>1. Head(Tail(dirs)) = dirs[2] /\ 1 \in 1..(Len(dirs) - 1)
            BY <1>4, <5>2
          <6>2. FilParent[Head(Tail(dirs))] = d /\ Head(Tail(dirs)) # FilRoot
            BY <1>4, <6>1, FilAssumption
          <6> QED
            BY <2>2, <2>5, <4>1, <5>2, <6>2 DEF TendsBy
        <5> QED
          BY <5>1, <5>2
      <4>2. CASE e # d
        <5>1. e \in filTree /\ FilChildren(e) \subseteq (FilChildren(e))'
          BY <1>1, <1>2, <1>5, <3>1, <4>2, FilAssumption DEF FilChildren
        <5>2. ASSUME d # FilRoot
              PROVE  FilParent[d] # e
          BY <1>5, <3>1, <5>2 DEF FilChildren
        <5> QED
          BY <1>1, <1>4, <3>1, <5>1, <5>2 DEF TendsBy, dirs, d
      <4> QED
        BY <4>1, <4>2
    <3> QED
      BY <1>5, <2>5, <3>1, FilTends
  <2> QED
    BY <2>5, <2>6, <2>7, <2>8 DEF FilInv
<1>6. CASE /\ ~(FilThere(d) \/ FilThere(FilParent[d]))
           /\ filJob' = [filJob EXCEPT ![t].dirs = <<FilParent[d]>> \o dirs]
           /\ UNCHANGED <<filTree, filPc, filLitter>>
  <2> DEFINE up == <<FilParent[d]>> \o dirs
             job == [filJob[t] EXCEPT !.dirs = up]
  <2>1. filJob' = [filJob EXCEPT ![t] = job] /\ filPc' = [filPc EXCEPT ![t] = "mkdir"]
    BY <1>1, <1>2, <1>6
  <2>2. /\ DOMAIN job = {"file", "bytes", "dirs", "down", "todo"} /\ job.file = filJob[t].file
        /\ job.bytes = filJob[t].bytes /\ job.todo = filJob[t].todo /\ job.dirs = up
    BY <1>3
  <2>3. d \in FilDirs /\ FilParent[d] \in FilDirs \cup {FilRoot} /\ FilParent[d] \notin filTree
    BY <1>2, <1>4, <1>6 DEF FilThere
  <2>4. /\ up \in Seq(FilDirs \cup {FilRoot}) /\ up # <<>> /\ Len(up) = Len(dirs) + 1 /\ Head(up) = FilParent[d]
        /\ up[1] = FilParent[d] /\ \A i \in 1..Len(dirs) : up[i + 1] = dirs[i]
    BY <1>4, <2>3
  <2> HIDE DEF up, job
  <2>5. FilChain(job)
    <3>1. \A i \in 1..(Len(up) - 1) : up[i + 1] \in FilDirs /\ FilParent[up[i + 1]] = up[i]
      <4>1. ASSUME NEW i \in 1..(Len(up) - 1)
            PROVE  up[i + 1] \in FilDirs /\ FilParent[up[i + 1]] = up[i]
        <5>1. CASE i = 1
          <6>1. up[2] = d
            BY <1>4, <2>4
          <6> QED
            BY <2>3, <2>4, <5>1, <6>1
        <5>2. CASE i # 1
          <6>1. i \in 1..Len(dirs) /\ i - 1 \in 1..(Len(dirs) - 1)
            BY <1>4, <2>4, <4>1, <5>2
          <6>2. up[i + 1] = dirs[i] /\ up[i] = dirs[i - 1]
            <7>1. up[(i - 1) + 1] = dirs[i - 1]
              BY <2>4, <6>1, <1>4
            <7> QED
              BY <2>4, <6>1, <7>1
          <6>3. dirs[(i - 1) + 1] \in FilDirs /\ FilParent[dirs[(i - 1) + 1]] = dirs[i - 1]
            BY <1>4, <6>1
          <6> QED
            BY <6>1, <6>2, <6>3
        <5> QED
          BY <5>1, <5>2
      <4> QED
        BY <4>1
    <3>2. up[Len(up)] = dirs[Len(dirs)]
      BY <1>4, <2>4
    <3> QED
      BY <1>4, <2>2, <2>4, <3>1, <3>2 DEF FilChain
  <2>6. FilJobOK("mkdir", job)
    BY <1>3, <2>2, <2>5 DEF FilJobOK
  <2>7. /\ FilTypeOK' /\ FilJobs' /\ filPc'[t] = "mkdir" /\ filJob'[t] = job
        /\ \A s \in FilThreads : s # t => filPc'[s] = filPc[s] /\ filJob'[s] = filJob[s]
    <3>1. filOps' \in Nat /\ filTree' \subseteq FilDirs
      BY <1>1, <1>2, <1>6
    <3> QED
      BY <2>1, <2>6, <3>1, FilGoes
  <2>8. FilParents'
    BY <1>1, <1>6 DEF FilInv, FilParents, FilThere
  <2>9. FilKeeps'
    BY <1>1, <2>2, <2>7, FilKeepsAre
  <2>10. FilTended'
    <3>1. \A e \in filTree' : (FilChildren(e))' = {} =>
             e \in filTree /\ FilChildren(e) = {} /\ ~TendsBy(filPc[t], filJob[t], e)
      BY <1>1, <1>6, <2>3 DEF FilChildren, TendsBy, dirs, d
    <3> QED
      BY <1>6, <2>7, <3>1, FilTends
  <2> QED
    BY <2>7, <2>8, <2>9, <2>10 DEF FilInv
<1>7. CASE /\ FilGo(t, "mkdir", "idle") /\ filJob' = [filJob EXCEPT ![t] = NoFilJob]
           /\ filLitter' = TRUE /\ UNCHANGED filTree
  BY <1>1, <1>7, FilGivesUp DEF FilGo
<1> QED
  BY <1>5, <1>6, <1>7 DEF FilMkdir, dirs, d

\* The file is opened and truncated, or its directory is gone.
LEMMA FilTruncateStep ==
  ASSUME FilInv, NEW t \in FilThreads, FilTruncate(t)
  PROVE  FilInv'
<1> DEFINE f == filJob[t].file
<1>1. filPc[t] = "mkdir" /\ filJob[t].dirs = <<>> /\ UNCHANGED <<filTree, filKept, filOps>>
  BY DEF FilTruncate
<1>2. /\ FilJobOK("mkdir", filJob[t]) /\ filOps \in Nat /\ filTree \subseteq FilDirs
      /\ DOMAIN filJob = FilThreads
  BY <1>1 DEF FilInv, FilJobs, FilTypeOK
<1>3. f \in FilNames /\ FilJobOK("fill", filJob[t]) /\ DOMAIN filBytes = FilNames /\ DOMAIN filKept = FilNames
  BY <1>2 DEF FilJobOK, FilInv, FilKeeps
<1>4. filKept[f] = FilNone
  BY <1>1, <1>3 DEF FilInv, FilKeeps, FilWriters
<1>5. CASE /\ FilThere(FilParent[f]) /\ filBytes' = [filBytes EXCEPT ![f] = FilEmpty]
           /\ FilGo(t, "mkdir", "fill") /\ UNCHANGED <<filJob, filLitter>>
  <2>1. filPc' = [filPc EXCEPT ![t] = "fill"] /\ filJob' = filJob
    BY <1>5 DEF FilGo
  <2>2. /\ FilTypeOK' /\ FilJobs' /\ filPc'[t] = "fill" /\ filJob'[t] = filJob[t]
        /\ \A s \in FilThreads : s # t => filPc'[s] = filPc[s] /\ filJob'[s] = filJob[s]
    <3>1. filOps' \in Nat /\ filTree' \subseteq FilDirs
      BY <1>1, <1>2
    <3> QED
      BY <1>3, <2>1, <3>1, FilGoes
  <2>3. /\ DOMAIN filBytes' = FilNames /\ filBytes'[f] = FilEmpty /\ FilEmpty # FilNone
        /\ \A g \in FilNames : g # f => filBytes'[g] = filBytes[g]
    BY <1>3, <1>5, FilAssumption
  <2> HIDE DEF f
  <2>4. FilParents'
    <3>1. \A g \in FilNames : filBytes'[g] # FilNone => FilThere(FilParent[g])
      BY <1>5, <2>3 DEF FilInv, FilParents
    <3> QED
      BY <1>1, <3>1 DEF FilInv, FilParents, FilThere
  <2>5. FilKeeps'
    <3>1. ASSUME NEW g \in FilNames
          PROVE  /\ filKept'[g] # FilNone => filBytes'[g] = filKept'[g]
                 /\ (FilWriters(g))' # {} => filKept'[g] = FilNone
      <4>1. CASE g = f
        BY <1>1, <1>4, <4>1
      <4>2. CASE g # f
        <5>1. (FilWriters(g))' \subseteq FilWriters(g)
          BY <2>2, <1>1, FilWritersAre
        <5> QED
          BY <1>1, <2>3, <4>2, <5>1 DEF FilInv, FilKeeps
      <4> QED
        BY <4>1, <4>2
    <3>2. (\A g \in FilNames : /\ filKept[g] # FilNone => filBytes[g] = filKept[g]
                               /\ FilWriters(g) # {} => filKept[g] = FilNone)'
      BY <3>1
    <3> QED
      BY <1>1, <1>3, <2>3, <3>2 DEF FilKeeps
  <2>6. FilTended'
    <3>1. ASSUME NEW e \in filTree', (FilChildren(e))' = {}
          PROVE  e \in filTree /\ FilChildren(e) = {} /\ ~TendsBy(filPc[t], filJob[t], e)
      <4>1. FilParent[f] # e
        BY <1>3, <2>3, <3>1 DEF FilChildren
      <4>2. FilChildren(e) \subseteq (FilChildren(e))'
        BY <1>1, <2>3 DEF FilChildren
      <4> QED
        BY <1>1, <3>1, <4>1, <4>2 DEF TendsBy, f
    <3> QED
      BY <1>5, <2>2, <3>1, FilTends
  <2> QED
    BY <2>2, <2>4, <2>5, <2>6 DEF FilInv
<1>6. CASE /\ FilGo(t, "mkdir", "idle") /\ filJob' = [filJob EXCEPT ![t] = NoFilJob]
           /\ filLitter' = TRUE /\ UNCHANGED filBytes
  BY <1>1, <1>6, FilGivesUp DEF FilGo
<1> QED
  BY <1>5, <1>6 DEF FilTruncate

\* The bytes are written, to nowhere if the file is gone.
LEMMA FilFillStep ==
  ASSUME FilInv, NEW t \in FilThreads, FilFill(t)
  PROVE  FilInv'
<1> DEFINE f == filJob[t].file
<1>1. /\ filPc[t] = "fill" /\ filPc' = [filPc EXCEPT ![t] = "idle"]
      /\ filJob' = [filJob EXCEPT ![t] = NoFilJob] /\ UNCHANGED <<filTree, filLitter, filOps>>
      /\ filBytes' = [filBytes EXCEPT ![f] = IF @ = FilNone THEN FilNone ELSE filJob[t].bytes]
      /\ filKept' = [filKept EXCEPT ![f] = IF FilWriters(f) \subseteq {t} THEN filBytes'[f] ELSE FilNone]
  BY DEF FilFill, FilGo, FilKeep
<1>2. /\ FilJobOK("fill", filJob[t]) /\ filOps \in Nat /\ filTree \subseteq FilDirs
      /\ DOMAIN filBytes = FilNames /\ DOMAIN filKept = FilNames
  BY <1>1 DEF FilInv, FilJobs, FilTypeOK, FilKeeps
<1>3. f \in FilNames /\ filJob[t].bytes # FilNone
  BY <1>2, FilAssumption DEF FilJobOK
<1>4. /\ DOMAIN filBytes' = FilNames /\ DOMAIN filKept' = FilNames
      /\ \A g \in FilNames : filBytes'[g] = FilNone <=> filBytes[g] = FilNone
      /\ \A g \in FilNames : g # f => filBytes'[g] = filBytes[g] /\ filKept'[g] = filKept[g]
      /\ filKept'[f] = IF FilWriters(f) \subseteq {t} THEN filBytes'[f] ELSE FilNone
  BY <1>1, <1>2, <1>3
<1>5. /\ FilTypeOK' /\ FilJobs' /\ filPc'[t] = "idle" /\ filJob'[t] = NoFilJob
      /\ \A s \in FilThreads : s # t => filPc'[s] = filPc[s] /\ filJob'[s] = filJob[s]
  <2>1. filOps' \in Nat /\ filTree' \subseteq FilDirs
    BY <1>1, <1>2
  <2> QED
    BY <1>1, <2>1, FilIdle, FilGoes
<1> HIDE DEF f
<1>6. FilParents'
  BY <1>1, <1>4 DEF FilInv, FilParents, FilThere
<1>7. FilKeeps'
  <2>1. ASSUME NEW g \in FilNames
        PROVE  /\ filKept'[g] # FilNone => filBytes'[g] = filKept'[g]
               /\ (FilWriters(g))' # {} => filKept'[g] = FilNone
    <3>1. (FilWriters(g))' = FilWriters(g) \ {t}
      BY <1>5, FilWritersAre
    <3>2. CASE g = f
      BY <1>4, <3>1, <3>2
    <3>3. CASE g # f
      BY <1>4, <3>1, <3>3 DEF FilInv, FilKeeps
    <3> QED
      BY <3>2, <3>3
  <2>2. (\A g \in FilNames : /\ filKept[g] # FilNone => filBytes[g] = filKept[g]
                             /\ FilWriters(g) # {} => filKept[g] = FilNone)'
    BY <2>1
  <2> QED
    BY <1>4, <2>2 DEF FilKeeps
<1>8. FilTended'
  <2>1. \A e \in filTree' : (FilChildren(e))' = {} =>
           e \in filTree /\ FilChildren(e) = {} /\ ~TendsBy(filPc[t], filJob[t], e)
    <3>1. \A e : (FilChildren(e))' = FilChildren(e)
      BY <1>1, <1>4 DEF FilChildren
    <3> QED
      BY <1>1, <3>1, FilIdle
  <2> QED
    BY <1>1, <1>5, <2>1, FilTends
<1> QED
  BY <1>5, <1>6, <1>7, <1>8 DEF FilInv

\* A delete begins, and goes from file to file.
LEMMA FilDeleteStep ==
  ASSUME FilInv, NEW t \in FilThreads, NEW files \in SUBSET FilNames, FilDelete(t, files)
  PROVE  FilInv'
<1> DEFINE job == [NoFilJob EXCEPT !.todo = files]
<1>1. /\ filPc[t] = "idle" /\ filPc' = [filPc EXCEPT ![t] = "next"] /\ filJob' = [filJob EXCEPT ![t] = job]
      /\ filOps' = filOps + 1 /\ UNCHANGED <<filTree, filBytes, filKept, filLitter>>
  BY DEF FilDelete, FilStart, FilGo
<1>2. /\ DOMAIN job = {"file", "bytes", "dirs", "down", "todo"} /\ job.file = FilNone /\ job.todo = files
  BY DEF NoFilJob
<1> HIDE DEF job
<1>3. FilJobOK("next", job)
  BY <1>2 DEF FilJobOK
<1>4. /\ FilTypeOK' /\ FilJobs' /\ filPc'[t] = "next" /\ filJob'[t] = job
      /\ \A s \in FilThreads : s # t => filPc'[s] = filPc[s] /\ filJob'[s] = filJob[s]
  <2>1. filOps' \in Nat /\ filTree' \subseteq FilDirs
    BY <1>1 DEF FilInv, FilJobs, FilTypeOK
  <2> QED
    BY <1>1, <1>3, <2>1, FilGoes
<1>5. FilParents' /\ FilKeeps'
  <2>1. FilParents'
    BY <1>1 DEF FilInv, FilParents, FilThere
  <2> QED
    BY <1>1, <1>4, <2>1, FilKeepsAre
<1>6. FilTended'
  <2>1. \A e \in filTree' : (FilChildren(e))' = {} =>
           e \in filTree /\ FilChildren(e) = {} /\ ~TendsBy(filPc[t], filJob[t], e)
    BY <1>1, FilIdle DEF FilChildren
  <2> QED
    BY <1>1, <1>4, <2>1, FilTends
<1> QED
  BY <1>4, <1>5, <1>6 DEF FilInv

\* Picking the next file of a delete preserves the invariant.
LEMMA FilNextFileStep ==
  ASSUME FilInv, NEW t \in FilThreads, FilNextFile(t)
  PROVE  FilInv'
<1>1. PICK f \in filJob[t].todo : /\ filJob' = [filJob EXCEPT ![t].file = f, ![t].todo = @ \ {f}]
                                  /\ filKept' = [filKept EXCEPT ![f] = FilNone]
  BY DEF FilNextFile
<1>2. /\ filPc[t] = "next" /\ filPc' = [filPc EXCEPT ![t] = "remove"]
      /\ UNCHANGED <<filTree, filBytes, filLitter, filOps>>
  BY DEF FilNextFile, FilGo
<1>3. /\ DOMAIN filJob = FilThreads /\ FilJobOK("next", filJob[t]) /\ filOps \in Nat /\ filTree \subseteq FilDirs
      /\ DOMAIN filBytes = FilNames /\ DOMAIN filKept = FilNames
  BY <1>2 DEF FilInv, FilJobs, FilTypeOK, FilKeeps
<1> DEFINE job == [filJob[t] EXCEPT !.file = f, !.todo = filJob[t].todo \ {f}]
<1>4. filJob' = [filJob EXCEPT ![t] = job]
  BY <1>1, <1>3 DEF FilJobOK
<1>5. /\ DOMAIN job = {"file", "bytes", "dirs", "down", "todo"} /\ job.file = f /\ job.todo = filJob[t].todo \ {f}
      /\ f \in FilNames /\ filJob[t].todo \subseteq FilNames
  BY <1>1, <1>3 DEF FilJobOK
<1> HIDE DEF job
<1>6. FilJobOK("remove", job)
  BY <1>5 DEF FilJobOK
<1>7. /\ FilTypeOK' /\ FilJobs' /\ filPc'[t] = "remove" /\ filJob'[t] = job
      /\ \A s \in FilThreads : s # t => filPc'[s] = filPc[s] /\ filJob'[s] = filJob[s]
  <2>1. filOps' \in Nat /\ filTree' \subseteq FilDirs
    BY <1>2, <1>3
  <2> QED
    BY <1>2, <1>4, <1>6, <2>1, FilGoes
<1>8. FilParents'
  BY <1>2 DEF FilInv, FilParents, FilThere
<1>9. FilKeeps'
  <2>1. ASSUME NEW g \in FilNames
        PROVE  /\ filKept'[g] # FilNone => filBytes'[g] = filKept'[g]
               /\ (FilWriters(g))' # {} => filKept'[g] = FilNone
    <3>1. CASE g = f
      BY <1>1, <1>3, <3>1
    <3>2. CASE g # f
      <4>1. (FilWriters(g))' \subseteq FilWriters(g)
        BY <1>5, <1>7, <3>2, FilWritersAre
      <4>2. filKept'[g] = filKept[g]
        BY <1>1, <1>3, <3>2
      <4> QED
        BY <1>2, <4>1, <4>2 DEF FilInv, FilKeeps
    <3> QED
      BY <3>1, <3>2
  <2>2. (\A g \in FilNames : /\ filKept[g] # FilNone => filBytes[g] = filKept[g]
                             /\ FilWriters(g) # {} => filKept[g] = FilNone)'
    BY <2>1
  <2>3. DOMAIN filBytes' = FilNames /\ DOMAIN filKept' = FilNames
    BY <1>1, <1>2, <1>3
  <2> QED
    BY <2>2, <2>3 DEF FilKeeps
<1>10. FilTended'
  <2>1. \A e \in filTree' : (FilChildren(e))' = {} =>
           e \in filTree /\ FilChildren(e) = {} /\ ~TendsBy(filPc[t], filJob[t], e)
    BY <1>2, FilIdle DEF FilChildren
  <2> QED
    BY <1>2, <1>7, <2>1, FilTends
<1> QED
  BY <1>7, <1>8, <1>9, <1>10 DEF FilInv

\* So does the end of a delete that has met all its files.
LEMMA FilDeletedStep ==
  ASSUME FilInv, NEW t \in FilThreads, FilDeleted(t)
  PROVE  FilInv'
<1>1. /\ filPc[t] = "next" /\ filPc' = [filPc EXCEPT ![t] = "idle"] /\ filJob' = [filJob EXCEPT ![t] = NoFilJob]
      /\ UNCHANGED <<filTree, filBytes, filKept, filLitter, filOps>>
  BY DEF FilDeleted, FilGo
<1>2. /\ FilTypeOK' /\ FilJobs' /\ filPc'[t] = "idle" /\ filJob'[t] = NoFilJob
      /\ \A s \in FilThreads : s # t => filPc'[s] = filPc[s] /\ filJob'[s] = filJob[s]
  <2>1. filOps' \in Nat /\ filTree' \subseteq FilDirs
    BY <1>1 DEF FilInv, FilJobs, FilTypeOK
  <2> QED
    BY <1>1, <2>1, FilIdle, FilGoes
<1>3. FilParents' /\ FilKeeps'
  <2>1. FilParents'
    BY <1>1 DEF FilInv, FilParents, FilThere
  <2> QED
    BY <1>1, <1>2, <2>1, FilKeepsAre
<1>4. FilTended'
  <2>1. \A e \in filTree' : (FilChildren(e))' = {} =>
           e \in filTree /\ FilChildren(e) = {} /\ ~TendsBy(filPc[t], filJob[t], e)
    BY <1>1, FilIdle DEF FilChildren
  <2> QED
    BY <1>1, <1>2, <2>1, FilTends
<1> QED
  BY <1>2, <1>3, <1>4 DEF FilInv

\* A file is removed, and its directory is to be looked at.
LEMMA FilRemoveStep ==
  ASSUME FilInv, NEW t \in FilThreads, FilRemove(t)
  PROVE  FilInv'
<1> DEFINE f == filJob[t].file
           job == [filJob[t] EXCEPT !.dirs = <<FilParent[f]>>]
<1>1. /\ filPc[t] = "remove" /\ filPc' = [filPc EXCEPT ![t] = "look"]
      /\ filBytes' = [filBytes EXCEPT ![f] = FilNone] /\ filJob' = [filJob EXCEPT ![t].dirs = <<FilParent[f]>>]
      /\ UNCHANGED <<filTree, filKept, filLitter, filOps>>
  BY DEF FilRemove, FilGo
<1>2. /\ DOMAIN filJob = FilThreads /\ FilJobOK("remove", filJob[t]) /\ filOps \in Nat /\ filTree \subseteq FilDirs
      /\ DOMAIN filBytes = FilNames /\ DOMAIN filKept = FilNames
  BY <1>1 DEF FilInv, FilJobs, FilTypeOK, FilKeeps
<1>3. filJob' = [filJob EXCEPT ![t] = job]
  BY <1>1, <1>2
<1>4. f \in FilNames /\ FilParent[f] \in FilDirs \cup {FilRoot}
  BY <1>2, FilAssumption DEF FilJobOK
<1>5. /\ DOMAIN job = {"file", "bytes", "dirs", "down", "todo"} /\ job.file = f
      /\ job.todo = filJob[t].todo /\ job.dirs = <<FilParent[f]>>
  BY <1>2 DEF FilJobOK
<1> HIDE DEF job
<1>6. FilJobOK("look", job)
  BY <1>2, <1>4, <1>5 DEF FilJobOK
<1>7. /\ FilTypeOK' /\ FilJobs' /\ filPc'[t] = "look" /\ filJob'[t] = job
      /\ \A s \in FilThreads : s # t => filPc'[s] = filPc[s] /\ filJob'[s] = filJob[s]
  <2>1. filOps' \in Nat /\ filTree' \subseteq FilDirs
    BY <1>1, <1>2
  <2> QED
    BY <1>1, <1>3, <1>6, <2>1, FilGoes
<1>8. /\ DOMAIN filBytes' = FilNames /\ filBytes'[f] = FilNone
      /\ \A g \in FilNames : g # f => filBytes'[g] = filBytes[g]
  BY <1>1, <1>2, <1>4
<1>9. filKept[f] = FilNone
  BY <1>1, <1>4 DEF FilInv, FilKeeps, FilWriters
<1> HIDE DEF f
<1>10. FilParents'
  BY <1>1, <1>8 DEF FilInv, FilParents, FilThere
<1>11. FilKeeps'
  <2>1. ASSUME NEW g \in FilNames
        PROVE  /\ filKept'[g] # FilNone => filBytes'[g] = filKept'[g]
               /\ (FilWriters(g))' # {} => filKept'[g] = FilNone
    <3>1. CASE g = f
      BY <1>1, <1>9, <3>1
    <3>2. CASE g # f
      <4>1. (FilWriters(g))' \subseteq FilWriters(g)
        BY <1>7, FilWritersAre
      <4> QED
        BY <1>1, <1>8, <3>2, <4>1 DEF FilInv, FilKeeps
    <3> QED
      BY <3>1, <3>2
  <2>2. (\A g \in FilNames : /\ filKept[g] # FilNone => filBytes[g] = filKept[g]
                             /\ FilWriters(g) # {} => filKept[g] = FilNone)'
    BY <2>1
  <2> QED
    BY <1>1, <1>2, <1>8, <2>2 DEF FilKeeps
<1>12. FilTended'
  <2>1. ASSUME NEW e \in filTree', (FilChildren(e))' = {}
        PROVE  \/ TendsBy(filPc'[t], filJob'[t], e)
               \/ e \in filTree /\ FilChildren(e) = {} /\ ~TendsBy(filPc[t], filJob[t], e)
    <3>1. CASE e = FilParent[f]
      <4>1. Head(job.dirs) = e
        BY <1>4, <1>5, <3>1
      <4> QED
        BY <1>7, <4>1 DEF TendsBy
    <3>2. CASE e # FilParent[f]
      <4>1. FilChildren(e) \subseteq (FilChildren(e))'
        BY <1>1, <1>8, <3>2 DEF FilChildren
      <4> QED
        BY <1>1, <2>1, <4>1, FilIdle
    <3> QED
      BY <3>1, <3>2
  <2> QED
    BY <1>1, <1>7, <2>1, FilTends
<1> QED
  BY <1>7, <1>10, <1>11, <1>12 DEF FilInv

\* A directory is looked at.
LEMMA FilLookStep ==
  ASSUME FilInv, NEW t \in FilThreads, FilLook(t)
  PROVE  FilInv'
<1> DEFINE d == Head(filJob[t].dirs)
           prune == d # FilRoot /\ d \in filTree /\ FilChildren(d) = {}
           pc == IF prune THEN "prune" ELSE "next"
<1>1. /\ filPc[t] = "look" /\ filPc' = [filPc EXCEPT ![t] = pc]
      /\ UNCHANGED <<filTree, filBytes, filJob, filKept, filLitter, filOps>>
  BY DEF FilLook, FilGo
<1>2. FilJobOK("look", filJob[t]) /\ filOps \in Nat /\ filTree \subseteq FilDirs
  BY <1>1 DEF FilInv, FilJobs, FilTypeOK
<1>3. FilJobOK(pc, filJob[t])
  <2>1. prune => d \in FilDirs
    BY <1>2
  <2> QED
    BY <1>2, <2>1 DEF FilJobOK
<1>4. pc \in {"idle", "mkdir", "truncate", "fill", "next", "remove", "look", "prune"}
      /\ (pc = "prune" <=> prune) /\ (pc = "next" <=> ~prune) /\ pc # "idle" /\ pc # "mkdir" /\ pc # "truncate"
      /\ pc # "fill" /\ pc # "remove"
  OBVIOUS
<1> HIDE DEF pc
<1>5. /\ FilTypeOK' /\ FilJobs' /\ filPc'[t] = pc /\ filJob'[t] = filJob[t]
      /\ \A s \in FilThreads : s # t => filPc'[s] = filPc[s] /\ filJob'[s] = filJob[s]
  <2>1. filOps' \in Nat /\ filTree' \subseteq FilDirs /\ filJob' = filJob
    BY <1>1, <1>2
  <2>2. CASE prune
    <3>1. filPc' = [filPc EXCEPT ![t] = "prune"] /\ FilJobOK("prune", filJob[t])
      BY <1>1, <1>3, <1>4, <2>2
    <3> QED
      BY <1>4, <2>1, <2>2, <3>1, FilGoes
  <2>3. CASE ~prune
    <3>1. filPc' = [filPc EXCEPT ![t] = "next"] /\ FilJobOK("next", filJob[t])
      BY <1>1, <1>3, <1>4, <2>3
    <3> QED
      BY <1>4, <2>1, <2>3, <3>1, FilGoes
  <2> QED
    BY <2>2, <2>3
<1>6. FilParents' /\ FilKeeps'
  <2>1. FilParents'
    BY <1>1 DEF FilInv, FilParents, FilThere
  <2>2. filPc'[t] \notin {"mkdir", "truncate", "fill", "remove"}
    BY <1>4, <1>5
  <2> QED
    BY <1>1, <1>5, <2>1, <2>2, FilKeepsAre
<1>7. FilTended'
  <2>1. ASSUME NEW e \in filTree', (FilChildren(e))' = {}
        PROVE  \/ TendsBy(filPc'[t], filJob'[t], e)
               \/ e \in filTree /\ FilChildren(e) = {} /\ ~TendsBy(filPc[t], filJob[t], e)
    <3>1. e \in filTree /\ FilChildren(e) = {} /\ e # FilRoot
      BY <1>1, <1>2, <2>1, FilAssumption DEF FilChildren
    <3>2. CASE e = d
      <4>1. prune
        BY <3>1, <3>2
      <4> QED
        BY <1>4, <1>5, <3>2, <4>1 DEF TendsBy
    <3>3. CASE e # d
      BY <1>1, <3>1, <3>3 DEF TendsBy
    <3> QED
      BY <3>2, <3>3
  <2> QED
    BY <1>1, <1>5, <2>1, FilTends
<1> QED
  BY <1>5, <1>6, <1>7 DEF FilInv

\* A directory is removed if it is empty, and the one above is looked at.
LEMMA FilPruneStep ==
  ASSUME FilInv, NEW t \in FilThreads, FilPrune(t)
  PROVE  FilInv'
<1> DEFINE d == Head(filJob[t].dirs)
           job == [filJob[t] EXCEPT !.dirs = <<FilParent[d]>>]
<1>1. /\ filPc[t] = "prune" /\ filPc' = [filPc EXCEPT ![t] = "look"]
      /\ filTree' = (IF FilChildren(d) = {} THEN filTree \ {d} ELSE filTree)
      /\ filJob' = [filJob EXCEPT ![t].dirs = <<FilParent[d]>>]
      /\ UNCHANGED <<filBytes, filKept, filLitter, filOps>>
  BY DEF FilPrune, FilGo
<1>2. /\ DOMAIN filJob = FilThreads /\ FilJobOK("prune", filJob[t]) /\ filOps \in Nat /\ filTree \subseteq FilDirs
  BY <1>1 DEF FilInv, FilJobs, FilTypeOK
<1>3. filJob' = [filJob EXCEPT ![t] = job]
  BY <1>1, <1>2
<1>4. d \in FilDirs /\ FilParent[d] \in FilDirs \cup {FilRoot} /\ d # FilRoot
  BY <1>2, FilAssumption DEF FilJobOK
<1>5. /\ DOMAIN job = {"file", "bytes", "dirs", "down", "todo"} /\ job.file = filJob[t].file
      /\ job.todo = filJob[t].todo /\ job.dirs = <<FilParent[d]>>
  BY <1>2 DEF FilJobOK
<1> HIDE DEF job
<1>6. FilJobOK("look", job)
  BY SMTT(30), <1>2, <1>4, <1>5 DEF FilJobOK
<1>7. /\ FilTypeOK' /\ FilJobs' /\ filPc'[t] = "look" /\ filJob'[t] = job
      /\ \A s \in FilThreads : s # t => filPc'[s] = filPc[s] /\ filJob'[s] = filJob[s]
  <2>1. filOps' \in Nat /\ filTree' \subseteq FilDirs
    BY <1>1, <1>2
  <2> QED
    BY <1>1, <1>3, <1>6, <2>1, FilGoes
<1>8. /\ \A e : e \in filTree' => e \in filTree
      /\ \A e : (e \in filTree /\ e \notin filTree') => (e = d /\ FilChildren(d) = {})
      /\ FilChildren(d) = {} => d \notin filTree'
  BY <1>1
<1>9. filBytes' = filBytes
  BY <1>1
<1>10. Head(job.dirs) = FilParent[d]
  BY <1>4, <1>5
<1>11. FilKeeps'
  BY <1>1, <1>7, FilKeepsAre
<1>12. \A e : TendsBy(filPc[t], filJob[t], e) <=> e = d
  BY <1>1 DEF TendsBy
<1>13. filLitter' = filLitter
  BY <1>1
<1> HIDE DEF d
<1>14. FilParents'
  <2>1. ASSUME NEW p, FilThere(p), p # d \/ FilChildren(d) # {}
        PROVE  FilThere(p)'
    BY <1>8, <2>1 DEF FilThere
  <2>2. \A f \in FilNames : filBytes[f] # FilNone => FilThere(FilParent[f])'
    <3>1. ASSUME NEW f \in FilNames, filBytes[f] # FilNone
          PROVE  FilThere(FilParent[f])'
      <4>1. FilThere(FilParent[f])
        BY <3>1 DEF FilInv, FilParents
      <4>2. FilParent[f] = d => FilChildren(d) # {}
        BY <3>1 DEF FilChildren
      <4> QED
        BY <2>1, <4>1, <4>2
    <3> QED
      BY <3>1
  <2>3. \A e \in filTree' : FilThere(FilParent[e])'
    <3>1. ASSUME NEW e \in filTree'
          PROVE  FilThere(FilParent[e])'
      <4>1. FilThere(FilParent[e])
        BY <1>8, <3>1 DEF FilInv, FilParents
      <4>2. FilParent[e] = d => FilChildren(d) # {}
        BY <1>8, <3>1 DEF FilChildren
      <4> QED
        BY <2>1, <4>1, <4>2
    <3> QED
      BY <3>1
  <2> QED
    BY <1>9, <2>2, <2>3 DEF FilParents
<1>15. FilTended'
  <2>1. ASSUME NEW e \in filTree', (FilChildren(e))' = {}
        PROVE  \/ TendsBy(filPc'[t], filJob'[t], e)
               \/ e \in filTree /\ FilChildren(e) = {} /\ ~TendsBy(filPc[t], filJob[t], e)
    <3>1. CASE e = FilParent[d]
      BY <1>7, <1>10, <3>1 DEF TendsBy
    <3>2. CASE e # FilParent[d]
      <4>1. FilChildren(e) \subseteq (FilChildren(e))'
        BY <1>8, <1>9, <3>2 DEF FilChildren
      <4>2. e # d
        BY <1>8, <2>1, <4>1
      <4> QED
        BY <1>8, <1>12, <2>1, <4>1, <4>2
    <3> QED
      BY <3>1, <3>2
  <2> QED
    BY <1>7, <1>13, <2>1, FilTends
<1> QED
  BY <1>7, <1>11, <1>14, <1>15 DEF FilInv

\* A stutter changes nothing.
LEMMA FilStutters ==
  ASSUME FilInv, UNCHANGED filVars
  PROVE  FilInv'
BY DEF filVars, FilInv, FilTypeOK, FilJobs, FilJobOK, FilChain, FilParents, FilThere, FilKeeps, FilWriters,
       FilTended, FilChildren, TendsBy

\* The job of every thread is in order, directories are there for what is in
\* them, what is known of a file is in it, and every empty directory is somebody's.
LEMMA FilIsInv ==
  FilSpec => []FilInv
<1>1. FilInit => FilInv
  <2> SUFFICES ASSUME FilInit
               PROVE  FilInv
    OBVIOUS
  <2>1. \A t \in FilThreads : filPc[t] = "idle" /\ filJob[t] = NoFilJob
    BY DEF FilInit
  <2>2. FilTypeOK
    BY <2>1 DEF FilInit, FilTypeOK, NoFilJob
  <2>3. FilJobs
    BY <2>1, FilIdle DEF FilInit, FilJobs
  <2>4. FilParents /\ FilTended
    BY DEF FilInit, FilParents, FilTended
  <2>5. FilKeeps
    BY <2>1 DEF FilInit, FilKeeps, FilWriters
  <2> QED
    BY <2>2, <2>3, <2>4, <2>5 DEF FilInv
<1>2. FilInv /\ [FilNext]_filVars => FilInv'
  <2> SUFFICES ASSUME FilInv, [FilNext]_filVars
               PROVE  FilInv'
    OBVIOUS
  <2>1. CASE UNCHANGED filVars
    BY <2>1, FilStutters
  <2>2. ASSUME NEW t \in FilThreads, NEW f \in FilNames, FilPut(t, f) \/ FilDelete(t, {f})
        PROVE  FilInv'
    BY <2>2, FilPutStep, FilDeleteStep
  <2>3. ASSUME NEW t \in FilThreads, NEW d \in FilDirs, FilDelete(t, FilListed(d))
        PROVE  FilInv'
    <3>1. FilListed(d) \in SUBSET FilNames
      BY DEF FilListed
    <3> QED
      BY <2>3, <3>1, FilDeleteStep
  <2>4. ASSUME NEW t \in FilThreads, FilMkdir(t) \/ FilTruncate(t) \/ FilFill(t)
        PROVE  FilInv'
    BY <2>4, FilMkdirStep, FilTruncateStep, FilFillStep
  <2>5. ASSUME NEW t \in FilThreads, FilNextFile(t) \/ FilRemove(t) \/ FilLook(t) \/ FilPrune(t) \/ FilDeleted(t)
        PROVE  FilInv'
    BY <2>5, FilNextFileStep, FilRemoveStep, FilLookStep, FilPruneStep, FilDeletedStep
  <2>6. ASSUME NEW t \in FilThreads, FilCrash(t)
        PROVE  FilInv'
    BY <2>6, FilGivesUp DEF FilCrash
  <2> QED
    BY <2>1, <2>2, <2>3, <2>4, <2>5, <2>6 DEF FilNext
<1> QED
  BY <1>1, <1>2, PTL DEF FilSpec

\* Pruning takes no file with it and leaves no empty directory.
LEMMA FilTellsAll ==
  FilInv => FilesSurvivePruning
<1> SUFFICES ASSUME FilInv
             PROVE  FilesSurvivePruning
  OBVIOUS
<1>1. \A f \in FilNames : /\ filKept[f] # FilNone => filBytes[f] = filKept[f]
                          /\ filBytes[f] # FilNone => FilThere(FilParent[f])
  BY DEF FilInv, FilKeeps, FilParents
<1>2. \A d \in filTree : FilThere(FilParent[d])
  BY DEF FilInv, FilParents
<1>3. ASSUME ~filLitter, \A t \in FilThreads : filPc[t] = "idle"
      PROVE  \A d \in filTree : FilChildren(d) # {}
  BY <1>3 DEF FilInv, FilTended, TendsBy
<1> QED
  BY <1>1, <1>2, <1>3 DEF FilesSurvivePruning

\* Whatever is put, deleted and pruned around a file whose put has reported
\* success, by any number of callers that may die at any step, its content and
\* its directory are there; and no empty directory is left behind by a delete.
THEOREM FilInvariant ==
  FilSpec => [](FilTypeOK /\ FilesSurvivePruning)
BY FilIsInv, FilTellsAll, PTL DEF FilInv

\* Saved types outlive seeding and put files the pruning of directories; a
\* secret stays until one of the deletions that SecretsStay names.
THEOREM StoresKeep ==
  TypSpec /\ SecSpec /\ FilSpec => []KeptUntilDeleted
BY TypInvariant, SecInvariant, FilInvariant, PTL DEF KeptUntilDeleted

------------------------------------------------------------------------------
(* The environment variables                                                 *)

\* The memory has what the config has, and knows that the config has it.
Synced(var) ==
    var \in DOMAIN Persisted =>
        var \in envMarks /\ var \in DOMAIN envStore /\ envStore[var] = Persisted[var]

\* How far a call has brought its variable at each step.
EnvCallOK(pc, call) ==
    pc # "idle" =>
        /\ call.var \in EnvNames /\ call.value \in EnvValues
        /\ call.var \notin envRaced =>
              /\ pc = "persist" => Synced(call.var)
              /\ pc = "mark" => call.var \in DOMAIN Persisted
              /\ pc \in {"mark", "store"} /\ call.var \in DOMAIN Persisted =>
                    Persisted[call.var] = call.value
              /\ pc = "store" /\ call.var \in DOMAIN Persisted => call.var \in envMarks

EnvCallsOK ==
    /\ DOMAIN envCall = EnvThreads
    /\ \A t \in EnvThreads : EnvCallOK(envPc[t], envCall[t])

\* Of two calls of one variable that are in flight it is known that they raced.
EnvRaces ==
    \A s, t \in EnvThreads :
        s # t /\ envPc[s] # "idle" /\ envPc[t] # "idle" /\ envCall[s].var = envCall[t].var =>
            envCall[t].var \in envRaced

EnvPersisted ==
    /\ DOMAIN Persisted \subseteq EnvNames
    /\ \A var \in DOMAIN Persisted : Persisted[var] \in EnvValues

EnvAtRest == \A var \in EnvNames \ envRaced : InFlight(var) \/ Synced(var)

EnvInv == EnvTypeOK /\ EnvCallsOK /\ EnvRaces /\ EnvPersisted /\ EnvAtRest

\* A write of the config persists one variable and leaves the others.
LEMMA PersistedIs ==
  ASSUME EnvPersisted, NEW var \in EnvNames, NEW value \in EnvValues,
         envConfig' = SetEnvVar(envConfig, var, value)
  PROVE  /\ EnvPersisted' /\ DOMAIN Persisted' = DOMAIN Persisted \cup {var}
         /\ Persisted'[var] = value
         /\ \A other \in DOMAIN Persisted : other # var => Persisted'[other] = Persisted[other]
<1> DEFINE map == Insert(Persisted, var, value)
<1>1. envConfig' = Insert(envConfig, EnvVars, map)
  BY DEF SetEnvVar, Persisted
<1>2. /\ DOMAIN map = DOMAIN Persisted \cup {var} /\ map[var] = value
      /\ \A other \in DOMAIN Persisted : other # var => map[other] = Persisted[other]
  BY DEF Insert, Over
<1>3. DOMAIN map \subseteq EnvNames /\ \A other \in DOMAIN map : map[other] \in EnvValues
  BY <1>2 DEF EnvPersisted
<1>4. map \in [DOMAIN map -> EnvValues]
  <2>1. map = [k \in DOMAIN map |-> map[k]]
    BY DEF Insert, Over
  <2> HIDE DEF map
  <2> QED
    BY <1>3, <2>1
<1>5. map # BadType
  BY <1>3, <1>4, EnvAssumption
<1> HIDE DEF map
<1>6. EnvVars \in DOMAIN envConfig' /\ envConfig'[EnvVars] = map
  BY <1>1 DEF Insert, Over
<1>7. Persisted' = map
  BY <1>5, <1>6 DEF Persisted, Field, Has
<1> QED
  BY <1>2, <1>3, <1>7 DEF EnvPersisted

\* A call begins.
LEMMA SetEnvStep ==
  ASSUME EnvInv, NEW t \in EnvThreads, NEW var \in EnvNames, NEW value \in EnvValues,
         NEW persist \in BOOLEAN, SetEnv(t, var, value, persist)
  PROVE  EnvInv'
<1> DEFINE sticky == persist \/ var \in envMarks
           call == [var |-> var, value |-> value, persist |-> sticky]
           pc == IF sticky THEN "persist" ELSE "store"
<1>1. /\ envPc[t] = "idle" /\ envPc' = [envPc EXCEPT ![t] = pc] /\ envCall' = [envCall EXCEPT ![t] = call]
      /\ UNCHANGED <<envConfig, envStore, envMarks, envRestarts>>
      /\ envRaced' = IF \E s \in EnvThreads : envPc[s] # "idle" /\ envCall[s].var = var
                     THEN envRaced \cup {var} ELSE envRaced
  BY DEF SetEnv
<1>2. /\ envPc \in [EnvThreads -> {"idle", "persist", "mark", "store"}] /\ DOMAIN envCall = EnvThreads
      /\ \A s \in EnvThreads : EnvCallOK(envPc[s], envCall[s])
  BY DEF EnvInv, EnvTypeOK, EnvCallsOK
<1>3. /\ call.var = var /\ call.value = value /\ pc \in {"persist", "store"}
      /\ pc = "store" => var \notin envMarks
  OBVIOUS
<1> HIDE DEF sticky, call, pc
<1>4. /\ envPc' \in [EnvThreads -> {"idle", "persist", "mark", "store"}] /\ DOMAIN envCall' = EnvThreads
      /\ envPc'[t] = pc /\ envCall'[t] = call
      /\ \A s \in EnvThreads : s # t => envPc'[s] = envPc[s] /\ envCall'[s] = envCall[s]
  BY <1>1, <1>2, <1>3
<1>5. /\ envRaced \subseteq envRaced' /\ envRaced' \subseteq envRaced \cup {var}
      /\ (\E s \in EnvThreads : envPc[s] # "idle" /\ envCall[s].var = var) => var \in envRaced'
  BY <1>1
<1>6. Persisted' = Persisted /\ envMarks' = envMarks /\ envStore' = envStore
  BY <1>1 DEF Persisted
<1>7. var \notin envRaced' => Synced(var)
  BY <1>5 DEF EnvInv, EnvAtRest, InFlight
<1>8. EnvTypeOK' /\ EnvPersisted'
  BY <1>1, <1>4, <1>5, <1>6 DEF EnvInv, EnvTypeOK, EnvPersisted
<1>9. EnvRaces'
  <2>1. ASSUME NEW s \in EnvThreads, NEW r \in EnvThreads, s # r, envPc'[s] # "idle", envPc'[r] # "idle",
               envCall'[s].var = envCall'[r].var
        PROVE  envCall'[r].var \in envRaced'
    BY <1>3, <1>4, <1>5, <2>1 DEF EnvInv, EnvRaces
  <2> QED
    BY <2>1 DEF EnvRaces
<1>10. EnvCallsOK'
  <2>1. ASSUME NEW s \in EnvThreads
        PROVE  EnvCallOK(envPc[s], envCall[s])'
    <3>1. CASE s = t
      BY <1>3, <1>4, <1>6, <1>7, <3>1 DEF EnvCallOK, Synced
    <3>2. CASE s # t
      BY <1>2, <1>4, <1>5, <1>6, <3>2 DEF EnvCallOK, Synced
    <3> QED
      BY <3>1, <3>2
  <2>2. (\A s \in EnvThreads : EnvCallOK(envPc[s], envCall[s]))'
    BY <2>1
  <2> QED
    BY <1>4, <2>2 DEF EnvCallsOK
<1>11. EnvAtRest'
  <2>1. ASSUME NEW v \in EnvNames, v \notin envRaced'
        PROVE  InFlight(v)' \/ Synced(v)'
    <3>1. InFlight(v) \/ Synced(v)
      BY <1>5, <2>1 DEF EnvInv, EnvAtRest
    <3>2. InFlight(v) => InFlight(v)'
      BY <1>1, <1>4 DEF InFlight
    <3>3. Synced(v)' <=> Synced(v)
      BY <1>6 DEF Synced
    <3> QED
      BY <3>1, <3>2, <3>3
  <2>2. (\A v \in EnvNames \ envRaced : InFlight(v) \/ Synced(v))'
    BY <2>1
  <2> QED
    BY <2>2 DEF EnvAtRest
<1> QED
  BY <1>8, <1>9, <1>10, <1>11 DEF EnvInv

\* A call goes on: to its next step, or to its end with its variable in sync.
LEMMA EnvGoes ==
  ASSUME EnvInv, NEW t \in EnvThreads, NEW pc \in {"idle", "persist", "mark", "store"},
         envPc[t] # "idle", envPc' = [envPc EXCEPT ![t] = pc],
         envCall' = envCall \/ (pc = "idle" /\ envCall' = [envCall EXCEPT ![t] = NoCall]),
         envRaced' = envRaced, EnvTypeOK', EnvPersisted',
         pc # "idle" => EnvCallOK(pc, envCall[t])',
         pc = "idle" /\ envCall[t].var \notin envRaced =>
            \A var \in EnvNames : var = envCall[t].var => Synced(var)',
         \A var \in EnvNames : var # envCall[t].var =>
            /\ var \in envMarks' <=> var \in envMarks
            /\ var \in DOMAIN envStore' <=> var \in DOMAIN envStore
            /\ var \in DOMAIN Persisted' <=> var \in DOMAIN Persisted
            /\ var \in DOMAIN envStore => envStore'[var] = envStore[var]
            /\ var \in DOMAIN Persisted => Persisted'[var] = Persisted[var]
  PROVE  EnvInv'
<1>1. /\ envPc \in [EnvThreads -> {"idle", "persist", "mark", "store"}] /\ DOMAIN envCall = EnvThreads
      /\ \A s \in EnvThreads : EnvCallOK(envPc[s], envCall[s])
      /\ \A s, r \in EnvThreads :
            s # r /\ envPc[s] # "idle" /\ envPc[r] # "idle" /\ envCall[s].var = envCall[r].var =>
               envCall[r].var \in envRaced
  BY DEF EnvInv, EnvTypeOK, EnvCallsOK, EnvRaces
<1>2. /\ DOMAIN envCall' = EnvThreads /\ envPc'[t] = pc /\ (pc # "idle" => envCall'[t] = envCall[t])
      /\ \A s \in EnvThreads : s # t => envPc'[s] = envPc[s] /\ envCall'[s] = envCall[s]
  BY <1>1
<1>3. envCall[t].var \in EnvNames
  BY <1>1 DEF EnvCallOK
<1>4. EnvRaces'
  BY <1>1, <1>2 DEF EnvRaces
<1>5. \A var \in EnvNames : var # envCall[t].var => (Synced(var)' <=> Synced(var))
  BY DEF Synced
<1>6. EnvCallsOK'
  <2>1. ASSUME NEW s \in EnvThreads
        PROVE  EnvCallOK(envPc[s], envCall[s])'
    <3>1. CASE s = t
      BY <1>2, <3>1 DEF EnvCallOK
    <3>2. CASE s # t /\ envPc[s] # "idle"
      <4>1. EnvCallOK(envPc[s], envCall[s]) /\ envPc'[s] = envPc[s] /\ envCall'[s] = envCall[s]
        BY <1>1, <1>2, <3>2
      <4>2. CASE envCall[s].var \in envRaced
        BY <4>1, <4>2 DEF EnvCallOK
      <4>3. CASE envCall[s].var \notin envRaced
        <5>1. envCall[s].var # envCall[t].var /\ envCall[s].var \in EnvNames
          BY <1>1, <3>2, <4>1, <4>3 DEF EnvCallOK
        <5>2. Synced(envCall[s].var)' <=> Synced(envCall[s].var)
          BY <1>5, <4>1, <5>1 DEF Synced
        <5> QED
          BY <4>1, <5>1, <5>2 DEF EnvCallOK
      <4> QED
        BY <4>2, <4>3
    <3>3. CASE s # t /\ envPc[s] = "idle"
      BY <1>2, <3>3 DEF EnvCallOK
    <3> QED
      BY <3>1, <3>2, <3>3
  <2>2. (\A s \in EnvThreads : EnvCallOK(envPc[s], envCall[s]))'
    BY <2>1
  <2> QED
    BY <1>2, <2>2 DEF EnvCallsOK
<1>7. EnvAtRest'
  <2>1. ASSUME NEW v \in EnvNames, v \notin envRaced
        PROVE  InFlight(v)' \/ Synced(v)'
    <3>1. CASE v = envCall[t].var
      <4>1. CASE pc = "idle"
        BY <2>1, <3>1, <4>1
      <4>2. CASE pc # "idle"
        BY <1>2, <3>1, <4>2 DEF InFlight
      <4> QED
        BY <4>1, <4>2
    <3>2. CASE v # envCall[t].var
      <4>1. InFlight(v) \/ Synced(v)
        BY <2>1 DEF EnvInv, EnvAtRest
      <4>2. InFlight(v) => InFlight(v)'
        BY <1>2, <3>2 DEF InFlight
      <4> QED
        BY <1>5, <3>2, <4>1, <4>2
    <3> QED
      BY <3>1, <3>2
  <2>2. (\A v \in EnvNames \ envRaced : InFlight(v) \/ Synced(v))'
    BY <2>1
  <2> QED
    BY <2>2 DEF EnvAtRest
<1> QED
  BY <1>4, <1>6, <1>7 DEF EnvInv

\* The config has the value now.
LEMMA PersistVarStep ==
  ASSUME EnvInv, NEW t \in EnvThreads, PersistVar(t)
  PROVE  EnvInv'
<1> DEFINE var == envCall[t].var
           value == envCall[t].value
<1>1. /\ envPc[t] = "persist" /\ envPc' = [envPc EXCEPT ![t] = "mark"]
      /\ envConfig' = SetEnvVar(envConfig, var, value)
      /\ envCall' = envCall /\ envRaced' = envRaced /\ envMarks' = envMarks /\ envStore' = envStore
  BY DEF PersistVar
<1>2. var \in EnvNames /\ value \in EnvValues /\ EnvPersisted
  BY <1>1 DEF EnvInv, EnvCallsOK, EnvCallOK
<1>3. /\ EnvPersisted' /\ DOMAIN Persisted' = DOMAIN Persisted \cup {var} /\ Persisted'[var] = value
      /\ \A other \in DOMAIN Persisted : other # var => Persisted'[other] = Persisted[other]
  <2> HIDE DEF var, value
  <2> QED
    BY <1>1, <1>2, PersistedIs
<1>4. EnvTypeOK'
  BY <1>1 DEF EnvInv, EnvTypeOK
<1>5. EnvCallOK("mark", envCall[t])'
  BY <1>1, <1>2, <1>3 DEF EnvCallOK
<1>6. \A other \in EnvNames : other # envCall[t].var =>
            /\ other \in envMarks' <=> other \in envMarks
            /\ other \in DOMAIN envStore' <=> other \in DOMAIN envStore
            /\ other \in DOMAIN Persisted' <=> other \in DOMAIN Persisted
            /\ other \in DOMAIN envStore => envStore'[other] = envStore[other]
            /\ other \in DOMAIN Persisted => Persisted'[other] = Persisted[other]
  BY <1>1, <1>3
<1> QED
  BY <1>1, <1>3, <1>4, <1>5, <1>6, EnvGoes

\* The config could not be written: nothing has changed.
LEMMA PersistFailsStep ==
  ASSUME EnvInv, NEW t \in EnvThreads, PersistFails(t)
  PROVE  EnvInv'
<1>1. /\ envPc[t] = "persist" /\ envPc' = [envPc EXCEPT ![t] = "idle"]
      /\ envCall' = [envCall EXCEPT ![t] = NoCall] /\ envRaced' = envRaced
      /\ envMarks' = envMarks /\ envStore' = envStore /\ Persisted' = Persisted
  BY DEF PersistFails, Persisted
<1>2. EnvTypeOK' /\ EnvPersisted'
  BY <1>1 DEF EnvInv, EnvTypeOK, EnvPersisted
<1>3. envCall[t].var \notin envRaced =>
         \A var \in EnvNames : var = envCall[t].var => Synced(var)'
  BY <1>1 DEF EnvInv, EnvCallsOK, EnvCallOK, Synced
<1> QED
  BY <1>1, <1>2, <1>3, EnvGoes

\* The process knows that the config has it.
LEMMA MarkVarStep ==
  ASSUME EnvInv, NEW t \in EnvThreads, MarkVar(t)
  PROVE  EnvInv'
<1>1. /\ envPc[t] = "mark" /\ envPc' = [envPc EXCEPT ![t] = "store"] /\ envCall' = envCall
      /\ envMarks' = envMarks \cup {envCall[t].var} /\ envRaced' = envRaced /\ envStore' = envStore
      /\ Persisted' = Persisted
  BY DEF MarkVar, Persisted
<1>2. envCall[t].var \in EnvNames /\ EnvCallOK("mark", envCall[t])
  BY <1>1 DEF EnvInv, EnvCallsOK, EnvCallOK
<1>3. EnvTypeOK' /\ EnvPersisted'
  BY <1>1, <1>2 DEF EnvInv, EnvTypeOK, EnvPersisted
<1>4. EnvCallOK("store", envCall[t])'
  BY <1>1, <1>2 DEF EnvCallOK
<1> QED
  BY <1>1, <1>3, <1>4, EnvGoes

\* The memory has the value now.
LEMMA StoreVarStep ==
  ASSUME EnvInv, NEW t \in EnvThreads, StoreVar(t)
  PROVE  EnvInv'
<1> DEFINE var == envCall[t].var
           value == envCall[t].value
<1>1. /\ envPc[t] = "store" /\ envPc' = [envPc EXCEPT ![t] = "idle"]
      /\ envCall' = [envCall EXCEPT ![t] = NoCall] /\ envRaced' = envRaced
      /\ envMarks' = envMarks /\ envStore' = Insert(envStore, var, value) /\ Persisted' = Persisted
  BY DEF StoreVar, Persisted
<1>2. var \in EnvNames /\ EnvCallOK("store", envCall[t])
  BY <1>1 DEF EnvInv, EnvCallsOK, EnvCallOK
<1>3. /\ DOMAIN envStore' = DOMAIN envStore \cup {var} /\ envStore'[var] = value
      /\ \A other \in DOMAIN envStore : other # var => envStore'[other] = envStore[other]
  BY <1>1 DEF Insert, Over
<1>4. EnvTypeOK' /\ EnvPersisted'
  BY <1>1, <1>2, <1>3 DEF EnvInv, EnvTypeOK, EnvPersisted
<1>5. envCall[t].var \notin envRaced =>
         \A v \in EnvNames : v = envCall[t].var => Synced(v)'
  BY <1>1, <1>2, <1>3 DEF EnvCallOK, Synced
<1>6. \A other \in EnvNames : other # envCall[t].var =>
            /\ other \in envMarks' <=> other \in envMarks
            /\ other \in DOMAIN envStore' <=> other \in DOMAIN envStore
            /\ other \in DOMAIN Persisted' <=> other \in DOMAIN Persisted
            /\ other \in DOMAIN envStore => envStore'[other] = envStore[other]
            /\ other \in DOMAIN Persisted => Persisted'[other] = Persisted[other]
  BY <1>1, <1>3
<1> QED
  BY <1>1, <1>4, <1>5, <1>6, EnvGoes

\* A new process reads the system environment and the config.
LEMMA EnvRestartStep ==
  ASSUME EnvInv, EnvRestart
  PROVE  EnvInv'
<1>1. /\ envStore' = Over(Persisted, EnvMapped) /\ envMarks' = DOMAIN Persisted
      /\ envPc' = [t \in EnvThreads |-> "idle"] /\ envCall' = [t \in EnvThreads |-> NoCall]
      /\ envRaced' = envRaced /\ Persisted' = Persisted
  BY DEF EnvRestart, Seed, Persisted
<1>2. EnvPersisted /\ EnvPersisted'
  BY <1>1 DEF EnvInv, EnvPersisted
<1>3. /\ DOMAIN envStore' = DOMAIN Persisted \cup DOMAIN EnvMapped
      /\ \A var \in DOMAIN Persisted : envStore'[var] = Persisted[var]
  BY <1>1 DEF Over
<1>4. \A var : Synced(var)'
  BY <1>1, <1>3 DEF Synced
<1>5. EnvTypeOK'
  BY <1>1, <1>2, <1>3, EnvAssumption DEF EnvInv, EnvTypeOK, EnvPersisted
<1>6. EnvCallsOK' /\ EnvRaces'
  BY <1>1 DEF EnvCallsOK, EnvCallOK, EnvRaces
<1>7. EnvAtRest'
  BY <1>4 DEF EnvAtRest
<1> QED
  BY <1>2, <1>5, <1>6, <1>7 DEF EnvInv

\* What every call leaves behind is its step's part of the work, done.
LEMMA EnvIsInv ==
  EnvSpec => []EnvInv
<1>1. EnvInit => EnvInv
  <2> SUFFICES ASSUME EnvInit
               PROVE  EnvInv
    OBVIOUS
  <2>1. DOMAIN Persisted = {}
    BY DEF EnvInit, Persisted, Field, Has, EmptyObject
  <2>2. EnvTypeOK /\ EnvCallsOK /\ EnvRaces
    BY EnvAssumption DEF EnvInit, EnvTypeOK, EnvCallsOK, EnvCallOK, EnvRaces
  <2> QED
    BY <2>1, <2>2 DEF EnvInv, EnvPersisted, EnvAtRest, Synced
<1>2. EnvInv /\ [EnvNext]_envVars => EnvInv'
  <2> SUFFICES ASSUME EnvInv, [EnvNext]_envVars
               PROVE  EnvInv'
    OBVIOUS
  <2>1. CASE UNCHANGED envVars
    BY <2>1 DEF envVars, EnvInv, EnvTypeOK, EnvCallsOK, EnvCallOK, EnvRaces, EnvPersisted, EnvAtRest, Synced,
                InFlight, Persisted
  <2>2. CASE EnvNext
    BY <2>2, SetEnvStep, PersistVarStep, PersistFailsStep, MarkVarStep, StoreVarStep, EnvRestartStep DEF EnvNext
  <2> QED
    BY <2>1, <2>2
<1> QED
  BY <1>1, <1>2, PTL DEF EnvSpec

\* Whatever calls fail, end with their process or wait for each other: while no
\* call of a variable is in flight, get-env answers with what the config has of
\* it, which is what the next process starts with.
THEOREM EnvSticks ==
  EnvSpec => [](EnvTypeOK /\ StickyPersistence)
<1>1. EnvInv => EnvTypeOK /\ StickyPersistence
  <2> SUFFICES ASSUME EnvInv
               PROVE  EnvTypeOK /\ StickyPersistence
    OBVIOUS
  <2>1. ASSUME NEW var \in DOMAIN Persisted, var \notin envRaced, ~InFlight(var)
        PROVE  GetEnv(var) = Persisted[var]
    <3>1. Synced(var) /\ Persisted[var] \in EnvValues
      BY <2>1 DEF EnvInv, EnvPersisted, EnvAtRest
    <3> QED
      BY <2>1, <3>1, EnvAssumption DEF Synced, GetEnv, Field, Has
  <2> QED
    BY <2>1 DEF EnvInv, StickyPersistence
<1> QED
  BY <1>1, EnvIsInv, PTL

------------------------------------------------------------------------------
(* The actions                                                               *)

\* What is to be stored has every secret, as it is stored, that came in redacted.
Restores(config, incoming, existing) ==
    \A p \in Echoes(incoming) : \A q \in Stored(existing, p) :
        q \in DOMAIN config /\ config[q] = existing[q]

ActRowOK(row) ==
    /\ DOMAIN row = {"caption", "config", "trusted", "executable"}
    /\ row.caption \in ActCaptions \cup {Omitted}
    /\ {row.trusted, row.executable} \subseteq BOOLEAN
    /\ Echoes(row.config) = {}

Plain(row) == row # Omitted => ~row.executable

\* What a save or a seeding goes by at each step, if nobody met it on its row.
ActJobOK(pc, job, rows) ==
    /\ job = [f \in {"key", "input", "row", "new", "guarded", "alone", "todo"} |-> job[f]]
    /\ {job.new, job.guarded, job.alone} \subseteq BOOLEAN /\ job.todo \subseteq ActKeys
    /\ pc \in {"idle", "seed"} => job.key = Omitted /\ ~job.guarded /\ job.alone
    /\ pc \in {"guarded", "write"} => job.key \in ActKeys
    /\ pc \in {"guarded", "write"} /\ job.guarded /\ job.alone => Plain(rows[job.key])
    /\ pc = "write" => ActRowOK(job.row)
    /\ pc = "write" /\ job.guarded /\ job.alone => ~job.row.executable
    /\ pc = "write" /\ job.alone /\ ~job.new =>
          Restores(job.row.config, job.input, rows[job.key].config)

ActInv ==
    /\ actPc \in [ActThreads -> {"idle", "guarded", "write", "seed"}]
    /\ DOMAIN actRows = ActKeys
    /\ \A k \in ActKeys : actRows[k] # Omitted => ActRowOK(actRows[k])
    /\ DOMAIN actJob = ActThreads
    /\ \A t \in ActThreads : ActJobOK(actPc[t], actJob[t], actRows)

\* What a merge stores has no sentinel and every secret that it stands for.
LEMMA UnmaskIs ==
  ASSUME NEW incoming, NEW existing, Echoes(existing) = {}
  PROVE  /\ Echoes(UnmaskMerge(incoming, existing)) = {}
         /\ Restores(UnmaskMerge(incoming, existing), incoming, existing)
<1> DEFINE restored == UNION {Stored(existing, p) : p \in Echoes(incoming)}
           merged == UnmaskMerge(incoming, existing)
<1>1. /\ DOMAIN merged = (DOMAIN incoming \ Echoes(incoming)) \cup restored
      /\ \A q \in DOMAIN merged : merged[q] = IF q \in restored THEN existing[q] ELSE incoming[q]
  BY DEF UnmaskMerge
<1>2. \A q \in restored : q \in DOMAIN existing /\ existing[q] # Mask
  BY DEF Stored, Echoes
<1>3. \A p \in Echoes(incoming) : \A q \in Stored(existing, p) : q \in restored
  OBVIOUS
<1> HIDE DEF restored, merged
<1>4. Echoes(merged) = {}
  <2>1. ASSUME NEW q \in DOMAIN merged
        PROVE  merged[q] # Mask
    BY <1>1, <1>2, <2>1 DEF Echoes
  <2> QED
    BY <2>1 DEF Echoes
<1>5. Restores(merged, incoming, existing)
  BY <1>1, <1>3 DEF Restores
<1> QED
  BY <1>4, <1>5 DEF merged

\* The job of a thread on whose row, if it is k, another one makes a statement.
Met(job, k) == [job EXCEPT !.alone = @ /\ job.key # k]

\* A statement on one row leaves the jobs on the others in order, and takes
\* the promise from those on the same row.
LEMMA ActMet ==
  ASSUME NEW pc, NEW job, NEW rows, NEW after, NEW k, k # Omitted, ActJobOK(pc, job, rows),
         \A j \in ActKeys : j # k => after[j] = rows[j]
  PROVE  ActJobOK(pc, Met(job, k), after)
<1> DEFINE met == Met(job, k)
<1>1. job = [f \in {"key", "input", "row", "new", "guarded", "alone", "todo"} |-> job[f]]
  BY DEF ActJobOK
<1>2. /\ met = [f \in {"key", "input", "row", "new", "guarded", "alone", "todo"} |-> met[f]]
      /\ met.key = job.key /\ met.input = job.input /\ met.row = job.row /\ met.new = job.new /\ met.todo = job.todo
      /\ met.guarded = job.guarded /\ met.alone = (job.alone /\ job.key # k)
  BY <1>1 DEF Met
<1> HIDE DEF met
<1>3. met.alone \in BOOLEAN /\ (met.alone => job.alone /\ job.key # k)
      /\ (job.alone /\ job.key = Omitted => met.alone)
  BY <1>2
<1>4. ActJobOK(pc, met, after)
  <2>1. {met.new, met.guarded, met.alone} \subseteq BOOLEAN /\ met.todo \subseteq ActKeys
    BY <1>2, <1>3 DEF ActJobOK
  <2>2. pc \in {"idle", "seed"} => met.key = Omitted /\ ~met.guarded /\ met.alone
    BY <1>2, <1>3 DEF ActJobOK
  <2>3. pc \in {"guarded", "write"} => met.key \in ActKeys
    BY <1>2 DEF ActJobOK
  <2>4. pc \in {"guarded", "write"} /\ met.guarded /\ met.alone => Plain(after[met.key])
    <3>1. pc \in {"guarded", "write"} /\ met.guarded /\ met.alone => after[met.key] = rows[job.key]
      BY <1>2, <1>3 DEF ActJobOK
    <3> QED
      BY <1>2, <1>3, <3>1 DEF ActJobOK
  <2>5. pc = "write" => ActRowOK(met.row)
    BY <1>2 DEF ActJobOK
  <2>6. pc = "write" /\ met.guarded /\ met.alone => ~met.row.executable
    BY <1>2, <1>3 DEF ActJobOK
  <2>7. pc = "write" /\ met.alone /\ ~met.new =>
           Restores(met.row.config, met.input, after[met.key].config)
    <3>1. pc = "write" /\ met.alone => after[met.key] = rows[job.key]
      BY <1>2, <1>3 DEF ActJobOK
    <3> QED
      BY <1>2, <1>3, <3>1 DEF ActJobOK
  <2> QED
    BY <1>2, <2>1, <2>2, <2>3, <2>4, <2>5, <2>6, <2>7 DEF ActJobOK
<1> QED
  BY <1>4 DEF met

\* A thread that is at no work.
LEMMA ActIdle ==
  ASSUME NEW rows
  PROVE  ActJobOK("idle", NoActJob, rows)
BY DEF ActJobOK, NoActJob

\* A thread goes on, and the rows stay as they are.
LEMMA ActGoes ==
  ASSUME ActInv, NEW t \in ActThreads, NEW pc \in {"idle", "guarded", "write", "seed"}, NEW job,
         actPc' = [actPc EXCEPT ![t] = pc],
         actJob' = [actJob EXCEPT ![t] = job] \/ (actJob' = actJob /\ actJob[t] = job),
         actRows' = actRows, ActJobOK(pc, job, actRows)
  PROVE  ActInv'
<1>1. /\ DOMAIN actJob' = ActThreads /\ actPc'[t] = pc /\ actJob'[t] = job
      /\ actPc' \in [ActThreads -> {"idle", "guarded", "write", "seed"}]
      /\ \A s \in ActThreads : s # t => actPc'[s] = actPc[s] /\ actJob'[s] = actJob[s]
  BY DEF ActInv
<1>2. \A s \in ActThreads : ActJobOK(actPc'[s], actJob'[s], actRows')
  BY <1>1 DEF ActInv
<1>3. (\A s \in ActThreads : ActJobOK(actPc[s], actJob[s], actRows))'
  BY <1>2
<1>4. DOMAIN actRows' = ActKeys /\ \A k \in ActKeys : actRows'[k] # Omitted => ActRowOK(actRows'[k])
  BY DEF ActInv
<1> QED
  BY <1>1, <1>3, <1>4 DEF ActInv

\* A statement on row k, which thread t (if any) ends or goes on with.
LEMMA ActStates ==
  ASSUME ActInv, NEW t, NEW k, k # Omitted,
         actPc' \in [ActThreads -> {"idle", "guarded", "write", "seed"}],
         \A s \in ActThreads : s # t => actPc'[s] = actPc[s],
         DOMAIN actJob' = ActThreads,
         \A s \in ActThreads : s # t => actJob'[s] = Met(actJob[s], k),
         t \in ActThreads => ActJobOK(actPc'[t], actJob'[t], actRows'),
         DOMAIN actRows' = ActKeys,
         \A j \in ActKeys : j # k => actRows'[j] = actRows[j],
         k \in ActKeys => (actRows'[k] = actRows[k] \/ actRows'[k] = Omitted \/ ActRowOK(actRows'[k]))
  PROVE  ActInv'
<1>1. ASSUME NEW s \in ActThreads
      PROVE  ActJobOK(actPc'[s], actJob'[s], actRows')
  <2>1. CASE s = t
    BY <2>1
  <2>2. CASE s # t
    <3>1. ActJobOK(actPc[s], actJob[s], actRows)
      BY DEF ActInv
    <3>2. ActJobOK(actPc[s], Met(actJob[s], k), actRows')
      BY <3>1, ActMet
    <3> QED
      BY <2>2, <3>2
  <2> QED
    BY <2>1, <2>2
<1>2. (\A s \in ActThreads : ActJobOK(actPc[s], actJob[s], actRows))'
  BY <1>1
<1>3. \A j \in ActKeys : actRows'[j] # Omitted => ActRowOK(actRows'[j])
  BY DEF ActInv
<1>4. (\A j \in ActKeys : actRows[j] # Omitted => ActRowOK(actRows[j]))'
  BY <1>3
<1> QED
  BY <1>2, <1>4 DEF ActInv

\* A save has read the row and merged what came in with it.
LEMMA SaveActionStep ==
  ASSUME ActInv, NEW t \in ActThreads, NEW k \in ActKeys, NEW input,
         input.caption \in ActCaptions \cup {Omitted}, input.trusted \in {TRUE, Omitted},
         input.executable \in BOOLEAN \cup {Omitted},
         actPc[t] = "guarded" => k = actJob[t].key /\ input.executable # TRUE,
         SaveAction(t, k, input)
  PROVE  ActInv'
<1> DEFINE found == actRows[k]
           before == IF found = Omitted
                     THEN [caption |-> Omitted, config |-> NoConfig, trusted |-> FALSE, executable |-> FALSE]
                     ELSE found
           config == IF input.config = Omitted THEN before.config ELSE UnmaskMerge(input.config, before.config)
           merged == [caption |-> Or(input.caption, before.caption), config |-> config,
                      trusted |-> Or(input.trusted, before.trusted),
                      executable |-> Or(input.executable, before.executable)]
           new == found = Omitted
           incoming == Or(input.config, NoConfig)
           job == [actJob[t] EXCEPT !.key = k, !.row = merged, !.new = new, !.input = incoming]
<1>1. /\ actPc[t] \in {"idle", "guarded"} /\ actPc' = [actPc EXCEPT ![t] = "write"]
      /\ actJob' = [actJob EXCEPT ![t].key = k, ![t].row = merged, ![t].new = new, ![t].input = incoming]
      /\ actRows' = actRows
  BY DEF SaveAction
<1>2. /\ before.caption \in ActCaptions \cup {Omitted} /\ before.trusted \in BOOLEAN /\ before.executable \in BOOLEAN
      /\ Echoes(before.config) = {} /\ (found # Omitted => before = found)
      /\ (found = Omitted => before.executable = FALSE)
  <2>1. Echoes(NoConfig) = {}
    BY DEF Echoes, NoConfig
  <2>2. CASE found = Omitted
    <3>1. before.config = NoConfig /\ before.caption = Omitted /\ before.trusted = FALSE /\ before.executable = FALSE
      BY <2>2
    <3> QED
      BY <2>1, <2>2, <3>1
  <2>3. CASE found # Omitted
    BY <2>3 DEF ActInv, ActRowOK
  <2> QED
    BY <2>2, <2>3
<1>3. /\ DOMAIN merged = {"caption", "config", "trusted", "executable"} /\ merged.config = config
      /\ merged.caption = Or(input.caption, before.caption)
      /\ merged.trusted = Or(input.trusted, before.trusted)
      /\ merged.executable = Or(input.executable, before.executable)
  OBVIOUS
<1> HIDE DEF merged
<1>4. Echoes(config) = {} /\ (found # Omitted => Restores(config, incoming, found.config))
  <2>1. CASE input.config = Omitted
    <3>1. config = before.config /\ incoming = NoConfig
      BY <2>1 DEF Or
    <3>2. Echoes(NoConfig) = {}
      BY DEF Echoes, NoConfig
    <3> QED
      BY <1>2, <3>1, <3>2 DEF Restores
  <2>2. CASE input.config # Omitted
    <3>1. config = UnmaskMerge(input.config, before.config) /\ incoming = input.config
      BY <2>2 DEF Or
    <3> QED
      BY <1>2, <3>1, UnmaskIs
  <2> QED
    BY <2>1, <2>2
<1> HIDE DEF config, before
<1>5. ActRowOK(merged)
  BY <1>2, <1>3, <1>4 DEF ActRowOK, Or
<1>6. ActJobOK(actPc[t], actJob[t], actRows) /\ DOMAIN actJob = ActThreads
  BY DEF ActInv
<1>7. /\ actJob' = [actJob EXCEPT ![t] = job]
      /\ job = [f \in {"key", "input", "row", "new", "guarded", "alone", "todo"} |-> job[f]]
      /\ job.key = k /\ job.row = merged /\ job.input = incoming /\ (job.new <=> new) /\ job.new \in BOOLEAN
      /\ job.guarded = actJob[t].guarded /\ job.alone = actJob[t].alone /\ job.todo = actJob[t].todo
  BY <1>1, <1>6 DEF ActJobOK
<1> HIDE DEF job, incoming
<1>8. job.guarded => actPc[t] = "guarded"
  BY <1>1, <1>6, <1>7 DEF ActJobOK
<1>9. job.guarded /\ job.alone => Plain(actRows[job.key]) /\ ~job.row.executable
  <2> SUFFICES ASSUME job.guarded, job.alone
               PROVE  Plain(actRows[job.key]) /\ ~job.row.executable
    OBVIOUS
  <2>1. k = actJob[t].key /\ input.executable # TRUE /\ Plain(actRows[k])
    BY <1>6, <1>7, <1>8 DEF ActJobOK
  <2>2. before.executable = FALSE
    BY <1>2, <2>1 DEF Plain
  <2>3. merged.executable = FALSE
    BY <1>3, <2>1, <2>2 DEF Or
  <2> QED
    BY <1>7, <2>1, <2>3
<1>10. ActJobOK("write", job, actRows)
  <2>1. {job.new, job.guarded, job.alone} \subseteq BOOLEAN /\ job.todo \subseteq ActKeys
    BY <1>6, <1>7 DEF ActJobOK
  <2>2. job.alone /\ ~job.new => Restores(job.row.config, job.input, actRows[job.key].config)
    BY <1>3, <1>4, <1>7
  <2> QED
    BY <1>5, <1>7, <1>9, <2>1, <2>2 DEF ActJobOK
<1> QED
  BY <1>1, <1>7, <1>10, ActGoes

\* What a caller may save of its own accord, and with an edit.
LEMMA SavesAre ==
  ASSUME ActInv, NEW t \in ActThreads,
         \/ \E k \in ActKeys : SaveFresh(t, k) \/ SaveEdited(t, k)
         \/ SaveGuarded(t)
  PROVE  ActInv'
<1>1. ASSUME NEW k \in ActKeys, SaveFresh(t, k)
      PROVE  ActInv'
  <2>1. actPc[t] = "idle" /\ \E input \in ActInputs : SaveAction(t, k, input)
    BY <1>1 DEF SaveFresh
  <2>2. PICK input \in ActInputs : SaveAction(t, k, input)
    BY <2>1
  <2>3. input.caption \in ActCaptions \cup {Omitted} /\ input.trusted \in {TRUE, Omitted}
        /\ input.executable \in BOOLEAN \cup {Omitted}
    BY <2>2 DEF ActInputs
  <2> QED
    BY <2>1, <2>2, <2>3, SaveActionStep
<1>2. ASSUME NEW k \in ActKeys, SaveEdited(t, k)
      PROVE  ActInv'
  <2>1. PICK edit \in ActEdits :
             SaveAction(t, k, [caption |-> Omitted, config |-> Edited(actView[t], edit[1], edit[2]),
                               trusted |-> Omitted, executable |-> Omitted])
    BY <1>2 DEF SaveEdited
  <2> DEFINE input == [caption |-> Omitted, config |-> Edited(actView[t], edit[1], edit[2]),
                       trusted |-> Omitted, executable |-> Omitted]
  <2>2. input.caption \in ActCaptions \cup {Omitted} /\ input.trusted \in {TRUE, Omitted}
        /\ input.executable \in BOOLEAN \cup {Omitted}
    OBVIOUS
  <2>3. actPc[t] = "idle" /\ SaveAction(t, k, input)
    BY <1>2, <2>1 DEF SaveEdited
  <2> HIDE DEF input
  <2> QED
    BY <2>2, <2>3, SaveActionStep
<1>3. ASSUME SaveGuarded(t)
      PROVE  ActInv'
  <2>1. actPc[t] = "guarded"
        /\ \E input \in ActInputs : input.executable # TRUE /\ SaveAction(t, actJob[t].key, input)
    BY <1>3 DEF SaveGuarded
  <2>2. PICK input \in ActInputs : input.executable # TRUE /\ SaveAction(t, actJob[t].key, input)
    BY <2>1
  <2>3. input.caption \in ActCaptions \cup {Omitted} /\ input.trusted \in {TRUE, Omitted}
        /\ input.executable \in BOOLEAN \cup {Omitted}
    BY <2>2 DEF ActInputs
  <2>4. actJob[t].key \in ActKeys
    BY <2>1 DEF ActInv, ActJobOK
  <2> QED
    BY <2>1, <2>2, <2>3, <2>4, SaveActionStep
<1> QED
  BY <1>1, <1>2, <1>3

\* Meets gives t the job of a thread at no work, and meets the others.
LEMMA MeetsIs ==
  ASSUME NEW t, NEW k, actJob' = Meets(t, k)
  PROVE  /\ DOMAIN actJob' = ActThreads /\ (t \in ActThreads => actJob'[t] = NoActJob)
         /\ \A s \in ActThreads : s # t => actJob'[s] = Met(actJob[s], k)
BY DEF Meets, Met

\* A save writes its row, if it is still what it was read to be.
LEMMA WriteActionStep ==
  ASSUME ActInv, NEW t \in ActThreads, WriteAction(t)
  PROVE  ActInv'
<1> DEFINE k == actJob[t].key
           row == actJob[t].row
<1>1. /\ actPc[t] = "write" /\ actPc' = [actPc EXCEPT ![t] = "idle"] /\ actJob' = Meets(t, k)
      /\ actRows' = actRows \/ actRows' = [actRows EXCEPT ![k] = row]
  BY DEF WriteAction
<1>2. k \in ActKeys /\ k # Omitted /\ ActRowOK(row)
  BY <1>1, ActAssumption DEF ActInv, ActJobOK
<1> HIDE DEF k, row
<1>3. /\ DOMAIN actJob' = ActThreads /\ actJob'[t] = NoActJob
      /\ \A s \in ActThreads : s # t => actJob'[s] = Met(actJob[s], k)
  BY <1>1, MeetsIs
<1>4. /\ actPc' \in [ActThreads -> {"idle", "guarded", "write", "seed"}] /\ actPc'[t] = "idle"
      /\ \A s \in ActThreads : s # t => actPc'[s] = actPc[s]
  BY <1>1 DEF ActInv
<1>5. /\ DOMAIN actRows' = ActKeys /\ \A j \in ActKeys : j # k => actRows'[j] = actRows[j]
      /\ actRows'[k] = actRows[k] \/ ActRowOK(actRows'[k])
  BY <1>1, <1>2 DEF ActInv
<1>6. ActJobOK(actPc'[t], actJob'[t], actRows')
  BY <1>3, <1>4, ActIdle
<1> QED
  BY <1>2, <1>3, <1>4, <1>5, <1>6, ActStates

\* A row is deleted, looked at before or not.
LEMMA DeleteActionStep ==
  ASSUME ActInv, (\E k \in ActKeys : DeleteAction(k)) \/ \E t \in ActThreads : DeleteGuarded(t)
  PROVE  ActInv'
<1>1. ASSUME NEW k \in ActKeys, DeleteAction(k)
      PROVE  ActInv'
  <2>1. actPc' = actPc /\ actJob' = Meets(Omitted, k) /\ actRows' = [actRows EXCEPT ![k] = Omitted]
    BY <1>1 DEF DeleteAction
  <2>2. k # Omitted /\ Omitted \notin ActThreads
    BY ActAssumption
  <2>3. DOMAIN actJob' = ActThreads /\ \A s \in ActThreads : s # Omitted => actJob'[s] = Met(actJob[s], k)
    BY <2>1, MeetsIs
  <2>4. /\ DOMAIN actRows' = ActKeys /\ \A j \in ActKeys : j # k => actRows'[j] = actRows[j]
        /\ actRows'[k] = Omitted
    BY <2>1 DEF ActInv
  <2>5. actPc' \in [ActThreads -> {"idle", "guarded", "write", "seed"}]
        /\ \A s \in ActThreads : s # Omitted => actPc'[s] = actPc[s]
    BY <2>1 DEF ActInv
  <2> QED
    BY <2>2, <2>3, <2>4, <2>5, ActStates
<1>2. ASSUME NEW t \in ActThreads, DeleteGuarded(t)
      PROVE  ActInv'
  <2> DEFINE k == actJob[t].key
  <2>1. /\ actPc[t] = "guarded" /\ actPc' = [actPc EXCEPT ![t] = "idle"] /\ actJob' = Meets(t, k)
        /\ actRows' = [actRows EXCEPT ![k] = Omitted]
    BY <1>2 DEF DeleteGuarded
  <2>2. k \in ActKeys /\ k # Omitted
    BY <2>1, ActAssumption DEF ActInv, ActJobOK
  <2> HIDE DEF k
  <2>3. /\ DOMAIN actJob' = ActThreads /\ actJob'[t] = NoActJob
        /\ \A s \in ActThreads : s # t => actJob'[s] = Met(actJob[s], k)
    BY <2>1, MeetsIs
  <2>4. /\ DOMAIN actRows' = ActKeys /\ \A j \in ActKeys : j # k => actRows'[j] = actRows[j]
        /\ actRows'[k] = Omitted
    BY <2>1, <2>2 DEF ActInv
  <2>5. /\ actPc' \in [ActThreads -> {"idle", "guarded", "write", "seed"}] /\ actPc'[t] = "idle"
        /\ \A s \in ActThreads : s # t => actPc'[s] = actPc[s]
    BY <2>1 DEF ActInv
  <2>6. ActJobOK(actPc'[t], actJob'[t], actRows')
    BY <2>3, <2>5, ActIdle
  <2> QED
    BY <2>2, <2>3, <2>4, <2>5, <2>6, ActStates
<1> QED
  BY <1>1, <1>2

\* A built-in is seeded unless its row is there.
LEMMA SeedActionStep ==
  ASSUME ActInv, NEW t \in ActThreads, SeedAction(t)
  PROVE  ActInv'
<1>1. PICK k \in actJob[t].todo :
          /\ actRows' = IF actRows[k] = Omitted THEN [actRows EXCEPT ![k] = BuiltinRow] ELSE actRows
          /\ actJob' = [s \in ActThreads |->
                          IF s = t THEN [actJob[t] EXCEPT !.todo = @ \ {k}]
                          ELSE [actJob[s] EXCEPT !.alone = @ /\ actJob[s].key # k]]
  BY DEF SeedAction
<1>2. actPc[t] = "seed" /\ actPc' = actPc
  BY DEF SeedAction
<1>3. /\ DOMAIN actJob' = ActThreads /\ actJob'[t] = [actJob[t] EXCEPT !.todo = @ \ {k}]
      /\ \A s \in ActThreads : s # t => actJob'[s] = Met(actJob[s], k)
  BY <1>1 DEF Met
<1>4. /\ DOMAIN actRows' = ActKeys /\ \A j \in ActKeys : j # k => actRows'[j] = actRows[j]
      /\ k \in ActKeys => (actRows'[k] = actRows[k] \/ actRows'[k] = BuiltinRow)
  BY <1>1 DEF ActInv
<1>5. ActRowOK(BuiltinRow)
  <2>1. Echoes(NoConfig) = {}
    BY DEF Echoes, NoConfig
  <2> QED
    BY <2>1 DEF ActRowOK, BuiltinRow
<1>6. ActJobOK(actPc'[t], actJob'[t], actRows')
  <2> DEFINE job == actJob[t]
             next == [job EXCEPT !.todo = @ \ {k}]
  <2>1. ActJobOK("seed", job, actRows)
    BY <1>2 DEF ActInv
  <2> HIDE DEF job
  <2>2. /\ next = [f \in {"key", "input", "row", "new", "guarded", "alone", "todo"} |-> next[f]]
        /\ next.key = job.key /\ next.new = job.new /\ next.guarded = job.guarded /\ next.alone = job.alone
        /\ next.todo = job.todo \ {k}
    BY <2>1 DEF ActJobOK
  <2> HIDE DEF next
  <2>3. ActJobOK("seed", next, actRows')
    BY <2>1, <2>2 DEF ActJobOK
  <2>4. actPc'[t] = "seed" /\ actJob'[t] = next
    BY <1>2, <1>3 DEF next, job
  <2> QED
    BY <2>3, <2>4
<1>7. k # Omitted /\ actPc' \in [ActThreads -> {"idle", "guarded", "write", "seed"}]
  BY <1>1, <1>2, ActAssumption DEF ActInv, ActJobOK
<1> QED
  BY <1>2, <1>3, <1>4, <1>5, <1>6, <1>7, ActStates

\* A guard or an opening begins, or an opening ends.
LEMMA ActBeginStep ==
  ASSUME ActInv, NEW t \in ActThreads,
         (\E k \in ActKeys : GuardSave(t, k)) \/ OpenActions(t) \/ ActionsOpen(t)
  PROVE  ActInv'
<1>1. ASSUME NEW k \in ActKeys, GuardSave(t, k)
      PROVE  ActInv'
  <2> DEFINE job == [NoActJob EXCEPT !.key = k, !.guarded = TRUE]
  <2>1. /\ actPc' = [actPc EXCEPT ![t] = "guarded"] /\ actJob' = [actJob EXCEPT ![t] = job]
        /\ actRows' = actRows /\ Plain(actRows[k])
    BY <1>1 DEF GuardSave, ActBegin, Plain
  <2>2. ActJobOK("guarded", job, actRows)
    BY <2>1 DEF ActJobOK, NoActJob
  <2> HIDE DEF job
  <2> QED
    BY <2>1, <2>2, ActGoes
<1>2. ASSUME OpenActions(t)
      PROVE  ActInv'
  <2> DEFINE job == [NoActJob EXCEPT !.todo = ActBuiltins]
  <2>1. /\ actPc' = [actPc EXCEPT ![t] = "seed"] /\ actJob' = [actJob EXCEPT ![t] = job] /\ actRows' = actRows
    BY <1>2 DEF OpenActions, ActBegin
  <2>2. ActJobOK("seed", job, actRows)
    BY ActAssumption DEF ActJobOK, NoActJob
  <2> HIDE DEF job
  <2> QED
    BY <2>1, <2>2, ActGoes
<1>3. ASSUME ActionsOpen(t)
      PROVE  ActInv'
  <2> DEFINE job == actJob[t]
  <2>1. /\ actPc[t] = "seed" /\ actPc' = [actPc EXCEPT ![t] = "idle"] /\ actJob' = actJob /\ actRows' = actRows
    BY <1>3 DEF ActionsOpen
  <2>2. ActJobOK("idle", job, actRows)
    BY <2>1 DEF ActInv, ActJobOK
  <2> HIDE DEF job
  <2>3. actJob[t] = job
    BY DEF job
  <2> QED
    BY <2>1, <2>2, <2>3, ActGoes
<1> QED
  BY <1>1, <1>2, <1>3

\* The rows and the jobs of savers and seeders are in order.
LEMMA ActNextStep ==
  ASSUME ActInv, [ActNext]_actVars
  PROVE  ActInv'
<1>1. CASE UNCHANGED actVars
  <2>1. actPc' = actPc /\ actJob' = actJob /\ actRows' = actRows
    BY <1>1 DEF actVars
  <2> QED
    BY <2>1 DEF ActInv
<1>2. ASSUME NEW t \in ActThreads, NEW k \in ActKeys, GetAction(t, k)
      PROVE  ActInv'
  <2>1. actPc' = actPc /\ actJob' = actJob /\ actRows' = actRows
    BY <1>2 DEF GetAction
  <2> QED
    BY <2>1 DEF ActInv
<1> QED
  BY <1>1, <1>2, SavesAre, WriteActionStep, DeleteActionStep, SeedActionStep, ActBeginStep DEF ActNext

\* The invariant of the action store holds in every reachable state.
LEMMA ActIsInv ==
  ActSpec => []ActInv
<1>1. ActInit => ActInv
  <2> SUFFICES ASSUME ActInit
               PROVE  ActInv
    OBVIOUS
  <2>1. ActRowOK(BuiltinRow)
    <3>1. Echoes(NoConfig) = {}
      BY DEF Echoes, NoConfig
    <3> QED
      BY <3>1 DEF ActRowOK, BuiltinRow
  <2>2. \A t \in ActThreads : ActJobOK(actPc[t], actJob[t], actRows)
    BY ActIdle DEF ActInit
  <2> QED
    BY <2>1, <2>2 DEF ActInit, ActInv
<1>2. ActInv /\ [ActNext]_actVars => ActInv'
  BY ActNextStep
<1> QED
  BY <1>1, <1>2, PTL DEF ActSpec

\* No mixture of reads, edits, deletions and concurrent saves stores the sentinel.
THEOREM ActInvariant ==
  ActSpec => [](ActTypeOK /\ NoMaskStored)
<1>1. ActInv => ActTypeOK /\ NoMaskStored
  BY DEF ActInv, ActTypeOK, NoMaskStored, ActRowOK
<1> QED
  BY <1>1, ActIsInv, PTL

\* What ends the work of a thread.
LEMMA ActEnds ==
  ASSUME ActNext, NEW t \in ActThreads, actPc[t] # "idle", actPc'[t] = "idle",
         actPc \in [ActThreads -> {"idle", "guarded", "write", "seed"}]
  PROVE  WriteAction(t) \/ DeleteGuarded(t) \/ ActionsOpen(t)
<1>1. ASSUME NEW s \in ActThreads, NEW k \in ActKeys,
             GetAction(s, k) \/ SaveFresh(s, k) \/ SaveEdited(s, k) \/ GuardSave(s, k)
      PROVE  FALSE
  BY <1>1 DEF GetAction, SaveFresh, SaveEdited, GuardSave, SaveAction, ActBegin
<1>2. ASSUME NEW s \in ActThreads, SaveGuarded(s) \/ OpenActions(s) \/ SeedAction(s)
      PROVE  FALSE
  BY <1>2 DEF SaveGuarded, OpenActions, SeedAction, SaveAction, ActBegin
<1>3. ASSUME NEW s \in ActThreads, WriteAction(s) \/ DeleteGuarded(s) \/ ActionsOpen(s)
      PROVE  s = t
  BY <1>3 DEF WriteAction, DeleteGuarded, ActionsOpen
<1>4. ASSUME NEW k \in ActKeys, DeleteAction(k)
      PROVE  FALSE
  BY <1>4 DEF DeleteAction
<1> QED
  BY SMTT(60), <1>1, <1>2, <1>3, <1>4 DEF ActNext

\* What a save that nobody met on its row stores.
LEMMA WritesAre ==
  ASSUME ActInv, NEW t \in ActThreads, WriteAction(t), actJob[t].alone
  PROVE  /\ actJob[t].guarded =>
               \A row \in {actRows[actJob[t].key], actRows'[actJob[t].key]} : row # Omitted => ~row.executable
         /\ ~actJob[t].new =>
               \A p \in Echoes(actJob[t].input) : \A q \in Stored(actRows[actJob[t].key].config, p) :
                  /\ q \in DOMAIN actRows'[actJob[t].key].config
                  /\ actRows'[actJob[t].key].config[q] = actRows[actJob[t].key].config[q]
<1> DEFINE k == actJob[t].key
<1>1. actPc[t] = "write" /\ (actRows' = actRows \/ actRows' = [actRows EXCEPT ![k] = actJob[t].row])
  BY DEF WriteAction
<1>2. ActJobOK("write", actJob[t], actRows) /\ DOMAIN actRows = ActKeys
  BY <1>1 DEF ActInv
<1>3. k \in ActKeys /\ (actRows'[k] = actRows[k] \/ actRows'[k] = actJob[t].row)
  BY <1>1, <1>2 DEF ActJobOK
<1>4. ASSUME actJob[t].guarded
      PROVE  \A row \in {actRows[k], actRows'[k]} : row # Omitted => ~row.executable
  <2>1. Plain(actRows[k]) /\ ~actJob[t].row.executable
    BY <1>2, <1>4 DEF ActJobOK
  <2> QED
    BY <1>3, <2>1 DEF Plain
<1>5. ASSUME ~actJob[t].new, NEW p \in Echoes(actJob[t].input), NEW q \in Stored(actRows[k].config, p)
      PROVE  q \in DOMAIN actRows'[k].config /\ actRows'[k].config[q] = actRows[k].config[q]
  <2>1. Restores(actJob[t].row.config, actJob[t].input, actRows[k].config)
    BY <1>2, <1>5 DEF ActJobOK
  <2>2. q \in DOMAIN actRows[k].config
    BY <1>5 DEF Stored
  <2> QED
    BY <1>3, <1>5, <2>1, <2>2 DEF Restores
<1> QED
  BY <1>4, <1>5

\* What the work of a seeding does to the rows.
LEMMA SeedsAre ==
  ASSUME ActInv, ActNext, NEW t \in ActThreads, actPc[t] = "seed", actJob'[t] # actJob[t],
         NEW b \in ActKeys, actRows[b] # Omitted
  PROVE  actRows'[b] = actRows[b]
<1>1. ActJobOK("seed", actJob[t], actRows) /\ DOMAIN actJob = ActThreads
  BY DEF ActInv
<1>2. ASSUME NEW k, k # Omitted
      PROVE  Met(actJob[t], k) = actJob[t]
  BY <1>1, <1>2 DEF ActJobOK, Met
<1>3. ASSUME NEW s \in ActThreads, SeedAction(s)
      PROVE  actRows'[b] = actRows[b]
  BY SMTT(60), <1>3 DEF SeedAction, ActInv
<1>4. ASSUME NEW s \in ActThreads, NEW k \in ActKeys,
             GetAction(s, k) \/ SaveFresh(s, k) \/ SaveEdited(s, k) \/ GuardSave(s, k)
      PROVE  actRows' = actRows
  BY <1>4 DEF GetAction, SaveFresh, SaveEdited, GuardSave, SaveAction
<1>5. ASSUME NEW s \in ActThreads, SaveGuarded(s) \/ OpenActions(s) \/ ActionsOpen(s)
      PROVE  actRows' = actRows
  BY <1>5 DEF SaveGuarded, OpenActions, ActionsOpen, SaveAction
<1>6. ASSUME NEW s, NEW k, s # t, k # Omitted, actJob' = Meets(s, k)
      PROVE  FALSE
  <2>1. actJob'[t] = Met(actJob[t], k)
    BY <1>6, MeetsIs
  <2> QED
    BY <1>2, <1>6, <2>1
<1>7. ASSUME NEW s \in ActThreads, WriteAction(s) \/ DeleteGuarded(s)
      PROVE  FALSE
  <2>1. actPc[s] \in {"write", "guarded"} /\ actJob' = Meets(s, actJob[s].key)
    BY <1>7 DEF WriteAction, DeleteGuarded
  <2>2. s # t /\ actJob[s].key # Omitted
    BY <2>1, ActAssumption DEF ActInv, ActJobOK
  <2> QED
    BY <1>6, <2>1, <2>2
<1>8. ASSUME NEW k \in ActKeys, DeleteAction(k)
      PROVE  FALSE
  <2>1. actJob' = Meets(Omitted, k) /\ Omitted # t /\ k # Omitted
    BY <1>8, ActAssumption DEF DeleteAction
  <2> QED
    BY <1>6, <2>1
<1> QED
  BY <1>3, <1>4, <1>5, <1>7, <1>8 DEF ActNext

\* A secret that left the process only as its sentinel comes back as it is
\* stored, unless another statement hit the row in between.
THEOREM EchoesSurvive ==
  ActSpec => SecretsSurviveEcho
<1> DEFINE Step ==
       /\ NoMaskStored'
       /\ \A t \in ActThreads :
            LET job == actJob[t]
                k == job.key
            IN  /\ actPc[t] = "write" /\ actPc'[t] = "idle" /\ job.alone /\ ~job.new =>
                      \A p \in Echoes(job.input) : \A q \in Stored(actRows[k].config, p) :
                         q \in DOMAIN actRows'[k].config
                           /\ actRows'[k].config[q] = actRows[k].config[q]
                /\ actPc[t] = "seed" /\ actJob'[t] # job =>
                      \A b \in ActKeys : actRows[b] # Omitted => actRows'[b] = actRows[b]
<1>1. ActInv /\ ActInv' /\ [ActNext]_actVars => [Step]_actVars
  <2> SUFFICES ASSUME ActInv, ActInv', ActNext
               PROVE  Step
    OBVIOUS
  <2>1. NoMaskStored'
    BY DEF ActInv, NoMaskStored, ActRowOK
  <2>2. ASSUME NEW t \in ActThreads, actPc[t] = "write", actPc'[t] = "idle", actJob[t].alone, ~actJob[t].new
        PROVE  \A p \in Echoes(actJob[t].input) : \A q \in Stored(actRows[actJob[t].key].config, p) :
                  /\ q \in DOMAIN actRows'[actJob[t].key].config
                  /\ actRows'[actJob[t].key].config[q] = actRows[actJob[t].key].config[q]
    <3>1. WriteAction(t)
      <4>1. WriteAction(t) \/ DeleteGuarded(t) \/ ActionsOpen(t)
        BY <2>2, ActEnds DEF ActInv
      <4> QED
        BY <2>2, <4>1 DEF DeleteGuarded, ActionsOpen
    <3> QED
      BY <2>2, <3>1, WritesAre
  <2>3. ASSUME NEW t \in ActThreads, actPc[t] = "seed", actJob'[t] # actJob[t],
               NEW b \in ActKeys, actRows[b] # Omitted
        PROVE  actRows'[b] = actRows[b]
    BY <2>3, SeedsAre
  <2> QED
    BY <2>1, <2>2, <2>3
<1>2. ActSpec => [][Step]_actVars
  <2> HIDE DEF Step
  <2> QED
    BY <1>1, ActIsInv, PTL DEF ActSpec
<1> QED
  BY <1>2 DEF SecretsSurviveEcho

\* What comes in through entity-save-action neither changes an executable action
\* nor makes one, unless another statement hit the row after the guard had looked.
THEOREM GuardSurvives ==
  ActSpec => GuardHolds
<1> DEFINE Step ==
       \A t \in ActThreads :
          actPc[t] # "idle" /\ actPc'[t] = "idle" /\ actJob[t].guarded /\ actJob[t].alone =>
             \A row \in {actRows[actJob[t].key], actRows'[actJob[t].key]} :
                row # Omitted => ~row.executable
<1>1. ActInv /\ [ActNext]_actVars => [Step]_actVars
  <2> SUFFICES ASSUME ActInv, ActNext, NEW t \in ActThreads, actPc[t] # "idle", actPc'[t] = "idle",
                      actJob[t].guarded, actJob[t].alone
               PROVE  \A row \in {actRows[actJob[t].key], actRows'[actJob[t].key]} :
                         row # Omitted => ~row.executable
    OBVIOUS
  <2>1. WriteAction(t) \/ DeleteGuarded(t) \/ ActionsOpen(t)
    BY ActEnds DEF ActInv
  <2>2. CASE WriteAction(t)
    BY <2>2, WritesAre
  <2>3. CASE DeleteGuarded(t)
    <3>1. actPc[t] = "guarded" /\ actRows' = [actRows EXCEPT ![actJob[t].key] = Omitted]
      BY <2>3 DEF DeleteGuarded
    <3>2. /\ DOMAIN actRows = ActKeys /\ actJob[t].key \in ActKeys /\ Plain(actRows[actJob[t].key])
      BY <3>1 DEF ActInv, ActJobOK
    <3> QED
      BY <3>1, <3>2 DEF Plain
  <2>4. CASE ActionsOpen(t)
    <3>1. actPc[t] = "seed"
      BY <2>4 DEF ActionsOpen
    <3> QED
      BY <3>1 DEF ActInv, ActJobOK
  <2> QED
    BY <2>1, <2>2, <2>3, <2>4
<1>2. ActSpec => [][Step]_actVars
  <2> HIDE DEF Step
  <2> QED
    BY <1>1, ActIsInv, PTL DEF ActSpec
<1> QED
  BY <1>2 DEF GuardHolds

\* A config of any shape that is read redacted and written back as it was read
\* is stored as it was, and shows no protected string on the way out.
THEOREM RedactionReturns ==
  ASSUME NEW Steps, NEW cfg, cfg = [p \in DOMAIN cfg |-> cfg[p]], DOMAIN cfg \subseteq Seq(Steps)
  PROVE  RoundTrip(cfg) /\ MaskHides(cfg)
<1> DEFINE read == MaskConfig(cfg)
           restored == UNION {Stored(cfg, p) : p \in Echoes(read)}
           back == UnmaskMerge(read, cfg)
<1>1. /\ DOMAIN read = DOMAIN cfg
      /\ \A p \in DOMAIN cfg : read[p] = Mask \/ read[p] = cfg[p]
  BY DEF MaskConfig
<1>2. ASSUME NEW p \in Echoes(read)
      PROVE  p \in Stored(cfg, p)
  <2>1. p \in DOMAIN cfg /\ p \in Seq(Steps)
    BY <1>1 DEF Echoes
  <2>2. Len(p) <= Len(p) /\ SubSeq(p, 1, Len(p)) = p
    BY <2>1
  <2> QED
    BY <2>1, <2>2 DEF Stored, StartsWith
<1>3. /\ DOMAIN back = (DOMAIN read \ Echoes(read)) \cup restored
      /\ \A p \in DOMAIN back : back[p] = IF p \in restored THEN cfg[p] ELSE read[p]
      /\ back = [p \in DOMAIN back |-> back[p]]
  BY DEF UnmaskMerge
<1>4. restored \subseteq DOMAIN cfg /\ Echoes(read) \subseteq restored
  BY <1>2 DEF Stored
<1>5. \A p \in DOMAIN read : p \in Echoes(read) <=> read[p] = Mask
  BY DEF Echoes
<1> HIDE DEF read, restored, back
<1>6. DOMAIN back = DOMAIN cfg
  <2>1. Echoes(read) \subseteq DOMAIN read
    BY DEF Echoes
  <2> QED
    BY <1>1, <1>3, <1>4, <2>1
<1>7. \A p \in DOMAIN cfg : back[p] = cfg[p]
  BY <1>1, <1>3, <1>4, <1>5, <1>6
<1>8. back = cfg
  BY <1>3, <1>6, <1>7
<1>9. CanUnmask(read, cfg)
  BY <1>2 DEF CanUnmask
<1>10. MaskHides(cfg)
  BY DEF MaskHides, MaskConfig
<1> QED
  BY <1>8, <1>9, <1>10 DEF RoundTrip, read, back

------------------------------------------------------------------------------
(* The packages                                                              *)

Records == {Recorded(m) : m \in Manifests}
CommandMap == Field(pkgConfig, Commands, EmptyObject)
BaseUrls == ReadBaseUrls(pkgConfig)

PkgConfigOK ==
    /\ Installed \subseteq Records
    /\ BaseUrls \subseteq PkgUrls
    /\ DOMAIN CommandMap \subseteq PkgKeys
    /\ \A k \in DOMAIN CommandMap : CommandMap[k] \in PkgDefs

\* A write of one key of the config changes what is read of that key only.
LEMMA PkgWrites ==
  ASSUME NEW k \in {Packages, Commands}, NEW v, v # BadType, pkgConfig' = Insert(pkgConfig, k, v)
  PROVE  /\ k = Packages => Installed' = v /\ CommandMap' = CommandMap
         /\ k = Commands => CommandMap' = v /\ Installed' = Installed
         /\ BaseUrls' = BaseUrls
<1>1. /\ DOMAIN pkgConfig' = DOMAIN pkgConfig \cup {k} /\ pkgConfig'[k] = v
      /\ \A j \in DOMAIN pkgConfig : j # k => pkgConfig'[j] = pkgConfig[j]
  BY DEF Insert, Over
<1>2. \A j, default : j # k => Field(pkgConfig', j, default) = Field(pkgConfig, j, default)
  BY <1>1 DEF Field, Has
<1>3. \A default : Field(pkgConfig', k, default) = v
  BY <1>1 DEF Field, Has
<1>4. /\ Packages # Commands /\ Packages # Urls /\ Packages # LegacyUrls
      /\ Commands # Urls /\ Commands # LegacyUrls
  BY DEF Packages, Commands, Urls, LegacyUrls
<1> QED
  BY <1>2, <1>3, <1>4 DEF Installed, CommandMap, BaseUrls, ReadBaseUrls

\* Registering a command adds its key to the command map, and nothing else.
LEMMA GrantsCommand ==
  ASSUME PkgConfigOK, NEW key \in PkgKeys, NEW def \in PkgDefs, pkgConfig' = RegisterCommand(pkgConfig, key, def)
  PROVE  /\ PkgConfigOK' /\ Installed' = Installed /\ BaseUrls' = BaseUrls
         /\ DOMAIN CommandMap' = DOMAIN CommandMap \cup {key}
<1> DEFINE map == Insert(CommandMap, key, def)
<1>1. pkgConfig' = Insert(pkgConfig, Commands, map)
  BY DEF RegisterCommand, CommandMap
<1>2. /\ DOMAIN map = DOMAIN CommandMap \cup {key} /\ map = [k \in DOMAIN map |-> map[k]]
      /\ \A k \in DOMAIN map : map[k] \in PkgDefs
  BY DEF Insert, Over, PkgConfigOK
<1>3. DOMAIN map \subseteq PkgKeys
  BY <1>2 DEF PkgConfigOK
<1> HIDE DEF map
<1>4. map \in [DOMAIN map -> PkgDefs]
  BY <1>2
<1>5. map # BadType
  BY <1>3, <1>4, PackagesAssumption
<1>6. CommandMap' = map /\ Installed' = Installed /\ BaseUrls' = BaseUrls
  <2>1. Commands \in {Packages, Commands} /\ Commands # Packages
    BY DEF Packages, Commands
  <2> QED
    BY <1>1, <1>5, <2>1, PkgWrites
<1> QED
  BY <1>2, <1>3, <1>6 DEF PkgConfigOK

\* Deregistering one takes its key away, and nothing else.
LEMMA RevokesCommand ==
  ASSUME PkgConfigOK, NEW key, pkgConfig' = DeregisterCommand(pkgConfig, key)
  PROVE  /\ PkgConfigOK' /\ Installed' = Installed /\ BaseUrls' = BaseUrls
         /\ DOMAIN CommandMap' = DOMAIN CommandMap \ {key}
<1> DEFINE map == Without(CommandMap, key)
<1>1. pkgConfig' = Insert(pkgConfig, Commands, map)
  BY DEF DeregisterCommand, CommandMap
<1>2. /\ DOMAIN map = DOMAIN CommandMap \ {key} /\ map = [k \in DOMAIN map |-> map[k]]
      /\ \A k \in DOMAIN map : map[k] \in PkgDefs
  BY DEF Without, PkgConfigOK
<1>3. DOMAIN map \subseteq PkgKeys
  BY <1>2 DEF PkgConfigOK
<1> HIDE DEF map
<1>4. map \in [DOMAIN map -> PkgDefs]
  BY <1>2
<1>5. map # BadType
  BY <1>3, <1>4, PackagesAssumption
<1>6. CommandMap' = map /\ Installed' = Installed /\ BaseUrls' = BaseUrls
  <2>1. Commands \in {Packages, Commands} /\ Commands # Packages
    BY DEF Packages, Commands
  <2> QED
    BY <1>1, <1>5, <2>1, PkgWrites
<1> QED
  BY <1>2, <1>3, <1>6 DEF PkgConfigOK

\* The allowlist is written in its current spelling, and the former one goes.
LEMMA BaseUrlsAre ==
  ASSUME PkgConfigOK, NEW list \in SUBSET PkgUrls, pkgConfig' = WriteBaseUrls(pkgConfig, list)
  PROVE  PkgConfigOK' /\ Installed' = Installed /\ CommandMap' = CommandMap /\ BaseUrls' = list
<1>1. list # BadType
  BY PackagesAssumption
<1>2. /\ Urls # LegacyUrls /\ Packages # Urls /\ Packages # LegacyUrls
      /\ Commands # Urls /\ Commands # LegacyUrls
  BY DEF Packages, Commands, Urls, LegacyUrls
<1>3. /\ DOMAIN pkgConfig' = (DOMAIN pkgConfig \cup {Urls}) \ {LegacyUrls} /\ pkgConfig'[Urls] = list
      /\ \A j \in DOMAIN pkgConfig : j # Urls /\ j # LegacyUrls => pkgConfig'[j] = pkgConfig[j]
  BY <1>2 DEF WriteBaseUrls, Without, Insert, Over
<1>4. /\ \A j, default : j # Urls /\ j # LegacyUrls => Field(pkgConfig', j, default) = Field(pkgConfig, j, default)
      /\ Field(pkgConfig', Urls, {}) = list /\ Field(pkgConfig', LegacyUrls, {}) = {}
  BY <1>1, <1>2, <1>3 DEF Field, Has
<1>5. Installed' = Installed /\ CommandMap' = CommandMap /\ BaseUrls' = list
  BY <1>2, <1>4 DEF Installed, CommandMap, BaseUrls, ReadBaseUrls
<1> QED
  BY <1>5 DEF PkgConfigOK

\* Writing the list of packages leaves commands and prefixes as they are.
LEMMA RecordsAre ==
  ASSUME PkgConfigOK, NEW list \in SUBSET Records, pkgConfig' = Insert(pkgConfig, Packages, list)
  PROVE  PkgConfigOK' /\ Installed' = list /\ CommandMap' = CommandMap /\ BaseUrls' = BaseUrls
<1>1. list # BadType
  BY PackagesAssumption DEF Records
<1>2. Installed' = list /\ CommandMap' = CommandMap /\ BaseUrls' = BaseUrls
  BY <1>1, PkgWrites
<1> QED
  BY <1>2 DEF PkgConfigOK

\* What an install or uninstall works on, at each step.
PkgJobOK(pc, job) ==
    /\ job = [f \in {"name", "manifest", "others", "commands", "urls"} |-> job[f]]
    /\ pc = "idle" => job = NoJob
    /\ pc # "idle" => job.name \in PkgNames /\ job.commands \subseteq PkgKeys /\ job.urls \subseteq PkgUrls
    /\ pc \in {"grant", "register"} =>
          /\ job.manifest \in Manifests /\ job.name = job.manifest.name
          /\ job.commands \subseteq DOMAIN job.manifest.commands /\ job.urls \subseteq job.manifest.urls
    /\ pc \in {"unscript", "revoke"} => job.manifest = Null

\* Always: records and jobs are in order, and no two records bear one name.
PkgBasics ==
    /\ PkgConfigOK
    /\ \A p, q \in Installed : p.name = q.name => p = q
    /\ pkgPc \in [Clis -> {"idle", "grant", "register", "unscript", "revoke"}]
    /\ DOMAIN pkgJob = Clis
    /\ \A c \in Clis : PkgJobOK(pkgPc[c], pkgJob[c])
    /\ pkgHalf = [names |-> pkgHalf.names, grants |-> pkgHalf.grants] /\ pkgHalf.names \subseteq PkgNames

\* How far the one operation at work has brought what it grants or revokes: what
\* has left the job of an install is granted; what is in that of an uninstall
\* is nobody else's, or was taken for nobody's, and what has left it of its
\* record is gone or shared.
PkgPlan(pc, job) ==
    pc # "idle" =>
      /\ job.name \in pkgHalf.names
      /\ pc \in {"grant", "register"} =>
            /\ DOMAIN job.manifest.commands \ job.commands \subseteq DOMAIN CommandMap
            /\ job.manifest.urls \ job.urls \subseteq BaseUrls
      /\ pc = "register" => job.commands = {} /\ job.urls = {}
      /\ pc = "unscript" =>
            \A p \in Installed : p.name = job.name => job.commands = p.commands /\ job.urls = p.urls
      /\ pc = "revoke" =>
            /\ \A p \in Installed : p.name # job.name =>
                  \A g \in GrantsOf(p) : (g \notin job.commands /\ g \notin job.urls) \/ g \in pkgLost
            /\ \A p \in Installed : p.name = job.name =>
                  \A g \in GrantsOf(p) :
                     \/ g \notin Granted \/ g \in job.commands \/ g \in job.urls
                     \/ \E q \in Installed : q.name # job.name /\ g \in GrantsOf(q)

\* Somebody answers for all that is granted.
AnsweredFor(g) ==
    \/ \E p \in Installed : g \in GrantsOf(p)
    \/ g \in pkgHalf.grants
    \/ \E c \in Clis : pkgJob[c].manifest # Null /\ g \in GrantsOf(Recorded(pkgJob[c].manifest))

PkgFollows ==
    ~pkgOverlap =>
        /\ \A c, d \in Clis : pkgPc[c] # "idle" /\ pkgPc[d] # "idle" => c = d
        /\ \A p \in Installed : p.name \in pkgHalf.names \/ GrantsOf(p) \subseteq Granted \cup pkgLost
        /\ \A g \in Granted : AnsweredFor(g)
        /\ \A c \in Clis : PkgPlan(pkgPc[c], pkgJob[c])

PkgInv == PkgBasics /\ PkgFollows

\* One process goes on.
LEMMA PkgGoes ==
  ASSUME PkgInv, NEW c \in Clis, NEW pc \in {"idle", "grant", "register", "unscript", "revoke"}, NEW job,
         pkgPc' = [pkgPc EXCEPT ![c] = pc],
         pkgJob' = [pkgJob EXCEPT ![c] = job] \/ (pkgJob' = pkgJob /\ pkgJob[c] = job),
         PkgConfigOK', \A p, q \in Installed' : p.name = q.name => p = q,
         pkgHalf' = [names |-> pkgHalf'.names, grants |-> pkgHalf'.grants], pkgHalf'.names \subseteq PkgNames,
         PkgJobOK(pc, job)
  PROVE  /\ PkgBasics' /\ pkgPc'[c] = pc /\ pkgJob'[c] = job
         /\ \A d \in Clis : d # c => pkgPc'[d] = pkgPc[d] /\ pkgJob'[d] = pkgJob[d]
<1>1. /\ pkgPc' \in [Clis -> {"idle", "grant", "register", "unscript", "revoke"}] /\ DOMAIN pkgJob' = Clis
      /\ pkgPc'[c] = pc /\ pkgJob'[c] = job
      /\ \A d \in Clis : d # c => pkgPc'[d] = pkgPc[d] /\ pkgJob'[d] = pkgJob[d]
  BY DEF PkgInv, PkgBasics
<1>2. \A d \in Clis : PkgJobOK(pkgPc'[d], pkgJob'[d])
  BY <1>1 DEF PkgInv, PkgBasics
<1>3. (\A d \in Clis : PkgJobOK(pkgPc[d], pkgJob[d]))'
  BY <1>2 DEF PkgJobOK
<1>4. (\A p, q \in Installed : p.name = q.name => p = q)'
  OBVIOUS
<1> QED
  BY <1>1, <1>3, <1>4 DEF PkgBasics

\* The one at work stays the one at work, and the others are at no work.
LEMMA PkgAlone ==
  ASSUME PkgInv, PkgBasics', NEW c \in Clis, pkgOverlap' = pkgOverlap, pkgPc[c] # "idle",
         \A d \in Clis : d # c => pkgPc'[d] = pkgPc[d] /\ pkgJob'[d] = pkgJob[d],
         ~pkgOverlap =>
            /\ \A p \in Installed' : p.name \in pkgHalf'.names \/ GrantsOf(p) \subseteq Granted' \cup pkgLost'
            /\ \A g \in Granted' : AnsweredFor(g)'
            /\ PkgPlan(pkgPc[c], pkgJob[c])'
  PROVE  PkgInv'
<1>1. CASE ~pkgOverlap
  <2>1. \A d \in Clis : d # c => pkgPc[d] = "idle" /\ pkgPc'[d] = "idle"
    BY <1>1 DEF PkgInv, PkgFollows
  <2>2. ASSUME NEW d \in Clis
        PROVE  PkgPlan(pkgPc[d], pkgJob[d])'
    <3>1. CASE d = c
      BY <1>1, <3>1
    <3>2. CASE d # c
      BY <2>1, <3>2 DEF PkgPlan
    <3> QED
      BY <3>1, <3>2
  <2>3. (\A d \in Clis : PkgPlan(pkgPc[d], pkgJob[d]))'
    BY <2>2
  <2>4. (\A g \in Granted : AnsweredFor(g))'
    BY <1>1
  <2>5. (\A p \in Installed : p.name \in pkgHalf.names \/ GrantsOf(p) \subseteq Granted \cup pkgLost)'
    BY <1>1 DEF GrantsOf
  <2>6. (\A e, d \in Clis : pkgPc[e] # "idle" /\ pkgPc[d] # "idle" => e = d)'
    BY <2>1
  <2> QED
    BY <2>3, <2>4, <2>5, <2>6 DEF PkgInv, PkgFollows
<1>2. CASE pkgOverlap
  BY <1>2 DEF PkgInv, PkgFollows
<1> QED
  BY <1>1, <1>2

\* An operation begins.
LEMMA PkgStartStep ==
  ASSUME PkgInv, NEW c \in Clis, NEW pc \in {"grant", "unscript"}, NEW job, PkgStart(c, pc, job),
         PkgJobOK(pc, job), pc = "grant" => job.commands = DOMAIN job.manifest.commands /\ job.urls = job.manifest.urls,
         pc = "unscript" =>
            \A p \in Installed : p.name = job.name => job.commands = p.commands /\ job.urls = p.urls
  PROVE  PkgInv'
<1>1. /\ pkgPc[c] = "idle" /\ pkgPc' = [pkgPc EXCEPT ![c] = pc] /\ pkgJob' = [pkgJob EXCEPT ![c] = job]
      /\ pkgOverlap' = (pkgOverlap \/ \E d \in Clis \ {c} : pkgPc[d] # "idle")
      /\ pkgHalf' = [pkgHalf EXCEPT !.names = @ \cup {job.name}] /\ pkgConfig' = pkgConfig
      /\ pkgLost' = pkgLost
  BY DEF PkgStart, PkgGo
<1>2. /\ Installed' = Installed /\ CommandMap' = CommandMap /\ BaseUrls' = BaseUrls /\ Granted' = Granted
  BY <1>1 DEF Installed, CommandMap, BaseUrls, Granted
<1>3. /\ pkgHalf'.names = pkgHalf.names \cup {job.name} /\ pkgHalf'.grants = pkgHalf.grants
      /\ pkgHalf' = [names |-> pkgHalf'.names, grants |-> pkgHalf'.grants] /\ pkgHalf'.names \subseteq PkgNames
  <2>1. pkgHalf = [names |-> pkgHalf.names, grants |-> pkgHalf.grants] /\ pkgHalf.names \subseteq PkgNames
    BY DEF PkgInv, PkgBasics
  <2>2. job.name \in PkgNames
    BY DEF PkgJobOK
  <2> QED
    BY <1>1, <2>1, <2>2
<1>4. /\ PkgBasics' /\ pkgPc'[c] = pc /\ pkgJob'[c] = job
      /\ \A d \in Clis : d # c => pkgPc'[d] = pkgPc[d] /\ pkgJob'[d] = pkgJob[d]
  <2>1. PkgConfigOK' /\ \A p, q \in Installed' : p.name = q.name => p = q
    BY <1>2 DEF PkgInv, PkgBasics, PkgConfigOK
  <2>2. pc \in {"idle", "grant", "register", "unscript", "revoke"}
    OBVIOUS
  <2>3. pkgPc' = [pkgPc EXCEPT ![c] = pc] /\ pkgJob' = [pkgJob EXCEPT ![c] = job]
    BY <1>1
  <2>4. pkgHalf' = [names |-> pkgHalf'.names, grants |-> pkgHalf'.grants] /\ pkgHalf'.names \subseteq PkgNames
    BY <1>3
  <2> QED
    BY <2>1, <2>2, <2>3, <2>4, PkgGoes
<1>5. ASSUME ~pkgOverlap'
      PROVE  PkgFollows'
  <2>1. ~pkgOverlap /\ \A d \in Clis : d # c => pkgPc[d] = "idle"
    BY <1>1, <1>5
  <2>2. (\A e, d \in Clis : pkgPc[e] # "idle" /\ pkgPc[d] # "idle" => e = d)'
    BY <1>4, <2>1
  <2>3. (\A p \in Installed : p.name \in pkgHalf.names \/ GrantsOf(p) \subseteq Granted \cup pkgLost)'
    BY <1>1, <1>2, <1>3, <2>1 DEF PkgInv, PkgFollows, GrantsOf
  <2>4. ASSUME NEW g \in Granted'
        PROVE  AnsweredFor(g)'
    <3>1. AnsweredFor(g)
      BY <1>2, <2>1 DEF PkgInv, PkgFollows
    <3>2. \A d \in Clis : pkgJob[d].manifest # Null => d # c
      BY <1>1 DEF PkgInv, PkgBasics, PkgJobOK, NoJob
    <3>3. \A d \in Clis : pkgJob[d].manifest # Null => pkgJob'[d] = pkgJob[d]
      BY <1>4, <3>2
    <3> QED
      BY <1>2, <1>3, <3>1, <3>3 DEF AnsweredFor
  <2>5. (\A g \in Granted : AnsweredFor(g))'
    BY <2>4
  <2>6. ASSUME NEW d \in Clis
        PROVE  PkgPlan(pkgPc[d], pkgJob[d])'
    <3>1. CASE d = c
      <4>1. PkgPlan(pc, job)'
        BY <1>1, <1>2, <1>3 DEF PkgPlan
      <4> QED
        BY <1>4, <3>1, <4>1
    <3>2. CASE d # c
      BY <1>4, <2>1, <3>2 DEF PkgPlan
    <3> QED
      BY <3>1, <3>2
  <2>7. (\A d \in Clis : PkgPlan(pkgPc[d], pkgJob[d]))'
    BY <2>6
  <2> QED
    BY <2>2, <2>3, <2>5, <2>7 DEF PkgFollows
<1>6. pkgOverlap' => PkgFollows'
  BY DEF PkgFollows
<1> QED
  BY <1>4, <1>5, <1>6 DEF PkgInv

\* The job of a thread, with what its step implies.
LEMMA PkgJobIs ==
  ASSUME PkgInv, NEW c \in Clis
  PROVE  /\ PkgConfigOK /\ PkgJobOK(pkgPc[c], pkgJob[c]) /\ DOMAIN pkgJob = Clis
         /\ \A p, q \in Installed : p.name = q.name => p = q
         /\ pkgHalf = [names |-> pkgHalf.names, grants |-> pkgHalf.grants] /\ pkgHalf.names \subseteq PkgNames
         /\ ~pkgOverlap =>
               /\ \A p \in Installed : p.name \in pkgHalf.names \/ GrantsOf(p) \subseteq Granted \cup pkgLost
               /\ \A g \in Granted : AnsweredFor(g)
               /\ PkgPlan(pkgPc[c], pkgJob[c])
BY DEF PkgInv, PkgBasics, PkgFollows

\* An install grants one more command, or one more prefix.
LEMMA GrantStep ==
  ASSUME PkgInv, NEW c \in Clis, GrantCommand(c) \/ GrantUrl(c)
  PROVE  PkgInv'
<1> DEFINE m == pkgJob[c].manifest
<1>1. /\ pkgPc[c] = "grant" /\ pkgPc' = [pkgPc EXCEPT ![c] = "grant"] /\ pkgHalf' = pkgHalf
      /\ pkgOverlap' = pkgOverlap /\ pkgLost' = pkgLost
  BY DEF GrantCommand, GrantUrl, PkgGo, PkgWrite
<1>2. /\ PkgConfigOK /\ PkgJobOK("grant", pkgJob[c]) /\ DOMAIN pkgJob = Clis
      /\ \A p, q \in Installed : p.name = q.name => p = q
      /\ pkgHalf = [names |-> pkgHalf.names, grants |-> pkgHalf.grants] /\ pkgHalf.names \subseteq PkgNames
  BY <1>1, PkgJobIs
<1>3. /\ m \in Manifests /\ pkgJob[c].commands \subseteq DOMAIN m.commands /\ pkgJob[c].urls \subseteq m.urls
      /\ GrantsOf(Recorded(m)) = DOMAIN m.commands \cup m.urls /\ m # Null
  BY <1>2, PackagesAssumption DEF PkgJobOK, GrantsOf, Recorded
<1>4. ASSUME NEW job, pkgJob' = [pkgJob EXCEPT ![c] = job], PkgJobOK("grant", job), PkgConfigOK', Installed' = Installed,
             Granted \subseteq Granted', job.manifest = m, job.name = pkgJob[c].name,
             \A g \in Granted' : g \in Granted \/ g \in GrantsOf(Recorded(m)),
             ~pkgOverlap => /\ DOMAIN m.commands \ job.commands \subseteq DOMAIN CommandMap'
                            /\ m.urls \ job.urls \subseteq BaseUrls'
      PROVE  PkgInv'
  <2>1. /\ PkgBasics' /\ pkgPc'[c] = "grant" /\ pkgJob'[c] = job
        /\ \A d \in Clis : d # c => pkgPc'[d] = pkgPc[d] /\ pkgJob'[d] = pkgJob[d]
    BY <1>1, <1>2, <1>4, PkgGoes
  <2>2. ASSUME ~pkgOverlap
        PROVE  /\ \A p \in Installed' : p.name \in pkgHalf'.names \/ GrantsOf(p) \subseteq Granted' \cup pkgLost'
               /\ \A g \in Granted' : AnsweredFor(g)'
               /\ PkgPlan(pkgPc[c], pkgJob[c])'
    <3>1. /\ \A p \in Installed : p.name \in pkgHalf.names \/ GrantsOf(p) \subseteq Granted \cup pkgLost
          /\ \A g \in Granted : AnsweredFor(g)
          /\ PkgPlan("grant", pkgJob[c])
      BY <1>1, <2>2, PkgJobIs
    <3>2. \A p \in Installed' : p.name \in pkgHalf'.names \/ GrantsOf(p) \subseteq Granted' \cup pkgLost'
      BY <1>1, <1>4, <3>1
    <3>3. ASSUME NEW g \in Granted'
          PROVE  AnsweredFor(g)'
      <4>1. \A d \in Clis : pkgJob'[d].manifest = pkgJob[d].manifest
        BY <1>4, <2>1
      <4>2. CASE g \in Granted
        BY <1>1, <1>4, <3>1, <4>1, <4>2 DEF AnsweredFor
      <4>3. CASE g \in GrantsOf(Recorded(m))
        BY <1>3, <4>1, <4>3 DEF AnsweredFor
      <4> QED
        BY <1>4, <4>2, <4>3
    <3>4. PkgPlan("grant", job)'
      BY <1>1, <1>4, <2>2, <3>1 DEF PkgPlan
    <3> QED
      BY <2>1, <3>2, <3>3, <3>4
  <2> QED
    BY <1>1, <2>1, <2>2, PkgAlone
<1>5. ASSUME NEW key \in pkgJob[c].commands,
             PkgWrite(c, RegisterCommand(pkgConfig, key, m.commands[key]),
                      [pkgJob[c] EXCEPT !.commands = @ \ {key}])
      PROVE  PkgInv'
  <2> DEFINE job == [pkgJob[c] EXCEPT !.commands = @ \ {key}]
  <2>1. pkgJob' = [pkgJob EXCEPT ![c] = job] /\ pkgConfig' = RegisterCommand(pkgConfig, key, m.commands[key])
    BY <1>5 DEF PkgWrite
  <2>2. key \in DOMAIN m.commands /\ key \in PkgKeys /\ m.commands[key] \in PkgDefs
    BY <1>3, <1>5 DEF PkgKeys, PkgDefs
  <2>3. /\ PkgConfigOK' /\ Installed' = Installed /\ BaseUrls' = BaseUrls
        /\ DOMAIN CommandMap' = DOMAIN CommandMap \cup {key}
    BY <1>2, <2>1, <2>2, GrantsCommand
  <2>4. /\ job = [f \in {"name", "manifest", "others", "commands", "urls"} |-> job[f]]
        /\ job.commands = pkgJob[c].commands \ {key} /\ job.urls = pkgJob[c].urls /\ job.manifest = m
        /\ job.name = pkgJob[c].name
    BY <1>2 DEF PkgJobOK
  <2> HIDE DEF job
  <2>5. PkgJobOK("grant", job)
    BY <1>2, <2>4 DEF PkgJobOK
  <2>6. Granted = DOMAIN CommandMap \cup BaseUrls /\ Granted' = DOMAIN CommandMap' \cup BaseUrls'
    BY DEF Granted, CommandMap, BaseUrls
  <2>7. ~pkgOverlap => /\ DOMAIN m.commands \ job.commands \subseteq DOMAIN CommandMap'
                       /\ m.urls \ job.urls \subseteq BaseUrls'
    <3>1. ~pkgOverlap => PkgPlan("grant", pkgJob[c])
      BY <1>1, PkgJobIs
    <3> QED
      BY <2>3, <2>4, <3>1 DEF PkgPlan
  <2>8. Granted \subseteq Granted' /\ \A g \in Granted' : g \in Granted \/ g \in GrantsOf(Recorded(m))
    BY <1>3, <2>2, <2>3, <2>6
  <2> QED
    BY <1>4, <2>1, <2>3, <2>4, <2>5, <2>7, <2>8
<1>6. ASSUME NEW prefix \in pkgJob[c].urls,
             PkgWrite(c, AddAllowedBaseUrl(pkgConfig, prefix), [pkgJob[c] EXCEPT !.urls = @ \ {prefix}])
      PROVE  PkgInv'
  <2> DEFINE job == [pkgJob[c] EXCEPT !.urls = @ \ {prefix}]
  <2>1. pkgJob' = [pkgJob EXCEPT ![c] = job] /\ pkgConfig' = WriteBaseUrls(pkgConfig, BaseUrls \cup {prefix})
    BY <1>6 DEF PkgWrite, AddAllowedBaseUrl, BaseUrls
  <2>2. prefix \in m.urls /\ prefix \in PkgUrls
    BY <1>3, <1>6 DEF PkgUrls
  <2>3. /\ PkgConfigOK' /\ Installed' = Installed /\ CommandMap' = CommandMap
        /\ BaseUrls' = BaseUrls \cup {prefix}
    <3>1. BaseUrls \cup {prefix} \in SUBSET PkgUrls
      BY <1>2, <2>2 DEF PkgConfigOK
    <3> QED
      BY <1>2, <2>1, <3>1, BaseUrlsAre
  <2>4. /\ job = [f \in {"name", "manifest", "others", "commands", "urls"} |-> job[f]]
        /\ job.commands = pkgJob[c].commands /\ job.urls = pkgJob[c].urls \ {prefix} /\ job.manifest = m
        /\ job.name = pkgJob[c].name
    BY <1>2 DEF PkgJobOK
  <2> HIDE DEF job
  <2>5. PkgJobOK("grant", job)
    BY <1>2, <2>4 DEF PkgJobOK
  <2>6. Granted = DOMAIN CommandMap \cup BaseUrls /\ Granted' = DOMAIN CommandMap' \cup BaseUrls'
    BY DEF Granted, CommandMap, BaseUrls
  <2>7. ~pkgOverlap => /\ DOMAIN m.commands \ job.commands \subseteq DOMAIN CommandMap'
                       /\ m.urls \ job.urls \subseteq BaseUrls'
    <3>1. ~pkgOverlap => PkgPlan("grant", pkgJob[c])
      BY <1>1, PkgJobIs
    <3> QED
      BY <2>3, <2>4, <3>1 DEF PkgPlan
  <2>8. Granted \subseteq Granted' /\ \A g \in Granted' : g \in Granted \/ g \in GrantsOf(Recorded(m))
    BY <1>3, <2>2, <2>3, <2>6
  <2> QED
    BY <1>4, <2>1, <2>3, <2>4, <2>5, <2>7, <2>8
<1> QED
  BY <1>5, <1>6 DEF GrantCommand, GrantUrl

\* All is granted; an install script has run.
LEMMA InstallScriptStep ==
  ASSUME PkgInv, NEW c \in Clis, InstallScript(c)
  PROVE  PkgInv'
<1> DEFINE job == pkgJob[c]
<1>1. /\ pkgPc[c] = "grant" /\ pkgPc' = [pkgPc EXCEPT ![c] = "register"] /\ pkgJob' = pkgJob
      /\ pkgHalf' = pkgHalf /\ pkgOverlap' = pkgOverlap /\ pkgConfig' = pkgConfig /\ pkgLost' = pkgLost
      /\ job.commands = {} /\ job.urls = {}
  BY DEF InstallScript, PkgGo
<1>2. /\ PkgConfigOK /\ PkgJobOK("grant", job)
      /\ \A p, q \in Installed : p.name = q.name => p = q
      /\ pkgHalf = [names |-> pkgHalf.names, grants |-> pkgHalf.grants] /\ pkgHalf.names \subseteq PkgNames
  BY <1>1, PkgJobIs
<1>3. Installed' = Installed /\ CommandMap' = CommandMap /\ BaseUrls' = BaseUrls /\ Granted' = Granted
  BY <1>1 DEF Installed, CommandMap, BaseUrls, Granted
<1>4. PkgJobOK("register", job)
  BY <1>2 DEF PkgJobOK
<1>5. /\ PkgBasics' /\ pkgPc'[c] = "register" /\ pkgJob'[c] = job
      /\ \A d \in Clis : d # c => pkgPc'[d] = pkgPc[d] /\ pkgJob'[d] = pkgJob[d]
  <2>1. PkgConfigOK' /\ \A p, q \in Installed' : p.name = q.name => p = q
    BY <1>2, <1>3 DEF PkgConfigOK
  <2>2. pkgJob[c] = job /\ pkgJob' = pkgJob
    BY <1>1
  <2> HIDE DEF job
  <2> QED
    BY <1>1, <1>2, <1>4, <2>1, <2>2, PkgGoes
<1>6. ASSUME ~pkgOverlap
      PROVE  /\ \A p \in Installed' : p.name \in pkgHalf'.names \/ GrantsOf(p) \subseteq Granted' \cup pkgLost'
             /\ \A g \in Granted' : AnsweredFor(g)'
             /\ PkgPlan(pkgPc[c], pkgJob[c])'
  <2>1. PkgPlan("grant", job) /\ \A g \in Granted : AnsweredFor(g)
    BY <1>1, <1>6, PkgJobIs
  <2>2. \A p \in Installed' : p.name \in pkgHalf'.names \/ GrantsOf(p) \subseteq Granted' \cup pkgLost'
    BY <1>1, <1>3, <1>6, PkgJobIs
  <2>3. \A g \in Granted' : AnsweredFor(g)'
    BY <1>1, <1>3, <2>1 DEF AnsweredFor
  <2>4. PkgPlan("register", job)'
    BY <1>1, <1>3, <2>1 DEF PkgPlan
  <2>5. PkgPlan(pkgPc[c], pkgJob[c])'
    BY <1>1, <1>5, <2>4
  <2> QED
    BY <2>2, <2>3, <2>5
<1> QED
  BY <1>1, <1>5, <1>6, PkgAlone

\* The package is recorded with what it was granted, in the place of another.
LEMMA RegisterStep ==
  ASSUME PkgInv, NEW c \in Clis, Register(c)
  PROVE  PkgInv'
<1> DEFINE m == pkgJob[c].manifest
           record == Recorded(m)
           list == {p \in Installed : p.name # m.name} \cup {record}
           left == UNION {GrantsOf(p) : p \in {q \in Installed : q.name = m.name}}
<1>1. /\ pkgPc[c] = "register" /\ pkgPc' = [pkgPc EXCEPT ![c] = "idle"]
      /\ pkgConfig' = Insert(pkgConfig, Packages, list) /\ pkgJob' = [pkgJob EXCEPT ![c] = NoJob]
      /\ pkgHalf' = [names |-> pkgHalf.names \ {m.name}, grants |-> pkgHalf.grants \cup left]
      /\ pkgOverlap' = pkgOverlap /\ pkgLost' = pkgLost \ GrantsOf(record)
  BY DEF Register, PkgGo, PkgWrite, RegisterPackage, Recorded, Installed
<1>2. /\ PkgConfigOK /\ PkgJobOK("register", pkgJob[c]) /\ DOMAIN pkgJob = Clis
      /\ \A p, q \in Installed : p.name = q.name => p = q
      /\ pkgHalf.names \subseteq PkgNames
  BY <1>1, PkgJobIs
<1>3. /\ m \in Manifests /\ pkgJob[c].name = m.name /\ record \in Records /\ record.name = m.name
      /\ GrantsOf(record) = DOMAIN m.commands \cup m.urls
  BY <1>2 DEF PkgJobOK, Records, GrantsOf, Recorded
<1>4. /\ PkgConfigOK' /\ Installed' = list /\ CommandMap' = CommandMap /\ BaseUrls' = BaseUrls
  <2>1. list \in SUBSET Records
    BY <1>2, <1>3 DEF PkgConfigOK
  <2> HIDE DEF list
  <2> QED
    BY <1>1, <1>2, <2>1, RecordsAre
<1>5. Granted' = Granted
  BY <1>4 DEF Granted, CommandMap, BaseUrls
<1>6. /\ pkgHalf'.names = pkgHalf.names \ {m.name} /\ pkgHalf'.grants = pkgHalf.grants \cup left
      /\ pkgHalf' = [names |-> pkgHalf'.names, grants |-> pkgHalf'.grants] /\ pkgHalf'.names \subseteq PkgNames
  BY <1>1, <1>2
<1>7. \A p \in Installed : p.name = m.name => \A g \in GrantsOf(p) : g \in left
  OBVIOUS
<1>8. /\ \A p \in Installed' : p = record \/ (p \in Installed /\ p.name # m.name)
      /\ \A p \in Installed : p.name = m.name \/ p \in Installed'
      /\ record \in Installed'
  BY <1>4
<1> HIDE DEF record, list, left
<1>9. /\ PkgBasics' /\ pkgPc'[c] = "idle" /\ pkgJob'[c] = NoJob
      /\ \A d \in Clis : d # c => pkgPc'[d] = pkgPc[d] /\ pkgJob'[d] = pkgJob[d]
  <2>1. \A p, q \in Installed' : p.name = q.name => p = q
    BY <1>2, <1>3, <1>8
  <2>2. PkgJobOK("idle", NoJob)
    BY DEF PkgJobOK, NoJob
  <2> QED
    BY <1>1, <1>4, <1>6, <2>1, <2>2, PkgGoes
<1>10. ASSUME ~pkgOverlap
       PROVE  /\ \A p \in Installed' : p.name \in pkgHalf'.names \/ GrantsOf(p) \subseteq Granted' \cup pkgLost'
              /\ \A g \in Granted' : AnsweredFor(g)'
              /\ PkgPlan(pkgPc[c], pkgJob[c])'
  <2>1. /\ \A p \in Installed : p.name \in pkgHalf.names \/ GrantsOf(p) \subseteq Granted \cup pkgLost
        /\ \A g \in Granted : AnsweredFor(g)
        /\ PkgPlan("register", pkgJob[c])
    BY <1>1, <1>10, PkgJobIs
  <2>2. GrantsOf(record) \subseteq Granted
    <3>1. DOMAIN m.commands \subseteq DOMAIN CommandMap /\ m.urls \subseteq BaseUrls
      BY <2>1 DEF PkgPlan
    <3> QED
      BY <1>3, <3>1 DEF Granted, CommandMap, BaseUrls
  <2>3. ASSUME NEW p \in Installed'
        PROVE  p.name \in pkgHalf'.names \/ GrantsOf(p) \subseteq Granted' \cup pkgLost'
    <3>1. CASE p = record
      BY <1>5, <2>2, <3>1
    <3>2. CASE p # record
      <4>1. p \in Installed /\ p.name # m.name
        BY <1>8, <3>2
      <4>2. p.name \in pkgHalf'.names \/ GrantsOf(p) \subseteq Granted \cup pkgLost
        BY <1>6, <2>1, <4>1
      <4> QED
        BY <1>1, <1>5, <2>2, <4>2
    <3> QED
      BY <3>1, <3>2
  <2>4. ASSUME NEW g \in Granted'
        PROVE  AnsweredFor(g)'
    <3>1. AnsweredFor(g)
      BY <1>5, <2>1
    <3>2. CASE \E p \in Installed : g \in GrantsOf(p)
      <4>1. PICK p \in Installed : g \in GrantsOf(p)
        BY <3>2
      <4>2. CASE p.name = m.name
        BY <1>6, <1>7, <4>1, <4>2 DEF AnsweredFor
      <4>3. CASE p.name # m.name
        BY <1>8, <4>1, <4>3 DEF AnsweredFor, GrantsOf
      <4> QED
        BY <4>2, <4>3
    <3>3. CASE g \in pkgHalf.grants
      BY <1>6, <3>3 DEF AnsweredFor
    <3>4. CASE \E d \in Clis : pkgJob[d].manifest # Null /\ g \in GrantsOf(Recorded(pkgJob[d].manifest))
      <4>1. PICK d \in Clis : pkgJob[d].manifest # Null /\ g \in GrantsOf(Recorded(pkgJob[d].manifest))
        BY <3>4
      <4>2. CASE d = c
        <5>1. g \in GrantsOf(record)
          BY <4>1, <4>2 DEF record
        <5> QED
          BY <1>8, <5>1 DEF AnsweredFor, GrantsOf
      <4>3. CASE d # c
        BY <1>9, <4>1, <4>3 DEF AnsweredFor, GrantsOf, Recorded
      <4> QED
        BY <4>2, <4>3
    <3> QED
      BY <3>1, <3>2, <3>3, <3>4 DEF AnsweredFor
  <2>5. PkgPlan(pkgPc[c], pkgJob[c])'
    BY <1>9 DEF PkgPlan
  <2> QED
    BY <2>3, <2>4, <2>5
<1> QED
  BY <1>1, <1>9, <1>10, PkgAlone

\* An uninstall script has run, and what other packages share is kept.
LEMMA UninstallScriptStep ==
  ASSUME PkgInv, NEW c \in Clis, UninstallScript(c)
  PROVE  PkgInv'
<1> DEFINE name == pkgJob[c].name
           shared == UNION {GrantsOf(p) : p \in Listed(name)}
           job == [pkgJob[c] EXCEPT !.others = Listed(name), !.commands = @ \ shared, !.urls = @ \ shared]
<1>1. /\ pkgPc[c] = "unscript" /\ pkgPc' = [pkgPc EXCEPT ![c] = "revoke"]
      /\ pkgJob' = [pkgJob EXCEPT ![c].others = Listed(name), ![c].commands = @ \ shared, ![c].urls = @ \ shared]
      /\ pkgHalf' = pkgHalf /\ pkgOverlap' = pkgOverlap /\ pkgConfig' = pkgConfig
      /\ pkgLost' = IF pkgRewriting
                    THEN pkgLost \cup {g \in pkgJob[c].commands \cup pkgJob[c].urls :
                                          \E p \in Others(name) : g \in GrantsOf(p)}
                    ELSE pkgLost
  BY DEF UninstallScript, PkgGo
<1>2. /\ PkgConfigOK /\ PkgJobOK("unscript", pkgJob[c]) /\ DOMAIN pkgJob = Clis
      /\ \A p, q \in Installed : p.name = q.name => p = q
      /\ pkgHalf = [names |-> pkgHalf.names, grants |-> pkgHalf.grants] /\ pkgHalf.names \subseteq PkgNames
  BY <1>1, PkgJobIs
<1>3. Installed' = Installed /\ CommandMap' = CommandMap /\ BaseUrls' = BaseUrls /\ Granted' = Granted
  BY <1>1 DEF Installed, CommandMap, BaseUrls, Granted
<1>4. /\ \A g \in shared : \E q \in Installed : q.name # name /\ g \in GrantsOf(q)
      /\ pkgLost \subseteq pkgLost'
      /\ \A q \in Installed : q.name # name =>
            \A g \in GrantsOf(q) : \/ g \in shared \/ g \in pkgLost'
                                   \/ (g \notin pkgJob[c].commands /\ g \notin pkgJob[c].urls)
  <2>1. CASE pkgRewriting
    BY <1>1, <2>1 DEF Others, Listed
  <2>2. CASE ~pkgRewriting
    BY <1>1, <2>2 DEF Others, Listed
  <2> QED
    BY <2>1, <2>2
<1> HIDE DEF shared
<1>5. /\ pkgJob' = [pkgJob EXCEPT ![c] = job]
      /\ job = [f \in {"name", "manifest", "others", "commands", "urls"} |-> job[f]]
      /\ job.name = name /\ job.manifest = pkgJob[c].manifest
      /\ job.commands = pkgJob[c].commands \ shared /\ job.urls = pkgJob[c].urls \ shared
  BY <1>1, <1>2 DEF PkgJobOK
<1> HIDE DEF job
<1>6. PkgJobOK("revoke", job)
  BY <1>2, <1>5 DEF PkgJobOK
<1>7. /\ PkgBasics' /\ pkgPc'[c] = "revoke" /\ pkgJob'[c] = job
      /\ \A d \in Clis : d # c => pkgPc'[d] = pkgPc[d] /\ pkgJob'[d] = pkgJob[d]
  <2>1. PkgConfigOK' /\ \A p, q \in Installed' : p.name = q.name => p = q
    BY <1>2, <1>3 DEF PkgConfigOK
  <2> QED
    BY <1>1, <1>2, <1>5, <1>6, <2>1, PkgGoes
<1>8. ASSUME ~pkgOverlap
      PROVE  /\ \A p \in Installed' : p.name \in pkgHalf'.names \/ GrantsOf(p) \subseteq Granted' \cup pkgLost'
             /\ \A g \in Granted' : AnsweredFor(g)'
             /\ PkgPlan(pkgPc[c], pkgJob[c])'
  <2>1. PkgPlan("unscript", pkgJob[c]) /\ \A g \in Granted : AnsweredFor(g)
    BY <1>1, <1>8, PkgJobIs
  <2>2. \A p \in Installed' : p.name \in pkgHalf'.names \/ GrantsOf(p) \subseteq Granted' \cup pkgLost'
    <3>1. \A p \in Installed : p.name \in pkgHalf.names \/ GrantsOf(p) \subseteq Granted \cup pkgLost
      BY <1>8, PkgJobIs
    <3> QED
      BY <1>1, <1>3, <1>4, <3>1
  <2>3. ASSUME NEW g \in Granted'
        PROVE  AnsweredFor(g)'
    <3>1. \A d \in Clis : pkgJob'[d].manifest = pkgJob[d].manifest
      BY <1>5, <1>7
    <3>2. AnsweredFor(g)
      BY <1>3, <2>1
    <3> QED
      BY <1>1, <1>3, <3>1, <3>2 DEF AnsweredFor
  <2>4. PkgPlan(pkgPc[c], pkgJob[c])'
    <3>1. job.name \in pkgHalf'.names
      BY <1>1, <1>5, <2>1 DEF PkgPlan
    <3>2. ASSUME NEW p \in Installed, p.name # job.name, NEW g \in GrantsOf(p)
          PROVE  (g \notin job.commands /\ g \notin job.urls) \/ g \in pkgLost'
      BY <1>4, <1>5, <3>2
    <3>3. ASSUME NEW p \in Installed, p.name = job.name, NEW g \in GrantsOf(p)
          PROVE  g \in job.commands \/ g \in job.urls \/ \E q \in Installed : q.name # job.name /\ g \in GrantsOf(q)
      <4>1. pkgJob[c].commands = p.commands /\ pkgJob[c].urls = p.urls
        BY <1>5, <2>1, <3>3 DEF PkgPlan
      <4>2. g \in p.commands \/ g \in p.urls
        BY <3>3 DEF GrantsOf
      <4> QED
        BY <1>4, <1>5, <4>1, <4>2
    <3> QED
      BY <1>3, <1>7, <3>1, <3>2, <3>3 DEF PkgPlan, GrantsOf
  <2> QED
    BY <2>2, <2>3, <2>4
<1> QED
  BY <1>1, <1>7, <1>8, PkgAlone

\* An uninstall revokes one more command, or one more prefix.
LEMMA RevokeStep ==
  ASSUME PkgInv, NEW c \in Clis, RevokeCommand(c) \/ RevokeUrl(c)
  PROVE  PkgInv'
<1>1. /\ pkgPc[c] = "revoke" /\ pkgPc' = [pkgPc EXCEPT ![c] = "revoke"] /\ pkgHalf' = pkgHalf
      /\ pkgOverlap' = pkgOverlap /\ pkgLost' = pkgLost
  BY DEF RevokeCommand, RevokeUrl, PkgGo, PkgWrite
<1>2. /\ PkgConfigOK /\ PkgJobOK("revoke", pkgJob[c]) /\ DOMAIN pkgJob = Clis
      /\ \A p, q \in Installed : p.name = q.name => p = q
      /\ pkgHalf = [names |-> pkgHalf.names, grants |-> pkgHalf.grants] /\ pkgHalf.names \subseteq PkgNames
  BY <1>1, PkgJobIs
<1>3. ASSUME NEW job, NEW gone, pkgJob' = [pkgJob EXCEPT ![c] = job], PkgJobOK("revoke", job), PkgConfigOK',
             Installed' = Installed, \A g : g \in Granted' <=> g \in Granted /\ g # gone,
             gone \in pkgJob[c].commands \/ gone \in pkgJob[c].urls,
             job.manifest = pkgJob[c].manifest, job.name = pkgJob[c].name,
             \A g : g # gone => /\ g \in job.commands <=> g \in pkgJob[c].commands
                                /\ g \in job.urls <=> g \in pkgJob[c].urls,
             job.commands \subseteq pkgJob[c].commands, job.urls \subseteq pkgJob[c].urls
      PROVE  PkgInv'
  <2>1. /\ PkgBasics' /\ pkgPc'[c] = "revoke" /\ pkgJob'[c] = job
        /\ \A d \in Clis : d # c => pkgPc'[d] = pkgPc[d] /\ pkgJob'[d] = pkgJob[d]
    BY <1>1, <1>2, <1>3, PkgGoes
  <2>2. ASSUME ~pkgOverlap
        PROVE  /\ \A p \in Installed' : p.name \in pkgHalf'.names \/ GrantsOf(p) \subseteq Granted' \cup pkgLost'
               /\ \A g \in Granted' : AnsweredFor(g)'
               /\ PkgPlan(pkgPc[c], pkgJob[c])'
    <3>1. /\ \A p \in Installed : p.name \in pkgHalf.names \/ GrantsOf(p) \subseteq Granted \cup pkgLost
          /\ \A g \in Granted : AnsweredFor(g)
          /\ PkgPlan("revoke", pkgJob[c])
      BY <1>1, <2>2, PkgJobIs
    <3>2. ASSUME NEW p \in Installed', p.name \notin pkgHalf'.names
          PROVE  GrantsOf(p) \subseteq Granted' \cup pkgLost'
      <4>1. p \in Installed /\ p.name # pkgJob[c].name /\ GrantsOf(p) \subseteq Granted \cup pkgLost
        BY <1>1, <1>3, <3>1, <3>2 DEF PkgPlan
      <4>2. gone \notin GrantsOf(p) \/ gone \in pkgLost
        BY <1>3, <3>1, <4>1 DEF PkgPlan
      <4> QED
        BY <1>1, <1>3, <4>1, <4>2
    <3>3. ASSUME NEW g \in Granted'
          PROVE  AnsweredFor(g)'
      <4>1. \A d \in Clis : pkgJob'[d].manifest = pkgJob[d].manifest
        BY <1>3, <2>1
      <4>2. AnsweredFor(g)
        BY <1>3, <3>1
      <4> QED
        BY <1>1, <1>3, <4>1, <4>2 DEF AnsweredFor
    <3>4. PkgPlan("revoke", job)'
      <4>1. job.name \in pkgHalf'.names
        BY <1>1, <1>3, <3>1 DEF PkgPlan
      <4>2. ASSUME NEW p \in Installed, p.name # job.name, NEW g \in GrantsOf(p)
            PROVE  (g \notin job.commands /\ g \notin job.urls) \/ g \in pkgLost'
        BY <1>1, <1>3, <3>1, <4>2 DEF PkgPlan
      <4>3. ASSUME NEW p \in Installed, p.name = job.name, NEW g \in GrantsOf(p)
            PROVE  \/ g \notin Granted' \/ g \in job.commands \/ g \in job.urls
                   \/ \E q \in Installed : q.name # job.name /\ g \in GrantsOf(q)
        <5>1. \/ g \notin Granted \/ g \in pkgJob[c].commands \/ g \in pkgJob[c].urls
              \/ \E q \in Installed : q.name # job.name /\ g \in GrantsOf(q)
          BY <1>3, <3>1, <4>3 DEF PkgPlan
        <5>2. g = gone => g \notin Granted'
          BY <1>3
        <5>3. g # gone => \/ g \notin Granted' \/ g \in job.commands \/ g \in job.urls
                          \/ \E q \in Installed : q.name # job.name /\ g \in GrantsOf(q)
          BY <1>3, <5>1
        <5> QED
          BY <5>2, <5>3
      <4> QED
        BY <1>3, <4>1, <4>2, <4>3 DEF PkgPlan, GrantsOf
    <3>5. PkgPlan(pkgPc[c], pkgJob[c])'
      BY <2>1, <3>4
    <3>6. \A p \in Installed' : p.name \in pkgHalf'.names \/ GrantsOf(p) \subseteq Granted' \cup pkgLost'
      BY <3>2
    <3> QED
      BY <3>3, <3>5, <3>6
  <2> QED
    BY <1>1, <2>1, <2>2, PkgAlone
<1>4. \A k \in PkgKeys : k \notin PkgUrls
  BY PackagesAssumption DEF PkgKeys, PkgUrls
<1>5. Granted = DOMAIN CommandMap \cup BaseUrls /\ Granted' = DOMAIN CommandMap' \cup BaseUrls'
  BY DEF Granted, CommandMap, BaseUrls
<1>6. ASSUME NEW key \in pkgJob[c].commands,
             PkgWrite(c, DeregisterCommand(pkgConfig, key), [pkgJob[c] EXCEPT !.commands = @ \ {key}])
      PROVE  PkgInv'
  <2> DEFINE job == [pkgJob[c] EXCEPT !.commands = @ \ {key}]
  <2>1. pkgJob' = [pkgJob EXCEPT ![c] = job] /\ pkgConfig' = DeregisterCommand(pkgConfig, key)
    BY <1>6 DEF PkgWrite
  <2>2. /\ PkgConfigOK' /\ Installed' = Installed /\ BaseUrls' = BaseUrls
        /\ DOMAIN CommandMap' = DOMAIN CommandMap \ {key}
    BY <1>2, <2>1, RevokesCommand
  <2>3. /\ job = [f \in {"name", "manifest", "others", "commands", "urls"} |-> job[f]]
        /\ job.commands = pkgJob[c].commands \ {key} /\ job.urls = pkgJob[c].urls
        /\ job.manifest = pkgJob[c].manifest /\ job.name = pkgJob[c].name
    BY <1>2 DEF PkgJobOK
  <2> HIDE DEF job
  <2>4. PkgJobOK("revoke", job)
    BY <1>2, <2>3 DEF PkgJobOK
  <2>5. key \notin BaseUrls
    BY <1>2, <1>4, <1>6 DEF PkgConfigOK, PkgJobOK
  <2>6. \A g : g \in Granted' <=> g \in Granted /\ g # key
    BY <1>5, <2>2, <2>5
  <2>7. /\ \A g : g # key => /\ g \in job.commands <=> g \in pkgJob[c].commands
                             /\ g \in job.urls <=> g \in pkgJob[c].urls
        /\ job.commands \subseteq pkgJob[c].commands /\ job.urls \subseteq pkgJob[c].urls
    BY <2>3
  <2> QED
    BY <1>3, <1>6, <2>1, <2>2, <2>3, <2>4, <2>6, <2>7
<1>7. ASSUME NEW prefix \in pkgJob[c].urls,
             PkgWrite(c, RemoveAllowedBaseUrl(pkgConfig, prefix), [pkgJob[c] EXCEPT !.urls = @ \ {prefix}])
      PROVE  PkgInv'
  <2> DEFINE job == [pkgJob[c] EXCEPT !.urls = @ \ {prefix}]
  <2>1. pkgJob' = [pkgJob EXCEPT ![c] = job] /\ pkgConfig' = WriteBaseUrls(pkgConfig, BaseUrls \ {prefix})
    BY <1>7 DEF PkgWrite, RemoveAllowedBaseUrl, BaseUrls
  <2>2. /\ PkgConfigOK' /\ Installed' = Installed /\ CommandMap' = CommandMap /\ BaseUrls' = BaseUrls \ {prefix}
    <3>1. BaseUrls \ {prefix} \in SUBSET PkgUrls
      BY <1>2 DEF PkgConfigOK
    <3> QED
      BY <1>2, <2>1, <3>1, BaseUrlsAre
  <2>3. /\ job = [f \in {"name", "manifest", "others", "commands", "urls"} |-> job[f]]
        /\ job.commands = pkgJob[c].commands /\ job.urls = pkgJob[c].urls \ {prefix}
        /\ job.manifest = pkgJob[c].manifest /\ job.name = pkgJob[c].name
    BY <1>2 DEF PkgJobOK
  <2> HIDE DEF job
  <2>4. PkgJobOK("revoke", job)
    BY <1>2, <2>3 DEF PkgJobOK
  <2>5. prefix \notin DOMAIN CommandMap
    BY <1>2, <1>4, <1>7 DEF PkgConfigOK, PkgJobOK
  <2>6. \A g : g \in Granted' <=> g \in Granted /\ g # prefix
    BY <1>5, <2>2, <2>5
  <2>7. /\ \A g : g # prefix => /\ g \in job.commands <=> g \in pkgJob[c].commands
                                /\ g \in job.urls <=> g \in pkgJob[c].urls
        /\ job.commands \subseteq pkgJob[c].commands /\ job.urls \subseteq pkgJob[c].urls
    BY <2>3
  <2> QED
    BY <1>3, <1>7, <2>1, <2>2, <2>3, <2>4, <2>6, <2>7
<1> QED
  BY <1>6, <1>7 DEF RevokeCommand, RevokeUrl

\* The record goes; what is left of its grants is shared by other packages.
LEMMA UnregisterStep ==
  ASSUME PkgInv, NEW c \in Clis, Unregister(c)
  PROVE  PkgInv'
<1> DEFINE name == pkgJob[c].name
           list == {p \in Installed : p.name # name}
<1>1. /\ pkgPc[c] = "revoke" /\ pkgPc' = [pkgPc EXCEPT ![c] = "idle"]
      /\ pkgConfig' = Insert(pkgConfig, Packages, list) /\ pkgJob' = [pkgJob EXCEPT ![c] = NoJob]
      /\ pkgHalf' = [pkgHalf EXCEPT !.names = @ \ {name}] /\ pkgOverlap' = pkgOverlap /\ pkgLost' = pkgLost
      /\ pkgJob[c].commands = {} /\ pkgJob[c].urls = {}
  BY DEF Unregister, PkgGo, PkgWrite, UnregisterPackage, Installed
<1>2. /\ PkgConfigOK /\ PkgJobOK("revoke", pkgJob[c]) /\ DOMAIN pkgJob = Clis
      /\ \A p, q \in Installed : p.name = q.name => p = q
      /\ pkgHalf = [names |-> pkgHalf.names, grants |-> pkgHalf.grants] /\ pkgHalf.names \subseteq PkgNames
  BY <1>1, PkgJobIs
<1>3. /\ PkgConfigOK' /\ Installed' = list /\ CommandMap' = CommandMap /\ BaseUrls' = BaseUrls
  <2>1. list \in SUBSET Records
    BY <1>2 DEF PkgConfigOK
  <2> HIDE DEF list
  <2> QED
    BY <1>1, <1>2, <2>1, RecordsAre
<1>4. Granted' = Granted
  BY <1>3 DEF Granted, CommandMap, BaseUrls
<1>5. /\ pkgHalf'.names = pkgHalf.names \ {name} /\ pkgHalf'.grants = pkgHalf.grants
      /\ pkgHalf' = [names |-> pkgHalf'.names, grants |-> pkgHalf'.grants] /\ pkgHalf'.names \subseteq PkgNames
  BY <1>1, <1>2
<1>6. \A p : p \in Installed' <=> p \in Installed /\ p.name # name
  BY <1>3
<1> HIDE DEF list
<1>7. /\ PkgBasics' /\ pkgPc'[c] = "idle" /\ pkgJob'[c] = NoJob
      /\ \A d \in Clis : d # c => pkgPc'[d] = pkgPc[d] /\ pkgJob'[d] = pkgJob[d]
  <2>1. \A p, q \in Installed' : p.name = q.name => p = q
    BY <1>2, <1>6
  <2>2. PkgJobOK("idle", NoJob)
    BY DEF PkgJobOK, NoJob
  <2> QED
    BY <1>1, <1>3, <1>5, <2>1, <2>2, PkgGoes
<1>8. ASSUME ~pkgOverlap
      PROVE  /\ \A p \in Installed' : p.name \in pkgHalf'.names \/ GrantsOf(p) \subseteq Granted' \cup pkgLost'
             /\ \A g \in Granted' : AnsweredFor(g)'
             /\ PkgPlan(pkgPc[c], pkgJob[c])'
  <2>1. /\ \A p \in Installed : p.name \in pkgHalf.names \/ GrantsOf(p) \subseteq Granted \cup pkgLost
        /\ \A g \in Granted : AnsweredFor(g)
        /\ PkgPlan("revoke", pkgJob[c])
    BY <1>1, <1>8, PkgJobIs
  <2>2. \A p \in Installed' : p.name \in pkgHalf'.names \/ GrantsOf(p) \subseteq Granted' \cup pkgLost'
    BY <1>1, <1>4, <1>5, <1>6, <2>1
  <2>3. ASSUME NEW g \in Granted'
        PROVE  AnsweredFor(g)'
    <3>1. g \in Granted /\ AnsweredFor(g)
      BY <1>4, <2>1
    <3>2. CASE \E p \in Installed : g \in GrantsOf(p)
      <4>1. PICK p \in Installed : g \in GrantsOf(p)
        BY <3>2
      <4>2. \E q \in Installed : q.name # name /\ g \in GrantsOf(q)
        <5>1. CASE p.name = name
          BY <1>1, <2>1, <3>1, <4>1, <5>1 DEF PkgPlan
        <5>2. CASE p.name # name
          BY <4>1, <5>2
        <5> QED
          BY <5>1, <5>2
      <4> QED
        BY <1>6, <4>2 DEF AnsweredFor, GrantsOf
    <3>3. CASE g \in pkgHalf.grants
      BY <1>5, <3>3 DEF AnsweredFor
    <3>4. CASE \E d \in Clis : pkgJob[d].manifest # Null /\ g \in GrantsOf(Recorded(pkgJob[d].manifest))
      <4>1. PICK d \in Clis : pkgJob[d].manifest # Null /\ g \in GrantsOf(Recorded(pkgJob[d].manifest))
        BY <3>4
      <4>2. d # c
        BY <1>2, <4>1 DEF PkgJobOK
      <4> QED
        BY <1>7, <4>1, <4>2 DEF AnsweredFor, GrantsOf, Recorded
    <3> QED
      BY <3>1, <3>2, <3>3, <3>4 DEF AnsweredFor
  <2>4. PkgPlan(pkgPc[c], pkgJob[c])'
    BY <1>7 DEF PkgPlan
  <2> QED
    BY <2>2, <2>3, <2>4
<1> QED
  BY <1>1, <1>7, <1>8, PkgAlone

\* An operation fails, or its process dies: what an install has granted is left.
LEMMA PkgFailsStep ==
  ASSUME PkgInv, NEW c \in Clis, PkgFails(c)
  PROVE  PkgInv'
<1> DEFINE m == pkgJob[c].manifest
<1>1. /\ pkgPc[c] # "idle" /\ pkgPc' = [pkgPc EXCEPT ![c] = "idle"] /\ pkgJob' = [pkgJob EXCEPT ![c] = NoJob]
      /\ pkgHalf' = (IF m = Null THEN pkgHalf ELSE [pkgHalf EXCEPT !.grants = @ \cup GrantsOf(Recorded(m))])
      /\ pkgConfig' = pkgConfig /\ pkgOverlap' = pkgOverlap /\ pkgLost' = pkgLost
  BY DEF PkgFails
<1>2. /\ PkgConfigOK /\ DOMAIN pkgJob = Clis
      /\ \A p, q \in Installed : p.name = q.name => p = q
      /\ pkgHalf = [names |-> pkgHalf.names, grants |-> pkgHalf.grants] /\ pkgHalf.names \subseteq PkgNames
  BY PkgJobIs
<1>3. Installed' = Installed /\ CommandMap' = CommandMap /\ BaseUrls' = BaseUrls /\ Granted' = Granted
  BY <1>1 DEF Installed, CommandMap, BaseUrls, Granted
<1>4. /\ pkgHalf'.names = pkgHalf.names /\ pkgHalf.grants \subseteq pkgHalf'.grants
      /\ pkgHalf' = [names |-> pkgHalf'.names, grants |-> pkgHalf'.grants]
      /\ m # Null => GrantsOf(Recorded(m)) \subseteq pkgHalf'.grants
  <2>1. CASE m = Null
    BY <1>1, <1>2, <2>1
  <2>2. CASE m # Null
    <3> DEFINE more == GrantsOf(Recorded(m))
    <3>1. pkgHalf' = [pkgHalf EXCEPT !.grants = @ \cup more]
      BY <1>1, <2>2
    <3> HIDE DEF more
    <3>2. /\ pkgHalf'.names = pkgHalf.names /\ pkgHalf'.grants = pkgHalf.grants \cup more
          /\ pkgHalf' = [names |-> pkgHalf'.names, grants |-> pkgHalf'.grants]
      BY <1>2, <3>1
    <3> QED
      BY <3>2 DEF more
  <2> QED
    BY <2>1, <2>2
<1>5. /\ PkgBasics' /\ pkgPc'[c] = "idle" /\ pkgJob'[c] = NoJob
      /\ \A d \in Clis : d # c => pkgPc'[d] = pkgPc[d] /\ pkgJob'[d] = pkgJob[d]
  <2>1. PkgConfigOK' /\ \A p, q \in Installed' : p.name = q.name => p = q
    BY <1>2, <1>3 DEF PkgConfigOK
  <2>2. PkgJobOK("idle", NoJob)
    BY DEF PkgJobOK, NoJob
  <2>3. pkgHalf' = [names |-> pkgHalf'.names, grants |-> pkgHalf'.grants] /\ pkgHalf'.names \subseteq PkgNames
    BY <1>2, <1>4
  <2> QED
    BY <1>1, <2>1, <2>2, <2>3, PkgGoes
<1>6. ASSUME ~pkgOverlap
      PROVE  /\ \A p \in Installed' : p.name \in pkgHalf'.names \/ GrantsOf(p) \subseteq Granted' \cup pkgLost'
             /\ \A g \in Granted' : AnsweredFor(g)'
             /\ PkgPlan(pkgPc[c], pkgJob[c])'
  <2>1. /\ \A p \in Installed : p.name \in pkgHalf.names \/ GrantsOf(p) \subseteq Granted \cup pkgLost
        /\ \A g \in Granted : AnsweredFor(g)
    BY <1>6, PkgJobIs
  <2>2. \A p \in Installed' : p.name \in pkgHalf'.names \/ GrantsOf(p) \subseteq Granted' \cup pkgLost'
    BY <1>1, <1>3, <1>4, <2>1
  <2>3. ASSUME NEW g \in Granted'
        PROVE  AnsweredFor(g)'
    <3>1. AnsweredFor(g)
      BY <1>3, <2>1
    <3>2. CASE \E p \in Installed : g \in GrantsOf(p)
      BY <1>3, <3>2 DEF AnsweredFor, GrantsOf
    <3>3. CASE g \in pkgHalf.grants
      BY <1>4, <3>3 DEF AnsweredFor
    <3>4. CASE \E d \in Clis : pkgJob[d].manifest # Null /\ g \in GrantsOf(Recorded(pkgJob[d].manifest))
      <4>1. PICK d \in Clis : pkgJob[d].manifest # Null /\ g \in GrantsOf(Recorded(pkgJob[d].manifest))
        BY <3>4
      <4>2. CASE d = c
        BY <1>4, <4>1, <4>2 DEF AnsweredFor
      <4>3. CASE d # c
        BY <1>5, <4>1, <4>3 DEF AnsweredFor, GrantsOf, Recorded
      <4> QED
        BY <4>2, <4>3
    <3> QED
      BY <3>1, <3>2, <3>3, <3>4 DEF AnsweredFor
  <2>4. PkgPlan(pkgPc[c], pkgJob[c])'
    BY <1>5 DEF PkgPlan
  <2> QED
    BY <2>2, <2>3, <2>4
<1> QED
  BY <1>1, <1>5, <1>6, PkgAlone

\* What begins an operation has its whole job before it.
LEMMA PkgBeginStep ==
  ASSUME PkgInv, NEW c \in Clis,
         (\E m \in Manifests : InstallBegin(c, m)) \/ \E pkg \in Installed : UninstallBegin(c, pkg)
  PROVE  PkgInv'
<1>1. ASSUME NEW m \in Manifests, InstallBegin(c, m)
      PROVE  PkgInv'
  <2> DEFINE job == [name |-> m.name, manifest |-> m, others |-> Listed(m.name),
                     commands |-> DOMAIN m.commands, urls |-> m.urls]
  <2>1. PkgStart(c, "grant", job)
    BY <1>1 DEF InstallBegin
  <2>2. /\ job = [f \in {"name", "manifest", "others", "commands", "urls"} |-> job[f]]
        /\ job.name = m.name /\ job.manifest = m /\ job.commands = DOMAIN m.commands /\ job.urls = m.urls
    OBVIOUS
  <2> HIDE DEF job
  <2>3. m.name \in PkgNames /\ DOMAIN m.commands \subseteq PkgKeys /\ m.urls \subseteq PkgUrls
    BY PackagesAssumption DEF PkgKeys, PkgUrls
  <2>4. PkgJobOK("grant", job)
    BY <2>2, <2>3 DEF PkgJobOK
  <2> QED
    BY <2>1, <2>2, <2>4, PkgStartStep
<1>2. ASSUME NEW pkg \in Installed, UninstallBegin(c, pkg)
      PROVE  PkgInv'
  <2> DEFINE job == [name |-> pkg.name, manifest |-> Null, others |-> {},
                     commands |-> pkg.commands, urls |-> pkg.urls]
  <2>1. PkgStart(c, "unscript", job)
    BY <1>2 DEF UninstallBegin
  <2>2. /\ job = [f \in {"name", "manifest", "others", "commands", "urls"} |-> job[f]]
        /\ job.name = pkg.name /\ job.manifest = Null /\ job.commands = pkg.commands /\ job.urls = pkg.urls
    OBVIOUS
  <2> HIDE DEF job
  <2>3. PkgConfigOK /\ \A p, q \in Installed : p.name = q.name => p = q
    BY PkgJobIs
  <2>4. PICK m \in Manifests : pkg = Recorded(m)
    BY <1>2, <2>3 DEF PkgConfigOK, Records
  <2>5. pkg.name \in PkgNames /\ pkg.commands \subseteq PkgKeys /\ pkg.urls \subseteq PkgUrls
    BY <2>4, PackagesAssumption DEF PkgKeys, PkgUrls, Recorded
  <2>6. PkgJobOK("unscript", job)
    BY <2>2, <2>5 DEF PkgJobOK
  <2>7. \A p \in Installed : p.name = job.name => job.commands = p.commands /\ job.urls = p.urls
    BY <2>2, <2>3
  <2> QED
    BY <2>1, <2>2, <2>6, <2>7, PkgStartStep
<1> QED
  BY <1>1, <1>2

\* Records, jobs and grants stay in step.
LEMMA PkgIsInv ==
  PkgSpec => []PkgInv
<1>1. PkgInit => PkgInv
  <2> SUFFICES ASSUME PkgInit
               PROVE  PkgInv
    OBVIOUS
  <2>1. Installed = {} /\ BaseUrls = {} /\ DOMAIN CommandMap = {} /\ Granted = {}
    BY DEF PkgInit, Installed, BaseUrls, CommandMap, Granted, ReadBaseUrls, Field, Has, EmptyObject
  <2>2. \A c \in Clis : pkgPc[c] = "idle" /\ pkgJob[c] = NoJob
    BY DEF PkgInit
  <2>3. PkgJobOK("idle", NoJob)
    BY DEF PkgJobOK, NoJob
  <2>4. PkgBasics
    BY <2>1, <2>2, <2>3 DEF PkgInit, PkgBasics, PkgConfigOK
  <2>5. PkgFollows
    BY <2>1, <2>2 DEF PkgFollows, PkgPlan
  <2> QED
    BY <2>4, <2>5 DEF PkgInv
<1>2. PkgInv /\ [PkgNext]_pkgVars => PkgInv'
  <2> SUFFICES ASSUME PkgInv, [PkgNext]_pkgVars
               PROVE  PkgInv'
    OBVIOUS
  <2>1. CASE PkgRewrite \/ UNCHANGED pkgVars
    <3>1. /\ pkgConfig' = pkgConfig /\ pkgPc' = pkgPc /\ pkgJob' = pkgJob /\ pkgOverlap' = pkgOverlap
          /\ pkgLost' = pkgLost /\ pkgHalf' = pkgHalf
      BY <2>1 DEF PkgRewrite, pkgVars
    <3> QED
      BY <3>1 DEF PkgInv, PkgBasics, PkgConfigOK, PkgFollows, PkgPlan, AnsweredFor, Installed, CommandMap,
                  BaseUrls, Granted, GrantsOf, Recorded
  <2>2. CASE PkgNext /\ ~PkgRewrite
    BY <2>2, PkgBeginStep, GrantStep, InstallScriptStep, RegisterStep, UninstallScriptStep, RevokeStep,
       UnregisterStep, PkgFailsStep DEF PkgNext
  <2> QED
    BY <2>1, <2>2
<1> QED
  BY <1>1, <1>2, PTL DEF PkgSpec

\* No two records ever bear one name, however operations interleave; and while
\* they come one at a time, through failures and deaths at any step, a package
\* that is not half done has all it was granted, but for what an uninstall that
\* read a truncated list of the others took for unshared; and all that is
\* granted is some package's or left by an install that failed or was
\* installed over.
THEOREM PkgInvariant ==
  PkgSpec => [](PkgTypeOK /\ GrantsFollowPackages)
<1>1. PkgInv => PkgTypeOK /\ GrantsFollowPackages
  <2> SUFFICES ASSUME PkgInv
               PROVE  PkgTypeOK /\ GrantsFollowPackages
    OBVIOUS
  <2>1. \A p \in Installed : p.name \in PkgNames
    BY PackagesAssumption DEF PkgInv, PkgBasics, PkgConfigOK, Records, Recorded
  <2>2. PkgTypeOK
    BY <2>1 DEF PkgInv, PkgBasics, PkgTypeOK
  <2>3. ASSUME ~pkgOverlap, NEW g \in Granted
        PROVE  g \in (UNION {GrantsOf(p) : p \in Installed})
                       \cup pkgHalf.grants
                       \cup (UNION {GrantsOf(Recorded(pkgJob[c].manifest)) :
                                      c \in {d \in Clis : pkgJob[d].manifest # Null}})
    <3>1. AnsweredFor(g)
      BY <2>3 DEF PkgInv, PkgFollows
    <3> DEFINE have == UNION {GrantsOf(p) : p \in Installed}
               had == UNION {GrantsOf(Recorded(pkgJob[c].manifest)) :
                               c \in {d \in Clis : pkgJob[d].manifest # Null}}
    <3>2. \A p \in Installed : g \in GrantsOf(p) => g \in have
      OBVIOUS
    <3>3. \A c \in Clis : pkgJob[c].manifest # Null /\ g \in GrantsOf(Recorded(pkgJob[c].manifest)) => g \in had
      OBVIOUS
    <3>4. g \in have \cup pkgHalf.grants \cup had
      <4> HIDE DEF have, had
      <4> QED
        BY <3>1, <3>2, <3>3 DEF AnsweredFor
    <3> QED
      BY <3>4
  <2> QED
    BY <2>2, <2>3 DEF PkgInv, PkgBasics, PkgFollows, GrantsFollowPackages
<1> QED
  BY <1>1, PkgIsInv, PTL

------------------------------------------------------------------------------
(* The document store                                                        *)

\* What a save has merged, and what a thread has in hand.
DocMerged == [title : DocTitles \cup {Absent}, type_ref : DocTypes, contents : DocContents]

DocJobForms ==
  [key : DocKeys \cup {Absent}, id : Nat, new : BOOLEAN, row : DocMerged \cup {Absent},
   links : SUBSET DocTargets, todo : SUBSET DocForms(1..docIds), alone : BOOLEAN]

\* Rows of a reindex come from the table; a save has merged a row that fits; the
\* references it writes are of an id given out.
DocJobs ==
  /\ docIds \in Nat
  /\ docJob \in [DocThreads -> DocJobForms]
  /\ \A t \in DocThreads : docPc[t] # "idle" =>
       IF docJob[t].key = Absent
       THEN docPc[t] # "write" /\ (docPc[t] # "reindex" => docJob[t].id \in 1..docIds)
       ELSE /\ docPc[t] # "reindex" /\ docJob[t].id \in 1..docIds
            /\ docPc[t] = "write" =>
                 docJob[t].row \in DocMerged /\ <<docJob[t].row.contents, docJob[t].row.type_ref>> \in DocFits

Saves(t, k) == docPc[t] # "idle" /\ docJob[t].key = k

\* An id belongs to one key: among rows, and among saves.
DocIdsApart ==
  /\ \A j, k \in DocKeys : docRows[j] # Absent /\ docRows[k] # Absent /\ docRows[j].id = docRows[k].id => j = k
  /\ \A t \in DocThreads, j, k \in DocKeys :
       Saves(t, j) /\ docRows[k] # Absent /\ docRows[k].id = docJob[t].id => j = k
  /\ \A s, t \in DocThreads, j, k \in DocKeys :
       Saves(s, j) /\ Saves(t, k) /\ docJob[s].id = docJob[t].id => j = k

\* Nobody claims what a thread that runs alone claims.
AloneIsAlone ==
  \A s, t \in DocThreads, k \in DocKeys :
     docJob[t].alone /\ k \in Claims(t) /\ k \in Claims(s) => s = t

\* The key's references are these.
RefsAre(k, links) == \A target : <<docRows[k].id, target>> \in docRefs <=> target \in links

Follows(k) == docRows[k] # Absent => docRows[k].text = TextOf(docRows[k]) /\ RefsAre(k, LinksOf(docRows[k]))

\* t has written the row's text and is about its references.
InHand(t, k) ==
  /\ docRows[k].text = TextOf(docRows[k])
  /\ docJob[t].links \subseteq LinksOf(docRows[k])
  /\ docPc[t] = "unref" => docJob[t].links = LinksOf(docRows[k])
  /\ docPc[t] = "ref" => RefsAre(k, LinksOf(docRows[k]) \ docJob[t].links)

\* How far a save that runs alone has come with its key ...
SaveOnCourse(t, k) ==
  /\ docPc[t] = "write" =>
       /\ docJob[t].new <=> docRows[k] = Absent
       /\ ~docJob[t].new => docRows[k].id = docJob[t].id
       /\ docJob[t].links = LinksOf(docJob[t].row)
  /\ docPc[t] \in {"unref", "ref"} => docRows[k] # Absent /\ docRows[k].id = docJob[t].id /\ InHand(t, k)

\* ... and a reindex, with each row: it is still to do, in hand, or done.
ReindexOnCourse(t, k) ==
  docRows[k] # Absent =>
    /\ \A row \in docJob[t].todo : row.id = docRows[k].id => TextOf(row) = TextOf(docRows[k])
    /\ docPc[t] \in {"unref", "ref"} /\ docJob[t].id = docRows[k].id => InHand(t, k)
    /\ \/ docPc[t] \in {"unref", "ref"} /\ docJob[t].id = docRows[k].id
       \/ \E row \in docJob[t].todo : row.id = docRows[k].id
       \/ Follows(k)

DocOnCourse ==
  \A k \in DocKeys, t \in DocThreads :
     docJob[t].alone /\ k \in Claims(t) =>
       IF docJob[t].key = Absent THEN ReindexOnCourse(t, k) ELSE SaveOnCourse(t, k)

Unclaimed(k) == \A t \in DocThreads : k \notin Claims(t)

DocFollows == \A k \in DocKeys : Unclaimed(k) /\ k \notin docMixed => Follows(k)

DocInv == DocTypeOK /\ DocJobs /\ ContentsFitType /\ DocIdsApart /\ AloneIsAlone /\ DocOnCourse /\ DocFollows

\* What the types say of a row and of a job.
LEMMA DocShapes ==
  ASSUME DocInv
  PROVE  /\ Absent \notin DocKeys /\ Absent \notin DocForms(Nat) /\ docIds \in Nat
         /\ DocFits \subseteq DocContents \X DocTypes
         /\ \A k \in DocKeys : docRows[k] # Absent => docRows[k] \in DocForms(1..docIds)
         /\ \A t \in DocThreads : docJob[t] \in DocJobForms
         /\ \A t \in DocThreads : docPc[t] \in {"idle", "write", "unref", "ref", "reindex"}
<1>1. /\ docRows \in [DocKeys -> DocForms(1..docIds) \cup {Absent}] /\ docJob \in [DocThreads -> DocJobForms]
      /\ docPc \in [DocThreads -> {"idle", "write", "unref", "ref", "reindex"}] /\ docIds \in Nat
  BY DEF DocInv, DocTypeOK, DocJobs
<1>2. /\ Absent \notin DocKeys /\ Absent \notin DocForms(Nat) /\ DocFits \subseteq DocContents \X DocTypes
  BY DocAssumption
<1> QED
  BY <1>1, <1>2

\* More ids allow more rows.
LEMMA DocFormsGrow ==
  ASSUME NEW I, NEW J, I \subseteq J
  PROVE  DocForms(I) \subseteq DocForms(J)
BY DEF DocForms

\* What a row's text and links are made of.
LEMMA SameText ==
  ASSUME NEW r, NEW s, TextOf(r) = TextOf(s)
  PROVE  LinksOf(r) = LinksOf(s)
<1>1. r.contents = s.contents /\ r.type_ref = s.type_ref
  BY DEF TextOf
<1> QED
  BY <1>1 DEF LinksOf

\* A key whose row and references a step leaves as they are; a thread whose
\* work it leaves as it is.
KeyUntouched(k) ==
  /\ docRows'[k] = docRows[k]
  /\ docRows[k] # Absent =>
       \A target : <<docRows[k].id, target>> \in docRefs' <=> <<docRows[k].id, target>> \in docRefs

SameDocJob(t) ==
  /\ docPc'[t] = docPc[t]
  /\ docJob'[t].key = docJob[t].key /\ docJob'[t].id = docJob[t].id /\ docJob'[t].new = docJob[t].new
  /\ docJob'[t].row = docJob[t].row /\ docJob'[t].links = docJob[t].links
  /\ docJob'[t].todo = docJob[t].todo
  /\ docJob'[t].alone => docJob[t].alone

OnCourse(t, k) == IF docJob[t].key = Absent THEN ReindexOnCourse(t, k) ELSE SaveOnCourse(t, k)

\* Where a key is untouched, what the index has of it stays ...
LEMMA FollowsKept ==
  ASSUME NEW k, KeyUntouched(k), Follows(k)
  PROVE  Follows(k)'
BY DEF KeyUntouched, Follows, RefsAre

\* ... and a thread that goes on as it was is as far on its way.
LEMMA CourseKept ==
  ASSUME NEW t, NEW k, KeyUntouched(k), SameDocJob(t), OnCourse(t, k)
  PROVE  OnCourse(t, k)'
<1>1. Follows(k) => Follows(k)'
  BY FollowsKept
<1>2. docRows[k] # Absent /\ InHand(t, k) => InHand(t, k)'
  BY DEF KeyUntouched, SameDocJob, InHand, RefsAre
<1>3. ReindexOnCourse(t, k) => ReindexOnCourse(t, k)'
  BY <1>1, <1>2 DEF ReindexOnCourse, KeyUntouched, SameDocJob
<1>4. SaveOnCourse(t, k) => SaveOnCourse(t, k)'
  BY <1>2 DEF SaveOnCourse, KeyUntouched, SameDocJob
<1> QED
  BY <1>3, <1>4 DEF OnCourse, SameDocJob

\* The claims of a thread that goes on as it was.
LEMMA ClaimsKept ==
  ASSUME NEW t, SameDocJob(t)
  PROVE  Claims(t)' = Claims(t)
BY DEF SameDocJob, Claims

\* A step of u within or at the end of its job: what the others rely on.
LEMMA OthersOnCourse ==
  ASSUME AloneIsAlone, DocOnCourse, NEW u \in DocThreads,
         \A t \in DocThreads : t # u => SameDocJob(t),
         \A k \in DocKeys : k \notin Claims(u) => KeyUntouched(k),
         NEW k \in DocKeys, NEW t \in DocThreads, t # u, docJob'[t].alone, k \in Claims(t)'
  PROVE  OnCourse(t, k)'
<1>1. SameDocJob(t) /\ k \in Claims(t) /\ docJob[t].alone
  BY ClaimsKept DEF SameDocJob
<1>2. k \notin Claims(u)
  BY <1>1 DEF AloneIsAlone
<1>3. OnCourse(t, k)
  BY <1>1 DEF DocOnCourse, OnCourse
<1> QED
  BY <1>1, <1>2, <1>3, CourseKept

\* Claims that only shrink stay apart.
LEMMA AloneKept ==
  ASSUME AloneIsAlone,
         \A t \in DocThreads : Claims(t)' \subseteq Claims(t),
         \A t \in DocThreads : docJob'[t].alone => docJob[t].alone \/ Claims(t)' = {}
  PROVE  AloneIsAlone'
BY DEF AloneIsAlone

\* Ids stay apart where rows and saves keep theirs and a row gets its id from
\* a save of its key.
LEMMA IdsKept ==
  ASSUME DocIdsApart,
         \A k \in DocKeys : docRows'[k] # Absent =>
            \/ docRows[k] # Absent /\ docRows'[k].id = docRows[k].id
            \/ \E t \in DocThreads : Saves(t, k) /\ docJob[t].id = docRows'[k].id,
         \A t \in DocThreads, k \in DocKeys : Saves(t, k)' => Saves(t, k) /\ docJob'[t].id = docJob[t].id
  PROVE  DocIdsApart'
<1>1. \A j, k \in DocKeys : docRows'[j] # Absent /\ docRows'[k] # Absent /\ docRows'[j].id = docRows'[k].id
         => j = k
  BY DEF DocIdsApart
<1>2. \A t \in DocThreads, j, k \in DocKeys :
        Saves(t, j)' /\ docRows'[k] # Absent /\ docRows'[k].id = docJob'[t].id => j = k
  BY DEF DocIdsApart
<1>3. \A s, t \in DocThreads, j, k \in DocKeys :
        Saves(s, j)' /\ Saves(t, k)' /\ docJob'[s].id = docJob'[t].id => j = k
  BY DEF DocIdsApart
<1> QED
  BY <1>1, <1>2, <1>3 DEF DocIdsApart

\* A thread that is at work.
Busy(u) == u \in DocThreads /\ docPc[u] # "idle"

\* What a step of u within its job does not touch.
DocWithin(u) ==
  /\ docPc'[u] # "idle" /\ docMixed' = docMixed
  /\ docJob'[u].key = docJob[u].key /\ docJob'[u].alone = docJob[u].alone
  /\ docJob[u].key # Absent => docJob'[u].id = docJob[u].id
  /\ \A t \in DocThreads : t # u => SameDocJob(t)
  /\ \A k \in DocKeys : k \notin Claims(u) => KeyUntouched(k)
  /\ \A k \in DocKeys : docRows'[k] # Absent =>
       \/ docRows[k] # Absent /\ docRows'[k].id = docRows[k].id
       \/ Saves(u, k) /\ docJob[u].id = docRows'[k].id

\* Such a step that leaves a lone job on its course keeps all the rest.
LEMMA DocWithinStep ==
  ASSUME DocInv, NEW u, Busy(u), DocWithin(u),
         docJob[u].alone => \A k \in Claims(u) : OnCourse(u, k)'
  PROVE  DocIdsApart' /\ AloneIsAlone' /\ DocOnCourse' /\ DocFollows'
<1>a. DocIdsApart /\ AloneIsAlone /\ DocOnCourse /\ DocFollows /\ Absent \notin DocKeys
  BY DocShapes DEF DocInv
<1>b. Claims(u)' = Claims(u) /\ \A t \in DocThreads : Claims(t)' = Claims(t)
  BY ClaimsKept DEF DocWithin, Busy, Claims
<1>1. DocIdsApart'
  <2>1. \A t \in DocThreads, k \in DocKeys : Saves(t, k)' => Saves(t, k) /\ docJob'[t].id = docJob[t].id
    BY <1>a DEF DocWithin, Busy, Saves, SameDocJob
  <2>2. \A k \in DocKeys : docRows'[k] # Absent =>
            \/ docRows[k] # Absent /\ docRows'[k].id = docRows[k].id
            \/ \E t \in DocThreads : Saves(t, k) /\ docJob[t].id = docRows'[k].id
    BY DEF DocWithin, Busy
  <2> QED
    BY <1>a, <2>1, <2>2, IdsKept
<1>2. AloneIsAlone'
  BY <1>a, <1>b, AloneKept DEF DocWithin, Busy, SameDocJob
<1>3. DocOnCourse'
  <2>1. ASSUME NEW k \in DocKeys, NEW t \in DocThreads, docJob'[t].alone, k \in Claims(t)'
        PROVE  OnCourse(t, k)'
    <3>1. CASE t = u
      BY <1>b, <2>1, <3>1 DEF DocWithin
    <3>2. CASE t # u
      BY <1>a, <2>1, <3>2, OthersOnCourse DEF DocWithin, Busy
    <3> QED
      BY <3>1, <3>2
  <2> QED
    BY <2>1 DEF DocOnCourse, OnCourse
<1>4. DocFollows'
  <2>1. ASSUME NEW k \in DocKeys, Unclaimed(k)', k \notin docMixed'
        PROVE  Follows(k)'
    <3>1. k \notin Claims(u) /\ Unclaimed(k) /\ k \notin docMixed
      BY <1>b, <2>1 DEF Unclaimed, DocWithin, Busy
    <3>2. Follows(k) /\ KeyUntouched(k)
      BY <1>a, <3>1 DEF DocFollows, DocWithin
    <3> QED
      BY <3>2, FollowsKept
  <2> QED
    BY <2>1 DEF DocFollows
<1> QED
  BY <1>1, <1>2, <1>3, <1>4

\* The end of a job, whatever became of it.
LEMMA DocEndStep ==
  ASSUME DocInv, NEW u, Busy(u), NEW clean, End(u, clean),
         UNCHANGED <<docRows, docRefs, docIds>>,
         clean /\ docJob[u].alone => \A k \in Claims(u) : Follows(k)
  PROVE  DocInv'
<1>a. /\ DocTypeOK /\ DocJobs /\ ContentsFitType /\ DocIdsApart /\ AloneIsAlone /\ DocOnCourse /\ DocFollows
      /\ Absent \notin DocKeys /\ u \in DocThreads
  BY DocShapes DEF DocInv, Busy
<1>b. /\ docPc' = [docPc EXCEPT ![u] = "idle"] /\ docJob' = [docJob EXCEPT ![u] = NoDocJob]
      /\ docMixed' = docMixed \ Claims(u) \/ docMixed' = docMixed \cup Claims(u)
      /\ ~(clean /\ docJob[u].alone) => docMixed' = docMixed \cup Claims(u)
  BY DEF End
<1>c. Claims(u) \subseteq DocKeys /\ NoDocJob \in DocJobForms
  <2>1. docJob[u] \in DocJobForms
    BY DocShapes, <1>a
  <2>2. docJob[u].key \in DocKeys \cup {Absent}
    BY <2>1 DEF DocJobForms
  <2>3. NoDocJob \in DocJobForms
    BY DEF NoDocJob, DocJobForms
  <2> QED
    BY <2>2, <2>3 DEF Claims
<1>d. docPc'[u] = "idle" /\ docJob'[u].key = Absent /\ \A t \in DocThreads : t # u => docPc'[t] = docPc[t] /\ docJob'[t] = docJob[t]
  BY <1>a, <1>b DEF DocTypeOK, DocJobs, NoDocJob
<1>e. /\ \A t \in DocThreads : t # u => SameDocJob(t) /\ Claims(t)' = Claims(t)
      /\ Claims(u)' = {} /\ \A k \in DocKeys : KeyUntouched(k)
  BY <1>d, ClaimsKept DEF SameDocJob, KeyUntouched, Claims
<1>1. DocTypeOK' /\ ContentsFitType'
  BY <1>a, <1>b, <1>c DEF DocTypeOK, ContentsFitType
<1>2. DocJobs'
  <2>1. docJob' \in [DocThreads -> DocJobForms]
    BY <1>a, <1>b, <1>c DEF DocJobs
  <2>2. DocJobForms' = DocJobForms
    BY DEF DocJobForms
  <2> QED
    BY <1>a, <1>d, <2>1, <2>2 DEF DocJobs
<1>3. DocIdsApart'
  <2>1. \A t \in DocThreads, k \in DocKeys : Saves(t, k)' => Saves(t, k) /\ docJob'[t].id = docJob[t].id
    BY <1>a, <1>d DEF Saves
  <2> QED
    BY <1>a, <2>1, IdsKept
<1>4. AloneIsAlone'
  BY <1>a, <1>d, <1>e, AloneKept
<1>5. DocOnCourse'
  <2>1. ASSUME NEW k \in DocKeys, NEW t \in DocThreads, docJob'[t].alone, k \in Claims(t)'
        PROVE  OnCourse(t, k)'
    <3>1. t # u
      BY <1>e, <2>1
    <3> QED
      BY <1>a, <1>e, <2>1, <3>1, OthersOnCourse
  <2> QED
    BY <2>1 DEF DocOnCourse, OnCourse
<1>6. DocFollows'
  <2>1. ASSUME NEW k \in DocKeys, Unclaimed(k)', k \notin docMixed'
        PROVE  Follows(k)'
    <3>1. Follows(k)
      <4>1. CASE k \in Claims(u)
        BY <1>b, <2>1, <4>1
      <4>2. CASE k \notin Claims(u)
        <5>1. Unclaimed(k) /\ k \notin docMixed
          BY <1>b, <1>e, <2>1, <4>2 DEF Unclaimed
        <5> QED
          BY <1>a, <5>1 DEF DocFollows
      <4> QED
        BY <4>1, <4>2
    <3> QED
      BY <1>e, <3>1, FollowsKept
  <2> QED
    BY <2>1 DEF DocFollows
<1> QED
  BY <1>1, <1>2, <1>3, <1>4, <1>5, <1>6 DEF DocInv

\* A failure ends a job and nothing is promised of its keys.
LEMMA DocFailsStep ==
  ASSUME DocInv, NEW u \in DocThreads, DocFails(u)
  PROVE  DocInv'
<1>1. Busy(u) /\ End(u, FALSE) /\ UNCHANGED <<docRows, docRefs, docIds>>
  BY DEF DocFails, Busy
<1> QED
  BY <1>1, DocEndStep

\* A reindex ends when it has done every row.
LEMMA ReindexEndsStep ==
  ASSUME DocInv, NEW u \in DocThreads, ReindexEnds(u)
  PROVE  DocInv'
<1>1. /\ Busy(u) /\ End(u, TRUE) /\ UNCHANGED <<docRows, docRefs, docIds>>
      /\ docPc[u] = "reindex" /\ docJob[u].todo = {}
  BY DEF ReindexEnds, Busy
<1>2. docJob[u].key = Absent /\ Claims(u) = DocKeys /\ DocOnCourse
  BY <1>1 DEF DocInv, DocJobs, Claims
<1>3. docJob[u].alone => \A k \in Claims(u) : Follows(k)
  BY <1>1, <1>2 DEF DocOnCourse, ReindexOnCourse, Follows
<1> QED
  BY <1>1, <1>3, DocEndStep

\* What is in hand follows once all its links are written.
LEMMA HandDone ==
  ASSUME NEW u, NEW k, InHand(u, k), docPc[u] = "ref", docJob[u].links = {}
  PROVE  Follows(k)
<1>1. LinksOf(docRows[k]) \ docJob[u].links = LinksOf(docRows[k])
  OBVIOUS
<1> QED
  BY <1>1 DEF InHand, Follows

\* A save ends, or a reindex goes on to its next row.
LEMMA SavedDocStep ==
  ASSUME DocInv, NEW u \in DocThreads, SavedDoc(u)
  PROVE  DocInv'
<1>1. /\ Busy(u) /\ docPc[u] = "ref" /\ docJob[u].links = {}
      /\ UNCHANGED <<docRows, docRefs, docIds, docOps>> /\ DocOnCourse
  BY DEF SavedDoc, Busy, DocInv
<1>2. CASE docJob[u].key # Absent /\ End(u, TRUE)
  <2>1. docJob[u].alone => \A k \in Claims(u) : Follows(k)
    <3> SUFFICES ASSUME docJob[u].alone, NEW k \in Claims(u) PROVE Follows(k)
      OBVIOUS
    <3>1. k \in DocKeys
      <4>1. docJob[u].key \in DocKeys \cup {Absent}
        BY DocShapes DEF DocJobForms
      <4> QED
        BY <4>1, <1>2 DEF Claims
    <3>2. InHand(u, k)
      BY <1>1, <1>2, <3>1 DEF DocOnCourse, SaveOnCourse
    <3> QED
      BY <1>1, <3>2, HandDone
  <2> QED
    BY <1>1, <1>2, <2>1, DocEndStep
<1>3. CASE docJob[u].key = Absent /\ docPc' = [docPc EXCEPT ![u] = "reindex"] /\ UNCHANGED <<docJob, docMixed>>
  <2>1. /\ docPc'[u] = "reindex" /\ docJob' = docJob /\ docRows' = docRows /\ docRefs' = docRefs
        /\ docIds' = docIds /\ docMixed' = docMixed
        /\ \A t \in DocThreads : t # u => docPc'[t] = docPc[t]
    BY <1>1, <1>3 DEF DocInv, DocTypeOK
  <2>2. DocTypeOK' /\ ContentsFitType'
    BY <1>1, <1>3 DEF DocInv, DocTypeOK, ContentsFitType
  <2>3. DocJobs'
    BY <1>3, <2>1 DEF DocInv, DocJobs, DocJobForms
  <2>4. DocWithin(u)
    BY <1>3, <2>1 DEF DocWithin, SameDocJob, KeyUntouched
  <2>5. ASSUME docJob[u].alone, NEW k \in Claims(u)
        PROVE  OnCourse(u, k)'
    <3>1. k \in DocKeys
      BY <1>1, <1>3, <2>5 DEF Claims
    <3>2. ReindexOnCourse(u, k)
      BY <1>1, <1>3, <2>5, <3>1 DEF DocOnCourse
    <3>3. Follows(k) => Follows(k)'
      BY <2>1, FollowsKept DEF KeyUntouched
    <3>4. docRows[k] # Absent =>
            /\ \A row \in docJob[u].todo : row.id = docRows[k].id => TextOf(row) = TextOf(docRows[k])
            /\ (\E row \in docJob[u].todo : row.id = docRows[k].id) \/ Follows(k)
      BY <1>1, <3>2, HandDone DEF ReindexOnCourse
    <3> QED
      BY <1>3, <2>1, <3>3, <3>4 DEF OnCourse, ReindexOnCourse
  <2> QED
    BY <1>1, <2>2, <2>3, <2>4, <2>5, DocWithinStep DEF DocInv
<1> QED
  BY <1>2, <1>3 DEF SavedDoc

\* The row of a key that a thread does not claim has another id than the save
\* the thread is on.
LEMMA OtherId ==
  ASSUME DocInv, NEW u, Busy(u), docJob[u].key # Absent, NEW k \in DocKeys, k \notin Claims(u), docRows[k] # Absent
  PROVE  docRows[k].id # docJob[u].id
<1>1. docJob[u].key \in DocKeys
  BY DocShapes DEF DocJobForms, Busy
<1>2. Saves(u, docJob[u].key) /\ k # docJob[u].key
  BY DEF Busy, Saves, Claims
<1> QED
  BY <1>1, <1>2 DEF DocInv, DocIdsApart, Busy

\* Keys that a thread does not claim: a reindex claims all.
LEMMA KeysClaimed ==
  ASSUME DocInv, NEW u, Busy(u)
  PROVE  /\ Claims(u) \subseteq DocKeys
         /\ docJob[u].key = Absent => Claims(u) = DocKeys
         /\ docJob[u].key # Absent => Claims(u) = {docJob[u].key}
<1>1. docJob[u].key \in DocKeys \cup {Absent}
  BY DocShapes DEF DocJobForms, Busy
<1> QED
  BY <1>1 DEF Busy, Claims

\* Dropping the references of an id.
LEMMA DropRefsStep ==
  ASSUME DocInv, NEW u \in DocThreads, DropRefs(u)
  PROVE  DocInv'
<1> DEFINE id == docJob[u].id
<1>1. /\ Busy(u) /\ docPc[u] = "unref" /\ docPc' = [docPc EXCEPT ![u] = "ref"]
      /\ docRefs' = {r \in docRefs : r[1] # id}
      /\ docRows' = docRows /\ docIds' = docIds /\ docJob' = docJob /\ docMixed' = docMixed
  BY DEF DropRefs, Busy
<1>2. docPc'[u] = "ref" /\ \A t \in DocThreads : t # u => docPc'[t] = docPc[t]
  BY <1>1 DEF DocInv, DocTypeOK
<1>3. \A i, target : <<i, target>> \in docRefs' <=> <<i, target>> \in docRefs /\ i # id
  BY <1>1
<1> HIDE DEF id
<1>4. DocTypeOK' /\ ContentsFitType'
  BY <1>1 DEF DocInv, DocTypeOK, ContentsFitType
<1>5. DocJobs'
  BY <1>1, <1>2 DEF DocInv, DocJobs, DocJobForms
<1>6. DocWithin(u)
  <2>1. ASSUME NEW k \in DocKeys, k \notin Claims(u), docRows[k] # Absent
        PROVE  docRows[k].id # id
    BY <1>1, <2>1, OtherId, KeysClaimed DEF id
  <2>2. \A k \in DocKeys : k \notin Claims(u) => KeyUntouched(k)
    BY <1>1, <1>3, <2>1 DEF KeyUntouched
  <2> QED
    BY <1>1, <1>2, <2>2 DEF DocWithin, SameDocJob
<1>7. ASSUME docJob[u].alone, NEW k \in Claims(u)
      PROVE  OnCourse(u, k)'
  <2>1. k \in DocKeys /\ OnCourse(u, k)
    BY <1>1, <1>7, KeysClaimed DEF DocInv, DocOnCourse, OnCourse
  <2>2. ASSUME docRows[k] # Absent, docRows[k].id = id, InHand(u, k)
        PROVE  InHand(u, k)'
    BY <1>1, <1>2, <1>3, <2>2 DEF InHand, RefsAre
  <2>3. ASSUME docRows[k] # Absent, docRows[k].id # id, Follows(k)
        PROVE  Follows(k)'
    BY <1>1, <1>3, <2>3, FollowsKept DEF KeyUntouched
  <2>4. CASE docJob[u].key # Absent
    BY <1>1, <1>2, <2>1, <2>2, <2>4 DEF OnCourse, SaveOnCourse, id
  <2>5. CASE docJob[u].key = Absent
    BY <1>1, <1>2, <2>1, <2>2, <2>3, <2>5 DEF OnCourse, ReindexOnCourse, id
  <2> QED
    BY <2>4, <2>5
<1> QED
  BY <1>1, <1>4, <1>5, <1>6, <1>7, DocWithinStep DEF DocInv

\* What a job that changes as given becomes.
LEMMA DocJobTurns ==
  ASSUME DocInv, NEW u \in DocThreads, NEW job \in DocJobForms, docJob' = [docJob EXCEPT ![u] = job], docIds' = docIds
  PROVE  /\ docJob' \in [DocThreads -> DocJobForms] /\ DocJobForms' = DocJobForms /\ docJob'[u] = job
         /\ \A t \in DocThreads : t # u => docJob'[t] = docJob[t]
<1>1. docJob \in [DocThreads -> DocJobForms]
  BY DEF DocInv, DocJobs
<1> QED
  BY <1>1 DEF DocJobForms

\* Inserting one reference.
LEMMA InsertRefStep ==
  ASSUME DocInv, NEW u \in DocThreads, InsertRef(u)
  PROVE  DocInv'
<1> DEFINE id == docJob[u].id
<1>1. PICK link \in docJob[u].links :
        /\ docRefs' = docRefs \cup {<<id, link>>}
        /\ docJob' = [docJob EXCEPT ![u].links = @ \ {link}]
  BY DEF InsertRef
<1>2. /\ Busy(u) /\ docPc[u] = "ref" /\ docPc' = docPc
      /\ docRows' = docRows /\ docIds' = docIds /\ docMixed' = docMixed
  BY DEF InsertRef, Busy
<1>3. \A i, target : <<i, target>> \in docRefs' <=> <<i, target>> \in docRefs \/ (i = id /\ target = link)
  BY <1>1
<1> DEFINE job == [docJob[u] EXCEPT !.links = @ \ {link}]
<1>4. job \in DocJobForms /\ id \in 1..docIds /\ link \in DocTargets
  <2>1. docJob[u] \in DocJobForms
    BY DocShapes
  <2>2. job \in DocJobForms /\ link \in DocTargets
    BY <1>1, <2>1 DEF DocJobForms
  <2> QED
    BY <1>2, <2>2 DEF DocInv, DocJobs
<1>5. docJob' = [docJob EXCEPT ![u] = job]
  BY <1>1
<1>6. /\ docJob' \in [DocThreads -> DocJobForms] /\ DocJobForms' = DocJobForms /\ docJob'[u] = job
      /\ \A t \in DocThreads : t # u => docJob'[t] = docJob[t]
  BY <1>2, <1>4, <1>5, DocJobTurns
<1>7. /\ docJob'[u].key = docJob[u].key /\ docJob'[u].id = id /\ docJob'[u].alone = docJob[u].alone
      /\ docJob'[u].todo = docJob[u].todo /\ docJob'[u].links = docJob[u].links \ {link}
  <2>1. docJob[u] \in DocJobForms
    BY DocShapes
  <2> QED
    BY <1>6, <2>1 DEF DocJobForms
<1>8. DocTypeOK' /\ ContentsFitType'
  <2>1. docRefs' \subseteq (1..docIds) \X DocTargets
    BY <1>1, <1>4 DEF DocInv, DocTypeOK
  <2> QED
    BY <1>2, <2>1 DEF DocInv, DocTypeOK, ContentsFitType
<1> HIDE DEF id, job
<1>9. DocJobs'
  BY <1>2, <1>4, <1>6, <1>7 DEF DocInv, DocJobs
<1>10. DocWithin(u)
  <2>1. ASSUME NEW k \in DocKeys, k \notin Claims(u), docRows[k] # Absent
        PROVE  docRows[k].id # id
    BY <1>2, <2>1, OtherId, KeysClaimed DEF id
  <2>2. \A k \in DocKeys : k \notin Claims(u) => KeyUntouched(k)
    BY <1>2, <1>3, <2>1 DEF KeyUntouched
  <2> QED
    BY <1>2, <1>6, <1>7, <2>2 DEF DocWithin, SameDocJob, id
<1>11. ASSUME docJob[u].alone, NEW k \in Claims(u)
      PROVE  OnCourse(u, k)'
  <2>1. k \in DocKeys /\ OnCourse(u, k)
    BY <1>2, <1>11, KeysClaimed DEF DocInv, DocOnCourse, OnCourse
  <2>2. ASSUME docRows[k] # Absent, docRows[k].id = id, InHand(u, k)
        PROVE  InHand(u, k)'
    BY <1>1, <1>2, <1>3, <1>7, <2>2 DEF InHand, RefsAre
  <2>3. ASSUME docRows[k] # Absent, docRows[k].id # id, Follows(k)
        PROVE  Follows(k)'
    BY <1>2, <1>3, <2>3, FollowsKept DEF KeyUntouched
  <2>4. CASE docJob[u].key # Absent
    BY <1>2, <1>7, <2>1, <2>2, <2>4 DEF OnCourse, SaveOnCourse, id
  <2>5. CASE docJob[u].key = Absent
    BY <1>2, <1>7, <2>1, <2>2, <2>3, <2>5 DEF OnCourse, ReindexOnCourse, id
  <2> QED
    BY <2>4, <2>5
<1> QED
  BY <1>2, <1>8, <1>9, <1>10, <1>11, DocWithinStep DEF DocInv

\* Indexing one row by its id.
LEMMA ReindexDocStep ==
  ASSUME DocInv, NEW u \in DocThreads, ReindexDoc(u)
  PROVE  DocInv'
<1>1. PICK row \in docJob[u].todo :
        /\ docPc' = [docPc EXCEPT ![u] = "unref"]
        /\ docJob' = [docJob EXCEPT ![u].todo = @ \ {row}, ![u].id = row.id, ![u].links = LinksOf(row)]
        /\ docRows' = [k \in DocKeys |->
                         IF docRows[k] # Absent /\ docRows[k].id = row.id
                         THEN [docRows[k] EXCEPT !.text = TextOf(row)] ELSE docRows[k]]
  BY DEF ReindexDoc
<1>2. /\ Busy(u) /\ docPc[u] = "reindex" /\ docJob[u].key = Absent
      /\ docRefs' = docRefs /\ docIds' = docIds /\ docMixed' = docMixed
  BY DEF ReindexDoc, Busy, DocInv, DocJobs
<1>3. docPc'[u] = "unref" /\ \A t \in DocThreads : t # u => docPc'[t] = docPc[t]
  BY <1>1 DEF DocInv, DocTypeOK
<1>4. row \in DocForms(1..docIds) /\ row.id \in 1..docIds /\ LinksOf(row) \subseteq DocTargets
  <2>1. docJob[u] \in DocJobForms
    BY DocShapes
  <2>2. row \in DocForms(1..docIds)
    BY <1>1, <2>1 DEF DocJobForms
  <2>3. row.id \in 1..docIds /\ <<row.contents, row.type_ref>> \in DocContents \X DocTypes
    BY <2>2 DEF DocForms
  <2> QED
    BY <2>2, <2>3, DocAssumption DEF LinksOf
<1> DEFINE job == [docJob[u] EXCEPT !.todo = @ \ {row}, !.id = row.id, !.links = LinksOf(row)]
<1>5. job \in DocJobForms
  <2>1. docJob[u] \in DocJobForms /\ row.id \in Nat
    BY <1>4, DocShapes
  <2> QED
    BY <1>4, <2>1 DEF DocJobForms
<1>6. docJob' = [docJob EXCEPT ![u] = job]
  BY <1>1
<1>7. /\ docJob' \in [DocThreads -> DocJobForms] /\ DocJobForms' = DocJobForms /\ docJob'[u] = job
      /\ \A t \in DocThreads : t # u => docJob'[t] = docJob[t]
  BY <1>2, <1>5, <1>6, DocJobTurns
<1>8. /\ docJob'[u].key = docJob[u].key /\ docJob'[u].id = row.id /\ docJob'[u].alone = docJob[u].alone
      /\ docJob'[u].todo = docJob[u].todo \ {row} /\ docJob'[u].links = LinksOf(row)
  <2>1. docJob[u] \in DocJobForms
    BY DocShapes
  <2> QED
    BY <1>7, <2>1 DEF DocJobForms
<1> HIDE DEF job
<1>9. ASSUME NEW k \in DocKeys
      PROVE  /\ docRows'[k] # Absent <=> docRows[k] # Absent
             /\ docRows[k] # Absent =>
                  /\ docRows'[k] \in DocForms(1..docIds)
                  /\ docRows'[k].id = docRows[k].id /\ TextOf(docRows'[k]) = TextOf(docRows[k])
                  /\ LinksOf(docRows'[k]) = LinksOf(docRows[k])
                  /\ docRows'[k].contents = docRows[k].contents /\ docRows'[k].type_ref = docRows[k].type_ref
                  /\ docRows[k].id = row.id => docRows'[k].text = TextOf(row)
             /\ (docRows[k] = Absent \/ docRows[k].id # row.id) => docRows'[k] = docRows[k]
  <2>1. CASE docRows[k] # Absent /\ docRows[k].id = row.id
    <3>1. docRows[k] \in DocForms(1..docIds) /\ Absent \notin DocForms(Nat) /\ 1..docIds \subseteq Nat
      BY <2>1, DocShapes
    <3>2. docRows'[k] = [docRows[k] EXCEPT !.text = TextOf(row)]
      BY <1>1, <2>1
    <3>3. TextOf(row) \in [title : DocTitles \cup {Absent}, type_ref : DocTypes, contents : DocContents]
      BY <1>4 DEF TextOf, DocForms
    <3>4. docRows'[k] \in DocForms(1..docIds)
      BY <3>1, <3>2, <3>3 DEF DocForms
    <3>5. docRows'[k] # Absent
      BY <3>1, <3>4, DocFormsGrow
    <3>6. /\ docRows'[k].id = docRows[k].id /\ docRows'[k].title = docRows[k].title
          /\ docRows'[k].contents = docRows[k].contents /\ docRows'[k].type_ref = docRows[k].type_ref
          /\ docRows'[k].text = TextOf(row)
      BY <3>1, <3>2 DEF DocForms
    <3> QED
      BY <2>1, <3>4, <3>5, <3>6 DEF TextOf, LinksOf
  <2>2. CASE ~(docRows[k] # Absent /\ docRows[k].id = row.id)
    <3>1. docRows'[k] = docRows[k]
      BY <1>1, <2>2
    <3> QED
      BY <2>2, <3>1, DocShapes
  <2> QED
    BY <2>1, <2>2
<1>10. DocTypeOK' /\ ContentsFitType'
  <2>1. docRows' \in [DocKeys -> DocForms(1..docIds) \cup {Absent}]
    <3>1. docRows' = [k \in DocKeys |-> docRows'[k]]
      BY <1>1
    <3>2. \A k \in DocKeys : docRows'[k] \in DocForms(1..docIds) \cup {Absent}
      BY <1>9
    <3> QED
      BY <3>1, <3>2
  <2>2. docPc' \in [DocThreads -> {"idle", "write", "unref", "ref", "reindex"}]
    BY <1>1 DEF DocInv, DocTypeOK
  <2>3. ContentsFitType'
    BY <1>9 DEF DocInv, ContentsFitType
  <2> QED
    BY <1>2, <2>1, <2>2, <2>3 DEF DocInv, DocTypeOK
<1>11. DocJobs'
  BY <1>2, <1>3, <1>4, <1>7, <1>8 DEF DocInv, DocJobs
<1>12. DocWithin(u)
  <2>1. Claims(u) = DocKeys
    BY <1>2, KeysClaimed
  <2>2. \A t \in DocThreads : t # u => SameDocJob(t)
    BY <1>3, <1>7 DEF SameDocJob
  <2> QED
    BY <1>2, <1>3, <1>8, <1>9, <2>1, <2>2 DEF DocWithin
<1>13. ASSUME docJob[u].alone, NEW k \in Claims(u)
      PROVE  OnCourse(u, k)'
  <2>1. k \in DocKeys /\ ReindexOnCourse(u, k)
    BY <1>2, <1>13, KeysClaimed DEF DocInv, DocOnCourse
  <2>2. ReindexOnCourse(u, k)'
    <3> SUFFICES ASSUME docRows'[k] # Absent PROVE ReindexOnCourse(u, k)'
      BY DEF ReindexOnCourse
    <3>1. \A r \in docJob'[u].todo : r.id = docRows'[k].id => TextOf(r) = TextOf(docRows'[k])
      BY <1>8, <1>9, <2>1 DEF ReindexOnCourse
    <3>2. CASE docRows[k].id = row.id
      <4>1. TextOf(row) = TextOf(docRows[k])
        BY <1>1, <1>9, <2>1, <3>2 DEF ReindexOnCourse
      <4>2. docRows'[k].text = TextOf(docRows'[k]) /\ docJob'[u].links = LinksOf(docRows'[k])
        BY <1>8, <1>9, <2>1, <3>2, <4>1, SameText
      <4>3. InHand(u, k)'
        BY <1>3, <4>2 DEF InHand
      <4> QED
        BY <1>3, <1>8, <1>9, <2>1, <3>1, <3>2, <4>3 DEF ReindexOnCourse
    <3>3. CASE docRows[k].id # row.id
      <4>1. docRows'[k] = docRows[k] /\ docRows[k] # Absent
        BY <1>9, <2>1, <3>3
      <4>2. Follows(k) => Follows(k)'
        BY <1>2, <4>1, FollowsKept DEF KeyUntouched
      <4>3. (\E r \in docJob[u].todo : r.id = docRows[k].id) \/ Follows(k)
        BY <1>2, <2>1, <4>1 DEF ReindexOnCourse
      <4>4. (\E r \in docJob'[u].todo : r.id = docRows'[k].id) \/ Follows(k)'
        BY <1>8, <3>3, <4>1, <4>2, <4>3
      <4> QED
        BY <1>8, <3>1, <3>3, <4>1, <4>4 DEF ReindexOnCourse
    <3> QED
      BY <3>2, <3>3
  <2> QED
    BY <1>2, <1>8, <2>2 DEF OnCourse
<1> QED
  BY <1>2, <1>10, <1>11, <1>12, <1>13, DocWithinStep DEF DocInv

\* Writing the row a save has merged, or finding the key taken.
LEMMA WriteDocStep ==
  ASSUME DocInv, NEW u \in DocThreads, WriteDoc(u)
  PROVE  DocInv'
<1> DEFINE key == docJob[u].key
           merged == docJob[u].row
<1>1. /\ Busy(u) /\ docPc[u] = "write" /\ UNCHANGED <<docRefs, docIds, docOps>>
      /\ key \in DocKeys /\ key # Absent /\ docJob[u].id \in 1..docIds
      /\ merged \in DocMerged /\ <<merged.contents, merged.type_ref>> \in DocFits
  <2>1. docPc[u] = "write" /\ docJob[u] \in DocJobForms
    BY DocShapes DEF WriteDoc
  <2>2. docJob[u].key \in DocKeys \cup {Absent}
    BY <2>1 DEF DocJobForms
  <2> QED
    BY <2>1, <2>2 DEF WriteDoc, Busy, DocInv, DocJobs
<1>2. Claims(u) = {key}
  BY <1>1, KeysClaimed
<1>3. docJob[u].alone => SaveOnCourse(u, key)
  BY <1>1, <1>2 DEF DocInv, DocOnCourse
<1>4. CASE docJob[u].new /\ docRows[key] # Absent /\ End(u, TRUE) /\ UNCHANGED docRows
  <2>1. ~docJob[u].alone
    BY <1>1, <1>3, <1>4 DEF SaveOnCourse
  <2> QED
    BY <1>1, <1>4, <2>1, DocEndStep
<1>5. CASE /\ ~(docJob[u].new /\ docRows[key] # Absent)
           /\ docRows' = IF docJob[u].new
                         THEN [docRows EXCEPT ![key] = RowOf(docJob[u].id, merged)]
                         ELSE IF docRows[key] = Absent THEN docRows
                         ELSE [docRows EXCEPT ![key] = RowOf(docRows[key].id, merged)]
           /\ docPc' = [docPc EXCEPT ![u] = "unref"]
           /\ UNCHANGED <<docJob, docMixed>>
  <2>1. docPc'[u] = "unref" /\ \A t \in DocThreads : t # u => docPc'[t] = docPc[t]
    BY <1>5 DEF DocInv, DocTypeOK
  <2>2. docRows \in [DocKeys -> DocForms(1..docIds) \cup {Absent}] /\ DOMAIN docRows' = DocKeys
    BY <1>5 DEF DocInv, DocTypeOK
  <2>3. \A k \in DocKeys : k # key => docRows'[k] = docRows[k]
    BY <1>5, <2>2
  <2>4. ASSUME NEW id \in 1..docIds
        PROVE  RowOf(id, merged) \in DocForms(1..docIds) /\ RowOf(id, merged) # Absent
    <3>1. RowOf(id, merged) \in DocForms(1..docIds)
      BY <1>1 DEF RowOf, TextOf, DocForms, DocMerged
    <3>2. 1..docIds \subseteq Nat /\ Absent \notin DocForms(Nat)
      BY DocShapes
    <3> QED
      BY <3>1, <3>2, DocFormsGrow
  <2>5. \A id : /\ RowOf(id, merged).id = id
                /\ RowOf(id, merged).contents = merged.contents /\ RowOf(id, merged).type_ref = merged.type_ref
                /\ TextOf(RowOf(id, merged)) = TextOf(merged) /\ LinksOf(RowOf(id, merged)) = LinksOf(merged)
                /\ RowOf(id, merged).text = TextOf(merged)
    BY DEF RowOf, TextOf, LinksOf
  <2>6. \/ docRows[key] = Absent /\ docRows'[key] = Absent /\ ~docJob[u].new
        \/ /\ docRows[key] = Absent /\ docJob[u].new
           /\ docRows'[key] = RowOf(docJob[u].id, merged)
        \/ /\ docRows[key] # Absent /\ docRows[key].id \in 1..docIds /\ ~docJob[u].new
           /\ docRows'[key] = RowOf(docRows[key].id, merged)
    <3>1. docRows[key] # Absent => docRows[key].id \in 1..docIds
      BY <1>1, <2>2 DEF DocForms
    <3> QED
      BY <1>1, <1>5, <2>2, <3>1
  <2> HIDE DEF key, merged
  <2>7. docRows'[key] # Absent =>
          /\ docRows'[key] \in DocForms(1..docIds)
          /\ <<docRows'[key].contents, docRows'[key].type_ref>> \in DocFits
          /\ \/ docRows[key] # Absent /\ docRows'[key].id = docRows[key].id
             \/ docRows[key] = Absent /\ docRows'[key].id = docJob[u].id
    BY <1>1, <2>4, <2>5, <2>6
  <2>8. DocTypeOK'
    <3>1. docRows' = [k \in DocKeys |-> docRows'[k]]
      BY <2>2, <1>5
    <3>2. \A k \in DocKeys : docRows'[k] \in DocForms(1..docIds) \cup {Absent}
      BY <2>2, <2>3, <2>7
    <3>3. docRows' \in [DocKeys -> DocForms(1..docIds) \cup {Absent}]
      BY <3>1, <3>2
    <3> QED
      BY <1>1, <1>5, <3>3 DEF DocInv, DocTypeOK
  <2>9. ContentsFitType'
    BY <2>3, <2>7 DEF DocInv, ContentsFitType
  <2>10. DocJobs'
    BY <1>1, <1>5, <2>1 DEF DocInv, DocJobs, DocJobForms, key
  <2>11. DocWithin(u)
    <3>1. /\ \A t \in DocThreads : t # u => SameDocJob(t)
          /\ \A k \in DocKeys : k \notin Claims(u) => KeyUntouched(k)
      BY <1>1, <1>2, <1>5, <2>1, <2>3 DEF SameDocJob, KeyUntouched
    <3>2. \A k \in DocKeys : docRows'[k] # Absent =>
             \/ docRows[k] # Absent /\ docRows'[k].id = docRows[k].id
             \/ Saves(u, k) /\ docJob[u].id = docRows'[k].id
      BY <1>1, <2>3, <2>7 DEF Saves, Busy, key
    <3> QED
      BY <1>5, <2>1, <3>1, <3>2 DEF DocWithin
  <2>12. ASSUME docJob[u].alone, NEW k \in Claims(u)
         PROVE  OnCourse(u, k)'
    <3>1. k = key /\ SaveOnCourse(u, key) /\ docJob[u].links = LinksOf(merged)
      BY <1>1, <1>2, <1>3, <2>12 DEF SaveOnCourse, merged
    <3>2. docRows'[k] = RowOf(docJob[u].id, merged)
      BY <1>1, <2>6, <3>1 DEF SaveOnCourse
    <3>3. docRows'[k] # Absent
      BY <1>1, <2>4, <3>2
    <3>4. /\ docRows'[k].id = docJob[u].id /\ docRows'[k].text = TextOf(docRows'[k])
          /\ docJob[u].links = LinksOf(docRows'[k])
      BY <2>5, <3>1, <3>2
    <3>5. docJob' = docJob /\ docJob[u].key # Absent
      BY <1>1, <1>5 DEF key
    <3>6. InHand(u, k)'
      BY <2>1, <3>4, <3>5 DEF InHand
    <3> QED
      BY <2>1, <3>3, <3>4, <3>5, <3>6 DEF OnCourse, SaveOnCourse
  <2> QED
    BY <1>1, <1>2, <2>8, <2>9, <2>10, <2>11, <2>12, DocWithinStep DEF DocInv
<1> QED
  BY <1>4, <1>5 DEF WriteDoc

\* One statement deletes a row and its references: whatever works on the key
\* is not alone any more.
LEMMA DeleteDocStep ==
  ASSUME DocInv, NEW k \in DocKeys, DeleteDoc(k)
  PROVE  DocInv'
<1>1. /\ docRows[k] # Absent /\ docRows' = [docRows EXCEPT ![k] = Absent]
      /\ docRefs' = {r \in docRefs : r[1] # docRows[k].id}
      /\ docIds' = docIds /\ docPc' = docPc /\ docMixed' = docMixed
  BY DEF DeleteDoc
<1>2. \A i, target : <<i, target>> \in docRefs' <=> <<i, target>> \in docRefs /\ i # docRows[k].id
  BY <1>1
<1>3. docRows'[k] = Absent /\ \A j \in DocKeys : j # k => docRows'[j] = docRows[j]
  BY <1>1 DEF DocInv, DocTypeOK
<1>4. ASSUME NEW t \in DocThreads
      PROVE  SameDocJob(t) /\ docJob'[t] \in DocJobForms /\ (docJob'[t].alone => k \notin Claims(t))
  <2>1. docJob[t] \in DocJobForms /\ docJob'[t] = [docJob[t] EXCEPT !.alone = @ /\ k \notin Claims(t)]
    BY DocShapes DEF DeleteDoc
  <2> QED
    BY <1>1, <2>1 DEF DocJobForms, SameDocJob
<1>5. \A t \in DocThreads : Claims(t)' = Claims(t)
  BY <1>4, ClaimsKept
<1>6. \A j \in DocKeys : j # k => KeyUntouched(j)
  BY <1>1, <1>2, <1>3 DEF KeyUntouched, DocInv, DocIdsApart
<1>7. DocTypeOK' /\ ContentsFitType'
  <2>1. docRows' \in [DocKeys -> DocForms(1..docIds) \cup {Absent}]
    BY <1>1 DEF DocInv, DocTypeOK
  <2> QED
    BY <1>1, <1>3, <2>1 DEF DocInv, DocTypeOK, ContentsFitType
<1>8. DocJobs'
  <2>1. docJob' = [t \in DocThreads |-> docJob'[t]]
    BY DEF DeleteDoc
  <2>2. docJob' \in [DocThreads -> DocJobForms] /\ DocJobForms' = DocJobForms
    BY <1>1, <1>4, <2>1 DEF DocJobForms
  <2> QED
    BY <1>1, <1>4, <2>2 DEF DocInv, DocJobs, SameDocJob
<1>9. DocIdsApart'
  <2>1. \A t \in DocThreads, j \in DocKeys : Saves(t, j)' => Saves(t, j) /\ docJob'[t].id = docJob[t].id
    BY <1>4 DEF Saves, SameDocJob
  <2>2. \A j \in DocKeys : docRows'[j] # Absent => docRows[j] # Absent /\ docRows'[j].id = docRows[j].id
    BY <1>3
  <2> QED
    BY <2>1, <2>2, IdsKept DEF DocInv
<1>10. AloneIsAlone'
  BY <1>4, <1>5, AloneKept DEF SameDocJob, DocInv
<1>11. DocOnCourse'
  <2>1. ASSUME NEW j \in DocKeys, NEW t \in DocThreads, docJob'[t].alone, j \in Claims(t)'
        PROVE  OnCourse(t, j)'
    <3>1. j # k /\ j \in Claims(t) /\ docJob[t].alone
      BY <1>4, <1>5, <2>1 DEF SameDocJob
    <3>2. OnCourse(t, j)
      BY <3>1 DEF DocInv, DocOnCourse, OnCourse
    <3> QED
      BY <1>4, <1>6, <3>1, <3>2, CourseKept
  <2> QED
    BY <2>1 DEF DocOnCourse, OnCourse
<1>12. DocFollows'
  <2>1. ASSUME NEW j \in DocKeys, Unclaimed(j)', j \notin docMixed'
        PROVE  Follows(j)'
    <3>1. CASE j = k
      BY <1>3, <3>1 DEF Follows
    <3>2. CASE j # k
      <4>1. Follows(j)
        BY <1>1, <1>5, <2>1 DEF Unclaimed, DocInv, DocFollows
      <4> QED
        BY <1>6, <3>2, <4>1, FollowsKept
    <3> QED
      BY <3>1, <3>2
  <2> QED
    BY <2>1 DEF DocFollows
<1> QED
  BY <1>7, <1>8, <1>9, <1>10, <1>11, <1>12 DEF DocInv

\* A job that begins on keys where it is on its course keeps the rest.
LEMMA DocBeginStep ==
  ASSUME DocInv, NEW u \in DocThreads, NEW step \in {"write", "reindex"}, NEW job, NEW keys,
         Begin(u, step, job, keys), UNCHANGED <<docRows, docRefs, docMixed>>,
         docIds' \in Nat, docIds <= docIds', job \in DocJobForms',
         keys = IF job.key = Absent THEN DocKeys ELSE {job.key},
         IF job.key = Absent THEN step = "reindex"
         ELSE /\ step = "write" /\ job.id \in 1..docIds' /\ job.row \in DocMerged
              /\ <<job.row.contents, job.row.type_ref>> \in DocFits,
         \A t \in DocThreads, k \in DocKeys : t # u /\ Saves(t, k) /\ job.id = docJob[t].id => job.key \in {k, Absent},
         \A k \in DocKeys : docRows[k] # Absent /\ docRows[k].id = job.id => job.key \in {k, Absent},
         \A k \in keys : OnCourse(u, k)'
  PROVE  DocInv'
<1>1. /\ docPc[u] = "idle" /\ docPc' = [docPc EXCEPT ![u] = step]
      /\ docRows' = docRows /\ docRefs' = docRefs /\ docMixed' = docMixed
      /\ docJob' = [s \in DocThreads |->
                      IF s = u THEN [job EXCEPT !.alone = Rivals(u, keys) = {}]
                      ELSE [docJob[s] EXCEPT !.alone = @ /\ s \notin Rivals(u, keys)]]
  BY DEF Begin
<1>2. docPc'[u] = step /\ \A t \in DocThreads : t # u => docPc'[t] = docPc[t]
  BY <1>1 DEF DocInv, DocTypeOK
<1>3. /\ docJob'[u].key = job.key /\ docJob'[u].id = job.id /\ docJob'[u].row = job.row
      /\ docJob'[u].alone <=> Rivals(u, keys) = {}
      /\ docJob'[u] \in DocJobForms'
  <2>1. docJob'[u] = [job EXCEPT !.alone = Rivals(u, keys) = {}]
    BY <1>1
  <2>2. (Rivals(u, keys) = {}) \in BOOLEAN
    OBVIOUS
  <2> HIDE DEF Rivals
  <2> QED
    BY <2>1, <2>2 DEF DocJobForms
<1>4. ASSUME NEW t \in DocThreads, t # u
      PROVE  /\ SameDocJob(t) /\ docJob'[t] \in DocJobForms'
             /\ docJob'[t].alone => t \notin Rivals(u, keys)
  <2>1. docJob'[t] = [docJob[t] EXCEPT !.alone = @ /\ t \notin Rivals(u, keys)] /\ docJob[t] \in DocJobForms
    BY <1>1, <1>4, DocShapes
  <2>2. 1..docIds \subseteq 1..docIds'
    BY DocShapes
  <2>3. DocForms(1..docIds) \subseteq DocForms(1..docIds')
    BY <2>2, DocFormsGrow
  <2>4. docJob[t] \in DocJobForms'
    BY <2>1, <2>3 DEF DocJobForms
  <2>5. docJob'[t] \in DocJobForms'
    BY <2>1, <2>4 DEF DocJobForms
  <2> QED
    BY <1>2, <1>4, <2>1, <2>5 DEF DocJobForms, SameDocJob
<1>5. Claims(u) = {} /\ Claims(u)' = keys /\ \A t \in DocThreads : t # u => Claims(t)' = Claims(t)
  BY <1>1, <1>2, <1>3, <1>4, ClaimsKept DEF Claims
<1>6. DocTypeOK' /\ ContentsFitType'
  <2>1. 1..docIds \subseteq 1..docIds'
    BY DocShapes
  <2>2. DocForms(1..docIds) \subseteq DocForms(1..docIds')
    BY <2>1, DocFormsGrow
  <2>3. docRows' \in [DocKeys -> DocForms(1..docIds') \cup {Absent}]
    BY <1>1, <2>2 DEF DocInv, DocTypeOK
  <2>4. docRefs' \subseteq (1..docIds') \X DocTargets
    BY <1>1, <2>1 DEF DocInv, DocTypeOK
  <2> QED
    BY <1>1, <2>3, <2>4 DEF DocInv, DocTypeOK, ContentsFitType
<1>7. DocJobs'
  <2>1. docJob' = [t \in DocThreads |-> docJob'[t]]
    BY <1>1
  <2>2. docJob' \in [DocThreads -> DocJobForms']
    BY <1>3, <1>4, <2>1
  <2>3. 1..docIds \subseteq 1..docIds'
    BY DocShapes
  <2>4. \A t \in DocThreads : docPc'[t] # "idle" =>
         IF docJob'[t].key = Absent
         THEN docPc'[t] # "write" /\ (docPc'[t] # "reindex" => docJob'[t].id \in 1..docIds')
         ELSE /\ docPc'[t] # "reindex" /\ docJob'[t].id \in 1..docIds'
              /\ docPc'[t] = "write" =>
                   docJob'[t].row \in DocMerged /\ <<docJob'[t].row.contents, docJob'[t].row.type_ref>> \in DocFits
    <3> SUFFICES ASSUME NEW t \in DocThreads, docPc'[t] # "idle"
                 PROVE  IF docJob'[t].key = Absent
                        THEN docPc'[t] # "write" /\ (docPc'[t] # "reindex" => docJob'[t].id \in 1..docIds')
                        ELSE /\ docPc'[t] # "reindex" /\ docJob'[t].id \in 1..docIds'
                             /\ docPc'[t] = "write" =>
                                  /\ docJob'[t].row \in DocMerged
                                  /\ <<docJob'[t].row.contents, docJob'[t].row.type_ref>> \in DocFits
      OBVIOUS
    <3>1. CASE t = u
      BY <1>2, <1>3, <3>1
    <3>2. CASE t # u
      <4>1. /\ docPc'[t] = docPc[t] /\ docJob'[t].key = docJob[t].key /\ docJob'[t].id = docJob[t].id
            /\ docJob'[t].row = docJob[t].row
        BY <1>4, <3>2 DEF SameDocJob
      <4> QED
        BY <2>3, <4>1 DEF DocInv, DocJobs
    <3> QED
      BY <3>1, <3>2
  <2> QED
    BY <2>2, <2>4 DEF DocJobs
<1>8. DocIdsApart'
  <2>1. \A t \in DocThreads, k \in DocKeys : t # u /\ Saves(t, k)' => Saves(t, k) /\ docJob'[t].id = docJob[t].id
    BY <1>4 DEF Saves, SameDocJob
  <2>2. \A k \in DocKeys : Saves(u, k)' => k = job.key /\ k # Absent /\ docJob'[u].id = job.id
    BY <1>3, DocShapes DEF Saves
  <2>3. \A t \in DocThreads, j, k \in DocKeys :
          Saves(t, j)' /\ docRows'[k] # Absent /\ docRows'[k].id = docJob'[t].id => j = k
    <3> SUFFICES ASSUME NEW t \in DocThreads, NEW j \in DocKeys, NEW k \in DocKeys,
                        Saves(t, j)', docRows[k] # Absent, docRows[k].id = docJob'[t].id
                 PROVE  j = k
      BY <1>1
    <3>1. CASE t = u
      BY <2>2, <3>1
    <3>2. CASE t # u
      BY <2>1, <3>2 DEF DocInv, DocIdsApart
    <3> QED
      BY <3>1, <3>2
  <2>4. \A s, t \in DocThreads, j, k \in DocKeys :
          Saves(s, j)' /\ Saves(t, k)' /\ docJob'[s].id = docJob'[t].id => j = k
    <3> SUFFICES ASSUME NEW s \in DocThreads, NEW t \in DocThreads, NEW j \in DocKeys, NEW k \in DocKeys,
                        Saves(s, j)', Saves(t, k)', docJob'[s].id = docJob'[t].id
                 PROVE  j = k
      OBVIOUS
    <3>1. CASE s = u /\ t = u
      BY <2>2, <3>1
    <3>2. CASE s = u /\ t # u
      BY <2>1, <2>2, <3>2
    <3>3. CASE s # u /\ t = u
      BY <2>1, <2>2, <3>3
    <3>4. CASE s # u /\ t # u
      BY <2>1, <3>4 DEF DocInv, DocIdsApart
    <3> QED
      BY <3>1, <3>2, <3>3, <3>4
  <2> QED
    BY <1>1, <2>3, <2>4 DEF DocInv, DocIdsApart
<1>9. AloneIsAlone'
  <2> SUFFICES ASSUME NEW s \in DocThreads, NEW t \in DocThreads, NEW k \in DocKeys,
                      docJob'[t].alone, k \in Claims(t)', k \in Claims(s)', s # t
               PROVE  FALSE
    BY DEF AloneIsAlone
  <2>1. CASE t = u
    BY <1>3, <1>5, <2>1 DEF Rivals
  <2>2. CASE s = u
    BY <1>4, <1>5, <2>2 DEF Rivals
  <2>3. CASE t # u /\ s # u
    BY <1>4, <1>5, <2>3 DEF DocInv, AloneIsAlone, SameDocJob
  <2> QED
    BY <2>1, <2>2, <2>3
<1>10. \A k \in DocKeys : KeyUntouched(k)
  BY <1>1 DEF KeyUntouched
<1>11. DocOnCourse'
  <2>1. ASSUME NEW k \in DocKeys, NEW t \in DocThreads, docJob'[t].alone, k \in Claims(t)'
        PROVE  OnCourse(t, k)'
    <3>1. CASE t = u
      BY <1>5, <2>1, <3>1
    <3>2. CASE t # u
      BY <1>4, <1>5, <1>10, <2>1, <3>2, CourseKept DEF DocInv, DocOnCourse, OnCourse, SameDocJob
    <3> QED
      BY <3>1, <3>2
  <2> QED
    BY <2>1 DEF DocOnCourse, OnCourse
<1>12. DocFollows'
  <2>1. ASSUME NEW k \in DocKeys, Unclaimed(k)', k \notin docMixed'
        PROVE  Follows(k)'
    <3>1. Unclaimed(k) /\ k \notin docMixed
      BY <1>1, <1>5, <2>1 DEF Unclaimed
    <3> QED
      BY <1>10, <3>1, FollowsKept DEF DocInv, DocFollows
  <2> QED
    BY <2>1 DEF DocFollows
<1> QED
  BY <1>6, <1>7, <1>8, <1>9, <1>11, <1>12 DEF DocInv

\* A save reads, merges and validates.
LEMMA SaveDocStep ==
  ASSUME DocInv, NEW u \in DocThreads, NEW k \in DocKeys, NEW input \in DocInputs, SaveDoc(u, k, input)
  PROVE  DocInv'
<1> DEFINE found == docRows[k]
           merged == MergeDoc(input, found)
           id == IF found = Absent THEN docIds + 1 ELSE found.id
           job == [NoDocJob EXCEPT !.key = k, !.row = merged, !.links = LinksOf(merged),
                                   !.new = found = Absent, !.id = id]
<1>1. /\ <<merged.contents, merged.type_ref>> \in DocFits
      /\ Begin(u, "write", job, {k})
      /\ docIds' = IF found = Absent THEN docIds + 1 ELSE docIds
      /\ docRows' = docRows /\ docRefs' = docRefs /\ docMixed' = docMixed
  BY DEF SaveDoc
<1>2. k # Absent /\ docIds \in Nat /\ (found # Absent => found \in DocForms(1..docIds))
  BY DocShapes
<1>3. merged \in DocMerged /\ LinksOf(merged) \subseteq DocTargets
  <2>1. merged.contents \in DocContents /\ merged.type_ref \in DocTypes
    BY <1>1, DocShapes
  <2>2. LinksOf(merged) \subseteq DocTargets
    BY <2>1, DocAssumption DEF LinksOf
  <2>3. merged.title \in DocTitles \cup {Absent}
    BY <1>2 DEF MergeDoc, Given, DocInputs, DocForms
  <2>4. merged = [title |-> merged.title, type_ref |-> merged.type_ref, contents |-> merged.contents]
    BY DEF MergeDoc
  <2> HIDE DEF merged
  <2>5. merged \in DocMerged
    BY <2>1, <2>3, <2>4 DEF DocMerged
  <2> QED
    BY <2>2, <2>5
<1>4. docIds' \in Nat /\ docIds <= docIds' /\ id \in 1..docIds'
  <2>1. CASE found = Absent
    BY <1>1, <1>2, <2>1
  <2>2. CASE found # Absent
    <3>1. found.id \in 1..docIds
      BY <1>2, <2>2 DEF DocForms
    <3> QED
      BY <1>1, <1>2, <2>2, <3>1
  <2> QED
    BY <2>1, <2>2
<1>5. /\ found = Absent => id = docIds + 1
      /\ found # Absent => id = found.id
  OBVIOUS
<1> HIDE DEF merged, id
<1>6. /\ job.key = k /\ job.id = id /\ job.row = merged /\ job.links = LinksOf(merged)
      /\ job.new <=> found = Absent
      /\ job \in DocJobForms'
  <2>1. (found = Absent) \in BOOLEAN /\ id \in Nat
    BY <1>4
  <2>2. NoDocJob \in DocJobForms'
    BY DEF NoDocJob, DocJobForms
  <2> HIDE DEF found
  <2> QED
    BY <1>3, <2>1, <2>2 DEF DocJobForms
<1>7. \A t \in DocThreads, j \in DocKeys : t # u /\ Saves(t, j) /\ id = docJob[t].id => j = k
  <2> SUFFICES ASSUME NEW t \in DocThreads, NEW j \in DocKeys, Saves(t, j), id = docJob[t].id
               PROVE  j = k
    OBVIOUS
  <2>1. docJob[t].id \in 1..docIds
    BY DocShapes DEF DocInv, DocJobs, Saves
  <2>2. found # Absent /\ found.id = docJob[t].id
    BY <1>2, <1>5, <2>1
  <2> QED
    BY <2>2 DEF DocInv, DocIdsApart
<1>8. \A j \in DocKeys : docRows[j] # Absent /\ docRows[j].id = id => j = k
  <2> SUFFICES ASSUME NEW j \in DocKeys, docRows[j] # Absent, docRows[j].id = id
               PROVE  j = k
    OBVIOUS
  <2>1. docRows[j].id \in 1..docIds
    BY DocShapes DEF DocForms
  <2>2. found # Absent /\ found.id = docRows[j].id
    BY <1>2, <1>5, <2>1
  <2> QED
    BY <2>2 DEF DocInv, DocIdsApart
<1>9. OnCourse(u, k)'
  <2>1. docPc'[u] = "write"
    BY <1>1 DEF Begin, DocInv, DocTypeOK
  <2>2. docJob'[u] = [job EXCEPT !.alone = Rivals(u, {k}) = {}]
    BY <1>1 DEF Begin
  <2>3. /\ docJob'[u].key = k /\ docJob'[u].id = id /\ docJob'[u].row = merged
        /\ docJob'[u].links = LinksOf(merged) /\ (docJob'[u].new <=> found = Absent)
    BY <1>6, <2>2
  <2> QED
    BY <1>1, <1>2, <1>5, <2>1, <2>3 DEF OnCourse, SaveOnCourse
<1> HIDE DEF job
<1> QED
  BY <1>1, <1>2, <1>3, <1>4, <1>6, <1>7, <1>8, <1>9, DocBeginStep

\* A reindex reads every row.
LEMMA ReindexAllStep ==
  ASSUME DocInv, NEW u \in DocThreads, ReindexAll(u)
  PROVE  DocInv'
<1> DEFINE rows == {docRows[k] : k \in DocKeys} \ {Absent}
           job == [NoDocJob EXCEPT !.todo = rows]
<1>1. /\ Begin(u, "reindex", job, DocKeys)
      /\ docIds' = docIds /\ docRows' = docRows /\ docRefs' = docRefs /\ docMixed' = docMixed
  BY DEF ReindexAll
<1>2. /\ rows \subseteq DocForms(1..docIds) /\ docIds \in Nat
      /\ \A r : r \in rows <=> r # Absent /\ \E k \in DocKeys : docRows[k] = r
  BY DocShapes
<1> HIDE DEF rows
<1>3. job.key = Absent /\ job.todo = rows /\ job.id = 0 /\ job \in DocJobForms'
  <2>1. NoDocJob \in DocJobForms' /\ NoDocJob.key = Absent /\ NoDocJob.id = 0
    BY DEF NoDocJob, DocJobForms
  <2> QED
    BY <1>1, <1>2, <2>1 DEF DocJobForms
<1>4. ASSUME NEW k \in DocKeys
      PROVE  OnCourse(u, k)'
  <2>1. docPc'[u] = "reindex"
    BY <1>1 DEF Begin, DocInv, DocTypeOK
  <2>2. docJob'[u] = [job EXCEPT !.alone = Rivals(u, DocKeys) = {}]
    BY <1>1 DEF Begin
  <2>3. docJob'[u].key = Absent /\ docJob'[u].todo = rows
    BY <1>3, <2>2 DEF NoDocJob
  <2>4. ASSUME docRows[k] # Absent
        PROVE  docRows[k] \in rows /\ \A r \in rows : r.id = docRows[k].id => TextOf(r) = TextOf(docRows[k])
    BY <1>2, <2>4 DEF DocInv, DocIdsApart
  <2> QED
    BY <1>1, <2>1, <2>3, <2>4 DEF OnCourse, ReindexOnCourse
<1> HIDE DEF job
<1> QED
  BY <1>1, <1>2, <1>3, <1>4, DocBeginStep

\* The inductive invariant of the document store.
THEOREM DocInvariant == DocSpec => []DocInv
<1>1. DocInit => DocInv
  <2> SUFFICES ASSUME DocInit PROVE DocInv
    OBVIOUS
  <2>1. /\ \A k \in DocKeys : docRows[k] = Absent
        /\ \A t \in DocThreads : docPc[t] = "idle" /\ Claims(t) = {}
    BY DEF DocInit, Claims
  <2>2. NoDocJob \in DocJobForms
    BY DEF NoDocJob, DocJobForms
  <2>3. DocTypeOK
    BY DEF DocInit, DocTypeOK
  <2>4. DocJobs
    BY <2>1, <2>2 DEF DocInit, DocJobs
  <2>5. ContentsFitType /\ DocIdsApart /\ AloneIsAlone /\ DocOnCourse /\ DocFollows
    BY <2>1 DEF ContentsFitType, DocIdsApart, Saves, AloneIsAlone, DocOnCourse, DocFollows, Follows
  <2> QED
    BY <2>3, <2>4, <2>5 DEF DocInv
<1>2. DocInv /\ [DocNext]_docVars => DocInv'
  <2> SUFFICES ASSUME DocInv, [DocNext]_docVars PROVE DocInv'
    OBVIOUS
  <2>1. CASE UNCHANGED docVars
    <3>1. /\ DocTypeOK' /\ DocJobs' /\ ContentsFitType' /\ DocIdsApart' /\ AloneIsAlone'
      BY <2>1 DEF docVars, DocInv, DocTypeOK, DocJobs, DocJobForms, ContentsFitType, DocIdsApart, Saves,
                  AloneIsAlone, Claims
    <3>2. DocOnCourse'
      BY <2>1 DEF docVars, DocInv, DocOnCourse, Claims, ReindexOnCourse, SaveOnCourse, InHand, RefsAre, Follows
    <3>3. DocFollows'
      BY <2>1 DEF docVars, DocInv, DocFollows, Unclaimed, Claims, RefsAre, Follows
    <3> QED
      BY <3>1, <3>2, <3>3 DEF DocInv
  <2>2. CASE DocNext
    BY <2>2, SaveDocStep, WriteDocStep, DropRefsStep, InsertRefStep, SavedDocStep, ReindexAllStep,
       ReindexDocStep, ReindexEndsStep, DocFailsStep, DeleteDocStep DEF DocNext
  <2> QED
    BY <2>1, <2>2
<1> QED
  BY <1>1, <1>2, PTL DEF DocSpec

\* Contents always fit the type stored with them, however saves overlap
\* (src/solx-docs/src/lib.rs:345), and text and links follow every document
\* that no overlapping or interrupted write has spoiled since it was last
\* mended.
THEOREM DocsStayConsistent == DocSpec => []DocsConsistent
<1>1. DocInv => DocsConsistent
  <2> SUFFICES ASSUME DocInv PROVE DocsConsistent
    OBVIOUS
  <2>1. ASSUME NEW k \in DocKeys, docRows[k] # Absent,
               k \notin docMixed \cup UNION {Claims(t) : t \in DocThreads}
        PROVE  /\ docRows[k].text = TextOf(docRows[k])
               /\ \A target \in DocTargets : k \in LinkedTo(target) <=> target \in LinksOf(docRows[k])
    <3>1. Unclaimed(k) /\ k \notin docMixed
      BY <2>1 DEF Unclaimed
    <3>2. Follows(k)
      BY <3>1 DEF DocInv, DocFollows
    <3> QED
      BY <2>1, <3>2 DEF Follows, RefsAre, LinkedTo
  <2> QED
    BY <2>1 DEF DocsConsistent, IndexFollowsDocument, DocInv
<1> QED
  BY <1>1, DocInvariant, PTL

------------------------------------------------------------------------------
(* The stores together                                                       *)

\* All the stores beside each other keep their variables well formed, through
\* every call, failure, crash and restart.
THEOREM StoresKeepTypes ==
  ASSUME MarksAreNoObjects, CallsAreKnown
  PROVE  CfgSpec /\ EnvSpec /\ PkgSpec /\ DocSpec /\ ActSpec /\ SecSpec /\ TypSpec /\ FilSpec
           => []TypesOK
<1>1. CfgBasics /\ EnvTypeOK /\ PkgTypeOK /\ DocInv /\ ActTypeOK /\ SecTypeOK /\ TypTypeOK /\ FilTypeOK
        => TypesOK
  BY DEF TypesOK, CfgBasics, DocInv
<1> QED
  BY <1>1, CfgInvariant, EnvSticks, PkgInvariant, DocInvariant, ActInvariant, SecInvariant,
     TypInvariant, FilInvariant, PTL

------------------------------------------------------------------------------
(* Fields of a document by path                                             *)

\* A set of JSON values: with an array its items and any array of its members,
\* with an object its values and any object of its members; an error is none.
IsJson(J) ==
  /\ FieldNull \in J /\ FieldError \notin J
  /\ \A v \in J : Kind(v) = "arr" => v[2] \in Seq(J)
  /\ \A v \in J : Kind(v) = "obj" => \E K \in SUBSET STRING : v[2] \in [K -> J]
  /\ \A s \in Seq(J) : <<"arr", s>> \in J
  /\ \A K \in SUBSET STRING : \A f \in [K -> J] : <<"obj", f>> \in J

\* Two segments that name one child of v.
SameChild(v, seg, other) == seg = other \/ (Kind(v) = "arr" /\ SameSegment(seg, other))

\* What an error has for children, and what becomes of it.
LEMMA ErrorHasNone ==
  ASSUME NEW seg, NEW child
  PROVE  ChildAt(FieldError, seg) = FieldError /\ WithChild(FieldError, seg, child) = FieldError
<1>1. Kind(FieldError) = "error"
  BY DEF Kind, FieldError
<1> QED
  BY <1>1 DEF ChildAt, WithChild

\* The child of a value is a value or an error.
LEMMA ChildStays ==
  ASSUME NEW J, IsJson(J), IndexesAre, NEW v \in J \cup {FieldError}, NEW seg
  PROVE  ChildAt(v, seg) \in J \cup {FieldError}
<1>1. CASE v = FieldError
  BY <1>1, ErrorHasNone
<1>2. CASE v \in J /\ Kind(v) = "obj" /\ seg \in DOMAIN v[2]
  <2>1. PICK K \in SUBSET STRING : v[2] \in [K -> J]
    BY <1>2 DEF IsJson
  <2>2. v[2][seg] \in J
    BY <1>2, <2>1
  <2> QED
    BY <1>2, <2>2 DEF ChildAt
<1>3. CASE v \in J /\ Kind(v) = "arr" /\ seg \in DOMAIN Indexes /\ Indexes[seg] < Len(v[2])
  <2>1. v[2] \in Seq(J) /\ Indexes[seg] \in Nat
    BY <1>3 DEF IsJson, IndexesAre
  <2>2. Indexes[seg] + 1 \in 1 .. Len(v[2])
    BY <1>3, <2>1, LenProperties
  <2>3. v[2][Indexes[seg] + 1] \in J
    BY <2>1, <2>2, ElementOfSeq
  <2> QED
    BY <1>3, <2>3 DEF ChildAt
<1>4. CASE v \in J /\ ~(Kind(v) = "obj" /\ seg \in DOMAIN v[2])
             /\ ~(Kind(v) = "arr" /\ seg \in DOMAIN Indexes /\ Indexes[seg] < Len(v[2]))
  BY <1>4 DEF ChildAt
<1> QED
  BY <1>1, <1>2, <1>3, <1>4

\* A child can be replaced where there is one, and any key of an object.
LEMMA Placeable ==
  ASSUME NEW v, NEW seg, NEW child
  PROVE  /\ WithChild(v, seg, child) # FieldError =>
              /\ child # FieldError
              /\ Kind(v) = "obj" \/ (Kind(v) = "arr" /\ ChildAt(v, seg) # FieldError)
         /\ child # FieldError /\ ChildAt(v, seg) # FieldError => WithChild(v, seg, child) # FieldError
         /\ child # FieldError /\ Kind(v) = "obj" =>
              WithChild(v, seg, child) = <<"obj", WithKey(v[2], seg, child)>>
         /\ child # FieldError /\ Kind(v) = "arr" /\ ChildAt(v, seg) # FieldError =>
              /\ WithChild(v, seg, child) = <<"arr", [v[2] EXCEPT ![Indexes[seg] + 1] = child]>>
              /\ seg \in DOMAIN Indexes /\ Indexes[seg] < Len(v[2])
<1>1. \A f : <<"obj", f>> # FieldError /\ <<"arr", f>> # FieldError
  BY DEF FieldError
<1>2. ChildAt(v, seg) # FieldError => Kind(v) = "obj" \/ Kind(v) = "arr"
  BY DEF ChildAt
<1>3. Kind(v) = "arr" /\ ChildAt(v, seg) # FieldError => seg \in DOMAIN Indexes /\ Indexes[seg] < Len(v[2])
  BY DEF ChildAt
<1> QED
  BY <1>1, <1>2, <1>3 DEF WithChild

\* The place of an index below the length, counted from 1.
LEMMA PlaceOfIndex ==
  ASSUME NEW n \in Nat, NEW m \in Nat, n < m
  PROVE  n + 1 \in 1 .. m
OBVIOUS

\* A value with a child replaced is a value or an error.
LEMMA WithStays ==
  ASSUME NEW J, IsJson(J), IndexesAre, NEW v \in J \cup {FieldError}, NEW child \in J \cup {FieldError},
         NEW seg \in STRING
  PROVE  WithChild(v, seg, child) \in J \cup {FieldError}
<1>1. CASE WithChild(v, seg, child) = FieldError
  BY <1>1
<1>2. CASE WithChild(v, seg, child) # FieldError /\ Kind(v) = "obj"
  <2>1. v \in J /\ child \in J
    BY <1>2, Placeable, ErrorHasNone
  <2>2. PICK K \in SUBSET STRING : v[2] \in [K -> J]
    BY <1>2, <2>1 DEF IsJson
  <2>3. WithKey(v[2], seg, child) \in [{seg} \cup K -> J] /\ {seg} \cup K \in SUBSET STRING
    BY <2>1, <2>2 DEF WithKey
  <2>4. WithChild(v, seg, child) = <<"obj", WithKey(v[2], seg, child)>>
    BY <1>2, <2>1, Placeable
  <2> QED
    BY <2>3, <2>4 DEF IsJson
<1>3. CASE WithChild(v, seg, child) # FieldError /\ Kind(v) = "arr"
  <2>1. v \in J /\ child \in J /\ ChildAt(v, seg) # FieldError
    <3>1. v \in J /\ child \in J
      BY <1>3, Placeable, ErrorHasNone
    <3>2. ChildAt(v, seg) # FieldError
      BY <1>3, Placeable
    <3> QED
      BY <3>1, <3>2
  <2>2. v[2] \in Seq(J)
    BY <1>3, <2>1 DEF IsJson
  <2>3. [v[2] EXCEPT ![Indexes[seg] + 1] = child] \in Seq(J)
    <3>1. seg \in DOMAIN Indexes /\ Indexes[seg] < Len(v[2])
      BY <1>3, <2>1, Placeable DEF IsJson
    <3>2. Indexes[seg] \in Nat /\ Len(v[2]) \in Nat
      BY <2>2, <3>1, LenProperties DEF IndexesAre
    <3>3. Indexes[seg] + 1 \in 1 .. Len(v[2])
      BY <3>1, <3>2, PlaceOfIndex
    <3> QED
      BY <2>1, <2>2, <3>3, ExceptSeq
  <2>4. WithChild(v, seg, child) = <<"arr", [v[2] EXCEPT ![Indexes[seg] + 1] = child]>>
    BY <1>3, <2>1, Placeable
  <2> QED
    BY <2>3, <2>4 DEF IsJson
<1> QED
  BY <1>1, <1>2, <1>3, Placeable

\* Segments that name one child find the same one.
LEMMA SameChildReads ==
  ASSUME NEW v, NEW seg, NEW other, SameChild(v, seg, other)
  PROVE  ChildAt(v, seg) = ChildAt(v, other)
<1>1. CASE seg = other
  BY <1>1
<1>2. CASE Kind(v) = "arr" /\ {seg, other} \subseteq DOMAIN Indexes /\ Indexes[seg] = Indexes[other]
  BY <1>2 DEF ChildAt
<1> QED
  BY <1>1, <1>2 DEF SameChild, SameSegment

\* The child that was replaced is the new one, and every other is as it was.
LEMMA WithReads ==
  ASSUME NEW J, IsJson(J), IndexesAre, NEW v \in J, NEW child \in J, NEW seg \in STRING, NEW other,
         WithChild(v, seg, child) # FieldError
  PROVE  /\ SameChild(v, seg, other) => ChildAt(WithChild(v, seg, child), other) = child
         /\ ~SameChild(v, seg, other) => ChildAt(WithChild(v, seg, child), other) = ChildAt(v, other)
         /\ Kind(WithChild(v, seg, child)) = Kind(v)
<1>1. child # FieldError
  BY DEF IsJson
<1>2. CASE Kind(v) = "obj"
  <2>1. PICK K \in SUBSET STRING : v[2] \in [K -> J]
    BY <1>2 DEF IsJson
  <2> DEFINE f == WithKey(v[2], seg, child)
  <2>2. DOMAIN f = {seg} \cup K /\ f[seg] = child /\ \A k \in K : k # seg => f[k] = v[2][k]
    BY <2>1 DEF WithKey
  <2>3. WithChild(v, seg, child) = <<"obj", f>>
    BY <1>1, <1>2, Placeable
  <2> DEFINE u == <<"obj", f>>
  <2>4. u[1] = "obj" /\ u[2] = f
    OBVIOUS
  <2>5. SameChild(v, seg, other) <=> seg = other
    BY <1>2 DEF SameChild
  <2> HIDE DEF f, u
  <2>6. ChildAt(u, other) = IF other \in DOMAIN f THEN f[other] ELSE FieldError
    BY <2>4 DEF ChildAt, Kind
  <2>7. ChildAt(v, other) = IF other \in K THEN v[2][other] ELSE FieldError
    BY <1>2, <2>1 DEF ChildAt
  <2> QED
    BY <1>2, <2>2, <2>3, <2>4, <2>5, <2>6, <2>7 DEF u, Kind
<1>3. CASE Kind(v) = "arr"
  <2>1. ChildAt(v, seg) # FieldError
    BY <1>3, Placeable
  <2>2. seg \in DOMAIN Indexes /\ Indexes[seg] < Len(v[2])
    BY <1>1, <1>3, <2>1, Placeable
  <2>3. v[2] \in Seq(J) /\ Indexes[seg] \in Nat
    BY <1>3, <2>2 DEF IsJson, IndexesAre
  <2> DEFINE f == [v[2] EXCEPT ![Indexes[seg] + 1] = child]
  <2>4. Indexes[seg] + 1 \in 1 .. Len(v[2])
    <3>1. Len(v[2]) \in Nat
      BY <2>3, LenProperties
    <3> QED
      BY <2>2, <2>3, <3>1, PlaceOfIndex
  <2>5. /\ f \in Seq(J) /\ Len(f) = Len(v[2]) /\ f[Indexes[seg] + 1] = child
        /\ \A k \in 1 .. Len(v[2]) : k # Indexes[seg] + 1 => f[k] = v[2][k]
    BY <2>3, <2>4, ExceptSeq
  <2>6. WithChild(v, seg, child) = <<"arr", f>>
    BY <1>1, <1>3, <2>1, Placeable
  <2> DEFINE u == <<"arr", f>>
  <2>7. u[1] = "arr" /\ u[2] = f
    OBVIOUS
  <2> HIDE DEF f, u
  <2>8. ChildAt(u, other) = IF other \in DOMAIN Indexes
                            THEN IF Indexes[other] < Len(v[2]) THEN f[Indexes[other] + 1] ELSE FieldError
                            ELSE FieldError
    BY <2>5, <2>7 DEF ChildAt, Kind
  <2>9. ChildAt(v, other) = IF other \in DOMAIN Indexes
                            THEN IF Indexes[other] < Len(v[2]) THEN v[2][Indexes[other] + 1] ELSE FieldError
                            ELSE FieldError
    BY <1>3 DEF ChildAt
  <2>10. SameChild(v, seg, other) <=> other \in DOMAIN Indexes /\ Indexes[other] = Indexes[seg]
    BY <1>3, <2>2 DEF SameChild, SameSegment
  <2>11. CASE other \in DOMAIN Indexes /\ Indexes[other] = Indexes[seg]
    BY <1>3, <2>2, <2>5, <2>6, <2>7, <2>8, <2>10, <2>11 DEF u, Kind
  <2>12. CASE other \in DOMAIN Indexes /\ Indexes[other] # Indexes[seg] /\ Indexes[other] < Len(v[2])
    <3>1. Indexes[other] \in Nat /\ Len(v[2]) \in Nat
      BY <2>3, <2>12, LenProperties DEF IndexesAre
    <3>2. Indexes[other] + 1 \in 1 .. Len(v[2])
      BY <2>12, <3>1, PlaceOfIndex
    <3>4. Indexes[other] + 1 # Indexes[seg] + 1
      <4>1. \A m, n \in Nat : m # n => m + 1 # n + 1
        OBVIOUS
      <4> QED
        BY <2>3, <2>12, <3>1, <4>1
    <3>3. f[Indexes[other] + 1] = v[2][Indexes[other] + 1]
      BY <2>5, <3>2, <3>4
    <3> QED
      BY <1>3, <2>6, <2>7, <2>8, <2>9, <2>10, <2>12, <3>3 DEF u, Kind
  <2>13. CASE other \notin DOMAIN Indexes \/ (Indexes[other] # Indexes[seg] /\ ~(Indexes[other] < Len(v[2])))
    BY <1>3, <2>6, <2>7, <2>8, <2>9, <2>10, <2>13 DEF u, Kind
  <2> QED
    BY <2>11, <2>12, <2>13
<1> QED
  BY <1>2, <1>3, Placeable

\* A value with room for a child is a value or an error, and has the children
\* it had.
LEMMA RoomReads ==
  ASSUME NEW J, IsJson(J), IndexesAre, NEW v \in J \cup {FieldError}, NEW path \in Seq(STRING),
         NEW i \in 1 .. Len(path)
  PROVE  /\ WithRoom(v, path, i) \in J \cup {FieldError}
         /\ WithRoom(v, path, i) # FieldError =>
              \A other : ChildAt(v, other) # FieldError =>
                           ChildAt(WithRoom(v, path, i), other) = ChildAt(v, other)
<1> DEFINE r == WithRoom(v, path, i)
           seg == path[i]
<1>1. seg \in STRING
  BY ElementOfSeq
<1>2. CASE v = FieldError
  <2>1. Kind(v) = "error"
    BY <1>2 DEF Kind, FieldError
  <2>2. r = FieldError
    BY <2>1 DEF WithRoom
  <2> QED
    BY <2>2
<1>3. CASE v \in J /\ Kind(v) = "obj" /\ seg \in DOMAIN v[2]
  <2>1. r = v
    BY <1>3 DEF WithRoom
  <2> QED
    BY <1>3, <2>1
<1>4. CASE v \in J /\ Kind(v) = "obj" /\ seg \notin DOMAIN v[2]
  <2> DEFINE empty == IF i < Len(path) /\ path[i + 1] \in DOMAIN Indexes THEN <<"arr", <<>>>>
                      ELSE <<"obj", <<>>>>
  <2>1. r = WithChild(v, seg, empty)
    BY <1>4 DEF WithRoom
  <2>2. empty \in J
    <3>1. <<>> \in Seq(J)
      OBVIOUS
    <3>2. <<>> \in [{} -> J] /\ {} \in SUBSET STRING
      OBVIOUS
    <3>3. <<"arr", <<>>>> \in J /\ <<"obj", <<>>>> \in J
      BY <3>1, <3>2 DEF IsJson
    <3> QED
      BY <3>3
  <2> HIDE DEF empty, seg
  <2>3. r \in J \cup {FieldError}
    BY ZenonT(60), <1>1, <2>1, <2>2, WithStays
  <2>4. ASSUME r # FieldError, NEW other, ChildAt(v, other) # FieldError
        PROVE  ChildAt(r, other) = ChildAt(v, other)
    <3>1. other # seg
      BY <1>4, <2>4 DEF ChildAt
    <3>2. ~SameChild(v, seg, other)
      BY <1>4, <3>1 DEF SameChild
    <3> QED
      BY <1>1, <1>4, <2>1, <2>2, <2>4, <3>2, WithReads
  <2> QED
    BY <2>3, <2>4
<1>5. CASE v \in J /\ Kind(v) = "arr" /\ seg \in DOMAIN Indexes
  <2> DEFINE n == Len(v[2])
             m == Indexes[seg]
             length == IF n > m THEN n ELSE m + 1
             grown == [k \in 1 .. length |-> IF k \in DOMAIN v[2] THEN v[2][k] ELSE FieldNull]
  <2>1. v[2] \in Seq(J) /\ m \in Nat
    BY <1>5 DEF IsJson, IndexesAre
  <2>2. n \in Nat /\ DOMAIN v[2] = 1 .. n
    BY <2>1, LenProperties
  <2>3. length \in Nat /\ n <= length
    <3> HIDE DEF n, m
    <3> QED
      BY <2>1, <2>2
  <2>4. r = <<"arr", grown>>
    BY <1>5 DEF WithRoom
  <2>5. grown \in Seq(J) /\ Len(grown) = length /\ \A k \in 1 .. n : grown[k] = v[2][k]
    <3>1. ASSUME NEW k \in 1 .. length
          PROVE  (IF k \in DOMAIN v[2] THEN v[2][k] ELSE FieldNull) \in J
      <4>1. CASE k \in DOMAIN v[2]
        BY <2>1, <2>2, <4>1, ElementOfSeq
      <4>2. CASE k \notin DOMAIN v[2]
        BY <4>2 DEF IsJson
      <4> QED
        BY <4>1, <4>2
    <3>2. grown \in [1 .. length -> J]
      <4> HIDE DEF length
      <4> QED
        BY <3>1
    <3>3. grown \in Seq(J) /\ Len(grown) = length
      <4> HIDE DEF length, grown
      <4>1. DOMAIN grown = 1 .. length
        BY <3>2
      <4>2. grown \in Seq(J)
        BY <2>3, <3>2
      <4> QED
        BY <2>3, <4>1, <4>2, LenProperties
    <3>4. 1 .. n \subseteq 1 .. length
      <4> HIDE DEF n, length
      <4> QED
        BY <2>2, <2>3
    <3> HIDE DEF length, n
    <3> QED
      BY <2>2, <3>3, <3>4
  <2> DEFINE u == <<"arr", grown>>
  <2>6. u[1] = "arr" /\ u[2] = grown
    OBVIOUS
  <2> HIDE DEF u, grown
  <2>7. r \in J
    BY <2>4, <2>5 DEF IsJson
  <2>8. ASSUME NEW other, ChildAt(v, other) # FieldError
        PROVE  ChildAt(r, other) = ChildAt(v, other)
    <3>1. /\ other \in DOMAIN Indexes /\ Indexes[other] < n
          /\ ChildAt(v, other) = v[2][Indexes[other] + 1]
      BY <1>5, <2>8 DEF ChildAt
    <3>2. Indexes[other] \in Nat /\ Indexes[other] < length
      <4>1. Indexes[other] \in Nat
        BY <3>1 DEF IndexesAre
      <4> HIDE DEF n, length
      <4> QED
        BY <2>2, <2>3, <3>1, <4>1
    <3>3. Indexes[other] + 1 \in 1 .. n
      BY <2>2, <3>1, <3>2, PlaceOfIndex
    <3>4. ChildAt(u, other) = grown[Indexes[other] + 1]
      <4> HIDE DEF length
      <4> QED
        BY <2>5, <2>6, <3>1, <3>2 DEF ChildAt, Kind
    <3> QED
      BY <2>4, <2>5, <3>1, <3>3, <3>4 DEF u
  <2> QED
    BY <2>7, <2>8
<1>6. CASE v \in J /\ Kind(v) # "obj" /\ ~(Kind(v) = "arr" /\ seg \in DOMAIN Indexes)
  <2>1. r = FieldError
    BY <1>6 DEF WithRoom
  <2> QED
    BY <2>1
<1> QED
  BY <1>2, <1>3, <1>4, <1>5, <1>6

\* With room for a child, the children it had stay.
LEMMA RoomKeeps ==
  ASSUME NEW J, IsJson(J), IndexesAre, NEW v \in J \cup {FieldError}, NEW path \in Seq(STRING),
         NEW i \in 1 .. Len(path), NEW seg, WithRoom(v, path, i) # FieldError,
         ChildAt(v, seg) # FieldError
  PROVE  ChildAt(WithRoom(v, path, i), seg) = ChildAt(v, seg)
BY RoomReads

\* The walk along a path goes from child to child, as far as there is one.
LEMMA ReachedIs ==
  ASSUME NEW J, IsJson(J), IndexesAre, NEW v \in J \cup {FieldError},
         NEW path, Len(path) \in Nat
  PROVE  /\ Reached(v, path) \in [0 .. Len(path) -> J \cup {FieldError}]
         /\ Reached(v, path)[0] = v
         /\ \A i \in 1 .. Len(path) : Reached(v, path)[i] = ChildAt(Reached(v, path)[i - 1], path[i])
<1> DEFINE S == J \cup {FieldError}
           n == Len(path)
           Walk(f) == f = [i \in 0 .. n |-> IF i = 0 THEN v ELSE ChildAt(f[i - 1], path[i])]
           at == CHOOSE f : Walk(f)
           G == [i \in 1 .. n |-> [x \in S |-> ChildAt(x, path[i])]]
<1>1. n \in Nat
  OBVIOUS
<1>2. G \in StepsAlong(n, S) /\ v \in S
  BY ChildStays DEF StepsAlong
<1>3. PICK f \in [0 .. n -> S] : f[0] = v /\ \A i \in 1 .. n : f[i] = G[i][f[i - 1]]
  <2> HIDE DEF G, n, S
  <2>1. RunsAlong(n, S, v, G) # {}
    BY <1>1, <1>2, IterationAlong
  <2> QED
    BY <2>1 DEF RunsAlong
<1>4. ASSUME NEW i \in 0 .. n PROVE i = 0 \/ (i \in 1 .. n /\ i - 1 \in 0 .. n)
  <2> HIDE DEF n
  <2> QED
    BY <1>1
<1>5. ASSUME NEW i \in 1 .. n PROVE i \in 0 .. n /\ i # 0 /\ i - 1 \in 0 .. n
  <2> HIDE DEF n
  <2> QED
    BY <1>1
<1>6. ASSUME NEW i \in 1 .. n PROVE f[i] = ChildAt(f[i - 1], path[i])
  BY <1>3, <1>5, <1>6
<1>7. Walk(f)
  <2>1. \A i \in 0 .. n : f[i] = IF i = 0 THEN v ELSE ChildAt(f[i - 1], path[i])
    <3> HIDE DEF n
    <3> QED
      BY <1>3, <1>4, <1>6
  <2> QED
    BY <1>3, <2>1
<1>8. Walk(at)
  <2> HIDE DEF Walk
  <2> QED
    BY <1>7
<1>9. at[0] = v /\ \A i \in 1 .. n : at[i] = ChildAt(at[i - 1], path[i])
  <2>1. 0 \in 0 .. n
    <3> HIDE DEF n
    <3> QED
      BY <1>1
  <2> HIDE DEF at, n
  <2> QED
    BY <1>5, <1>8, <2>1
<1>10. \A i \in 0 .. n : at[i] = f[i]
  <2> HIDE DEF at, n
  <2>1. GoOnAlike(n, at, f)
    BY <1>3, <1>6, <1>9 DEF GoOnAlike
  <2> QED
    BY <1>1, <2>1, AgreeAlong
<1>11. at \in [0 .. n -> S]
  <2>1. at = [i \in 0 .. n |-> at[i]]
    <3> HIDE DEF at
    <3> QED
      BY <1>8
  <2> HIDE DEF at, n, S
  <2> QED
    BY <1>3, <1>10, <2>1
<1>12. Reached(v, path) = at
  BY DEF Reached
<1> HIDE DEF at
<1> QED
  BY <1>9, <1>11, <1>12

\* The walk that makes room goes on to the child it made room for.
LEMMA MadeWayIs ==
  ASSUME NEW J, IsJson(J), IndexesAre, NEW v \in J \cup {FieldError}, NEW path \in Seq(STRING)
  PROVE  /\ MadeWay(v, path) \in [0 .. Len(path) -> J \cup {FieldError}]
         /\ MadeWay(v, path)[0] = v
         /\ \A i \in 1 .. Len(path) :
              MadeWay(v, path)[i] = ChildAt(WithRoom(MadeWay(v, path)[i - 1], path, i), path[i])
<1> DEFINE S == J \cup {FieldError}
           n == Len(path)
           Walk(f) == f = [i \in 0 .. n |-> IF i = 0 THEN v ELSE ChildAt(WithRoom(f[i - 1], path, i), path[i])]
           at == CHOOSE f : Walk(f)
           G == [i \in 1 .. n |-> [x \in S |-> ChildAt(WithRoom(x, path, i), path[i])]]
<1>1. n \in Nat
  BY LenProperties
<1>2. G \in StepsAlong(n, S) /\ v \in S
  <2>1. \A i \in 1 .. n : \A x \in S : ChildAt(WithRoom(x, path, i), path[i]) \in S
    BY RoomReads, ChildStays
  <2> HIDE DEF n, S
  <2>2. G \in StepsAlong(n, S)
    BY <2>1 DEF StepsAlong
  <2> QED
    BY <2>2 DEF S
<1>3. PICK f \in [0 .. n -> S] : f[0] = v /\ \A i \in 1 .. n : f[i] = G[i][f[i - 1]]
  <2> HIDE DEF G, n, S
  <2>1. RunsAlong(n, S, v, G) # {}
    BY <1>1, <1>2, IterationAlong
  <2> QED
    BY <2>1 DEF RunsAlong
<1>4. ASSUME NEW i \in 0 .. n PROVE i = 0 \/ (i \in 1 .. n /\ i - 1 \in 0 .. n)
  <2> HIDE DEF n
  <2> QED
    BY <1>1
<1>5. ASSUME NEW i \in 1 .. n PROVE i \in 0 .. n /\ i # 0 /\ i - 1 \in 0 .. n
  <2> HIDE DEF n
  <2> QED
    BY <1>1
<1>6. ASSUME NEW i \in 1 .. n PROVE f[i] = ChildAt(WithRoom(f[i - 1], path, i), path[i])
  BY <1>3, <1>5, <1>6
<1>7. Walk(f)
  <2>1. \A i \in 0 .. n : f[i] = IF i = 0 THEN v ELSE ChildAt(WithRoom(f[i - 1], path, i), path[i])
    <3> HIDE DEF n
    <3> QED
      BY <1>3, <1>4, <1>6
  <2> QED
    BY <1>3, <2>1
<1>8. Walk(at)
  <2> HIDE DEF Walk
  <2> QED
    BY <1>7
<1>9. at[0] = v /\ \A i \in 1 .. n : at[i] = ChildAt(WithRoom(at[i - 1], path, i), path[i])
  <2>1. 0 \in 0 .. n
    <3> HIDE DEF n
    <3> QED
      BY <1>1
  <2> HIDE DEF at, n
  <2> QED
    BY <1>5, <1>8, <2>1
<1>10. \A i \in 0 .. n : at[i] = f[i]
  <2> HIDE DEF at, n
  <2>1. GoOnAlike(n, at, f)
    BY <1>3, <1>6, <1>9 DEF GoOnAlike
  <2> QED
    BY <1>1, <2>1, AgreeAlong
<1>11. at \in [0 .. n -> S]
  <2>1. at = [i \in 0 .. n |-> at[i]]
    <3> HIDE DEF at
    <3> QED
      BY <1>8
  <2> HIDE DEF at, n, S
  <2> QED
    BY <1>3, <1>10, <2>1
<1>12. MadeWay(v, path) = at
  BY DEF MadeWay
<1> HIDE DEF at
<1> QED
  BY <1>9, <1>11, <1>12

\* The values along a path, or errors.
Passes(J, path, passed) == \A i \in 0 .. Len(path) - 1 : passed[i] \in J \cup {FieldError}

\* What is put back at the end of a path is put, from the end on, in place of
\* each value passed.
LEMMA PutBackIs ==
  ASSUME NEW J, IsJson(J), IndexesAre, NEW path \in Seq(STRING), NEW new \in J \cup {FieldError},
         NEW passed, Passes(J, path, passed)
  PROVE  \E w \in [0 .. Len(path) -> J \cup {FieldError}] :
           /\ w[Len(path)] = new /\ w[0] = PutBack(passed, path, new)
           /\ \A i \in 0 .. Len(path) - 1 : w[i] = WithChild(passed[i], path[i + 1], w[i + 1])
<1> DEFINE S == J \cup {FieldError}
           n == Len(path)
           Walk(f) == f = [i \in 0 .. n |-> IF i = 0 THEN new ELSE WithChild(passed[n - i], path[n - i + 1], f[i - 1])]
           at == CHOOSE f : Walk(f)
           G == [i \in 1 .. n |-> [x \in S |-> WithChild(passed[n - i], path[n - i + 1], x)]]
<1>1. n \in Nat
  BY LenProperties
<1>2. G \in StepsAlong(n, S) /\ new \in S
  <2>1. ASSUME NEW i \in 1 .. n PROVE n - i \in 0 .. n - 1 /\ n - i + 1 \in 1 .. n
    <3> HIDE DEF n
    <3> QED
      BY <1>1
  <2>2. ASSUME NEW i \in 1 .. n PROVE passed[n - i] \in S /\ path[n - i + 1] \in STRING
    BY <2>1, ElementOfSeq DEF Passes
  <2>3. \A i \in 1 .. n : \A x \in S : WithChild(passed[n - i], path[n - i + 1], x) \in S
    BY <2>2, WithStays
  <2> HIDE DEF n, S
  <2>4. G \in StepsAlong(n, S)
    BY <2>3 DEF StepsAlong
  <2> QED
    BY <2>4 DEF S
<1>3. PICK f \in [0 .. n -> S] : f[0] = new /\ \A i \in 1 .. n : f[i] = G[i][f[i - 1]]
  <2> HIDE DEF G, n, S
  <2>1. RunsAlong(n, S, new, G) # {}
    BY <1>1, <1>2, IterationAlong
  <2> QED
    BY <2>1 DEF RunsAlong
<1>4. ASSUME NEW i \in 0 .. n PROVE i = 0 \/ (i \in 1 .. n /\ i - 1 \in 0 .. n)
  <2> HIDE DEF n
  <2> QED
    BY <1>1
<1>5. ASSUME NEW i \in 1 .. n PROVE i \in 0 .. n /\ i # 0 /\ i - 1 \in 0 .. n
  <2> HIDE DEF n
  <2> QED
    BY <1>1
<1>6. ASSUME NEW i \in 1 .. n PROVE f[i] = WithChild(passed[n - i], path[n - i + 1], f[i - 1])
  BY <1>3, <1>5, <1>6
<1>7. Walk(f)
  <2>1. \A i \in 0 .. n : f[i] = IF i = 0 THEN new ELSE WithChild(passed[n - i], path[n - i + 1], f[i - 1])
    <3> HIDE DEF n
    <3> QED
      BY <1>3, <1>4, <1>6
  <2> QED
    BY <1>3, <2>1
<1>8. Walk(at)
  <2> HIDE DEF Walk
  <2> QED
    BY <1>7
<1>9. at[0] = new /\ \A i \in 1 .. n : at[i] = WithChild(passed[n - i], path[n - i + 1], at[i - 1])
  <2>1. 0 \in 0 .. n
    <3> HIDE DEF n
    <3> QED
      BY <1>1
  <2> HIDE DEF at, n
  <2> QED
    BY <1>5, <1>8, <2>1
<1>10. \A i \in 0 .. n : at[i] = f[i]
  <2> HIDE DEF at, n
  <2>1. GoOnAlike(n, at, f)
    BY <1>3, <1>6, <1>9 DEF GoOnAlike
  <2> QED
    BY <1>1, <2>1, AgreeAlong
<1>11. at \in [0 .. n -> S]
  <2>1. at = [i \in 0 .. n |-> at[i]]
    <3> HIDE DEF at
    <3> QED
      BY <1>8
  <2> HIDE DEF at, n, S
  <2> QED
    BY <1>3, <1>10, <2>1
<1>12. PutBack(passed, path, new) = at[n]
  BY DEF PutBack
<1> DEFINE w == [i \in 0 .. n |-> at[n - i]]
<1>13. ASSUME NEW i \in 0 .. n
       PROVE  n - i \in 0 .. n /\ (i \in 0 .. n - 1 => n - i \in 1 .. n /\ i + 1 \in 0 .. n
                                     /\ n - (n - i) = i /\ n - i - 1 = n - (i + 1))
  <2> HIDE DEF n
  <2> QED
    BY <1>1
<1>14. 0 \in 0 .. n /\ n \in 0 .. n /\ n - n = 0 /\ n - 0 = n /\ 0 .. n - 1 \subseteq 0 .. n
  <2> HIDE DEF n
  <2> QED
    BY <1>1
<1> HIDE DEF at, n, S
<1>15. w \in [0 .. n -> S] /\ w[n] = new /\ w[0] = at[n]
  BY <1>9, <1>11, <1>13, <1>14
<1>16. ASSUME NEW i \in 0 .. n - 1 PROVE w[i] = WithChild(passed[i], path[i + 1], w[i + 1])
  <2>1. i \in 0 .. n
    BY <1>14
  <2>2. w[i] = at[n - i] /\ w[i + 1] = at[n - i - 1]
    BY <1>13, <2>1
  <2>3. at[n - i] = WithChild(passed[n - (n - i)], path[n - (n - i) + 1], at[n - i - 1])
    BY <1>9, <1>13, <2>1
  <2>4. n - (n - i) = i
    BY <1>13, <2>1
  <2> HIDE DEF w
  <2> QED
    BY <2>2, <2>3, <2>4
<1> HIDE DEF w
<1> QED
  BY <1>12, <1>15, <1>16 DEF n, S

\* Where a path leads to a value, so does each beginning of it.
LEMMA WayIsThere ==
  ASSUME NEW J, IsJson(J), IndexesAre, NEW v \in J, NEW path \in Seq(STRING),
         ValueAtPath(v, path) # FieldError, NEW i \in 0 .. Len(path)
  PROVE  Reached(v, path)[i] \in J
<1> DEFINE n == Len(path)
           r == Reached(v, path)
           There == {k \in 0 .. n : r[k] # FieldError}
<1>1. n \in Nat
  BY LenProperties
<1>2. r \in [0 .. n -> J \cup {FieldError}] /\ \A k \in 1 .. n : r[k] = ChildAt(r[k - 1], path[k])
  BY <1>1, ReachedIs
<1> HIDE DEF n, r
<1>3. n \in There
  BY <1>1 DEF ValueAtPath, r, n
<1>4. ASSUME NEW k \in 1 .. n, k \in There PROVE k - 1 \in There
  <2>1. k - 1 \in 0 .. n
    BY <1>1
  <2>2. r[k] = ChildAt(r[k - 1], path[k])
    BY <1>2
  <2> QED
    BY <1>4, <2>1, <2>2, ErrorHasNone
<1>5. 0 .. n \subseteq There
  <2> HIDE DEF There
  <2> QED
    BY <1>1, <1>3, <1>4, InductionDown
<1> QED
  BY <1>2, <1>5 DEF r, n

\* The values along a path after something new was put at its end.
PutAlong(J, path, passed, w) ==
  /\ w \in [0 .. Len(path) -> J]
  /\ \A i \in 0 .. Len(path) - 1 :
       passed[i] \in J /\ WithChild(passed[i], path[i + 1], w[i + 1]) # FieldError
         /\ w[i] = WithChild(passed[i], path[i + 1], w[i + 1])

\* What is put back without an error is put in place of values, all along.
LEMMA PutBackAll ==
  ASSUME NEW J, IsJson(J), IndexesAre, NEW path \in Seq(STRING), NEW new \in J \cup {FieldError},
         NEW passed, Passes(J, path, passed), PutBack(passed, path, new) # FieldError
  PROVE  \E w : PutAlong(J, path, passed, w) /\ w[Len(path)] = new /\ w[0] = PutBack(passed, path, new)
<1> DEFINE n == Len(path)
<1>1. n \in Nat
  BY LenProperties
<1>2. PICK w \in [0 .. n -> J \cup {FieldError}] :
        /\ w[n] = new /\ w[0] = PutBack(passed, path, new)
        /\ \A i \in 0 .. n - 1 : w[i] = WithChild(passed[i], path[i + 1], w[i + 1])
  BY PutBackIs
<1> DEFINE There == {k \in 0 .. n : w[k] # FieldError}
<1> HIDE DEF n
<1>3. 0 \in There
  BY <1>1, <1>2
<1>4. ASSUME NEW k \in 0 .. n - 1, k \in There PROVE k + 1 \in There
  <2>1. k + 1 \in 0 .. n
    BY <1>1
  <2>2. w[k] = WithChild(passed[k], path[k + 1], w[k + 1])
    BY <1>2
  <2> QED
    BY <1>4, <2>1, <2>2, Placeable
<1>5. 0 .. n \subseteq There
  <2> HIDE DEF There
  <2> QED
    BY <1>1, <1>3, <1>4, Induction
<1>6. w \in [0 .. n -> J]
  BY <1>2, <1>5
<1>7. ASSUME NEW i \in 0 .. n - 1 PROVE passed[i] \in J /\ w[i] # FieldError
  <2>1. i \in 0 .. n
    BY <1>1
  <2>2. w[i] # FieldError /\ w[i] = WithChild(passed[i], path[i + 1], w[i + 1])
    BY <1>2, <1>5, <2>1
  <2>3. passed[i] # FieldError
    BY <2>2, ErrorHasNone
  <2>4. passed[i] \in J \cup {FieldError}
    BY DEF Passes, n
  <2> QED
    BY <2>2, <2>3, <2>4
<1>8. PutAlong(J, path, passed, w)
  BY <1>2, <1>6, <1>7 DEF PutAlong, n
<1> QED
  BY <1>2, <1>8 DEF n

\* What was put in a value's child is read there, whichever way the child is named.
LEMMA ReadsNew ==
  ASSUME NEW J, IsJson(J), IndexesAre, NEW v \in J, NEW child \in J, NEW seg \in STRING, NEW other,
         WithChild(v, seg, child) # FieldError, SameChild(v, seg, other)
  PROVE  ChildAt(WithChild(v, seg, child), other) = child
BY WithReads

\* Every other child is as it was.
LEMMA ReadsOld ==
  ASSUME NEW J, IsJson(J), IndexesAre, NEW v \in J, NEW child \in J, NEW seg \in STRING, NEW other,
         WithChild(v, seg, child) # FieldError, ~SameChild(v, seg, other)
  PROVE  ChildAt(WithChild(v, seg, child), other) = ChildAt(v, other)
BY WithReads

\* What was put at the end of a path is read there.
LEMMA ReadBack ==
  ASSUME NEW J, IsJson(J), IndexesAre, NEW path \in Seq(STRING), NEW passed, NEW w,
         PutAlong(J, path, passed, w)
  PROVE  ValueAtPath(w[0], path) = w[Len(path)]
<1> DEFINE n == Len(path)
           r == Reached(w[0], path)
<1>1. n \in Nat
  BY LenProperties
<1>2. w \in [0 .. n -> J]
  BY DEF PutAlong
<1>3. w[0] \in J
  <2>1. 0 \in 0 .. n
    <3> HIDE DEF n
    <3> QED
      BY <1>1
  <2> QED
    BY <1>2, <2>1
<1>4. r[0] = w[0] /\ \A i \in 1 .. n : r[i] = ChildAt(r[i - 1], path[i])
  BY <1>1, <1>3, ReachedIs
<1>5. ASSUME NEW i \in 1 .. n, r[i - 1] = w[i - 1] PROVE r[i] = w[i]
  <2>1. i - 1 \in 0 .. n - 1 /\ i - 1 + 1 = i /\ i \in 0 .. n /\ n \in Nat
    <3> HIDE DEF n
    <3> QED
      BY <1>1
  <2>2. /\ passed[i - 1] \in J /\ WithChild(passed[i - 1], path[i], w[i]) # FieldError
        /\ w[i - 1] = WithChild(passed[i - 1], path[i], w[i])
    BY <2>1 DEF PutAlong
  <2>3. path[i] \in STRING /\ w[i] \in J
    BY <1>2, <2>1, ElementOfSeq
  <2>4. ChildAt(WithChild(passed[i - 1], path[i], w[i]), path[i]) = w[i]
    <3>1. SameChild(passed[i - 1], path[i], path[i])
      BY DEF SameChild
    <3>2. passed[i - 1] \in J /\ WithChild(passed[i - 1], path[i], w[i]) # FieldError
      BY <2>2
    <3> QED
      BY <2>3, <3>1, <3>2, ReadsNew
  <2>5. ChildAt(w[i - 1], path[i]) = w[i]
    BY <2>2, <2>4
  <2> QED
    BY <1>4, <1>5, <2>5
<1> HIDE DEF r
<1>6. \A i \in 0 .. n : r[i] = w[i]
  <2> HIDE DEF n
  <2>1. GoOnAlike(n, r, w)
    BY <1>4, <1>5 DEF GoOnAlike
  <2> QED
    BY <1>1, <2>1, AgreeAlong
<1>7. n \in 0 .. n
  <2> HIDE DEF n
  <2> QED
    BY <1>1
<1>8. r[n] = w[n]
  <2> HIDE DEF n
  <2> QED
    BY <1>6, <1>7
<1> QED
  BY <1>8 DEF r, ValueAtPath

\* The values on the way to the end of a path, each with room for the next.
WayAlong(path, at, passed) ==
  \A i \in 0 .. Len(path) - 1 :
    /\ at[i + 1] = ChildAt(passed[i], path[i + 1])
    /\ \A seg : ChildAt(at[i], seg) # FieldError => ChildAt(passed[i], seg) = ChildAt(at[i], seg)

\* Something new at the end of a path leaves what no part of the path leads to,
\* and what leads to no part of it, as it was.
LEMMA OthersStay ==
  ASSUME NEW J, IsJson(J), IndexesAre, NEW path \in Seq(STRING), NEW at, NEW passed, NEW w,
         WayAlong(path, at, passed), PutAlong(J, path, passed, w), at[0] \in J,
         NEW q \in Seq(STRING), ValueAtPath(at[0], q) # FieldError, ~LeadsTo(path, q), ~LeadsTo(q, path)
  PROVE  ValueAtPath(w[0], q) = ValueAtPath(at[0], q)
<1> DEFINE n == Len(path)
           m == Len(q)
           r == Reached(at[0], q)
           u == Reached(w[0], q)
           On(i) == i <= n /\ u[i] = w[i] /\ r[i] = at[i] /\ \A k \in 1 .. i : SameSegment(path[k], q[k])
           Good == {i \in 0 .. m : u[i] = r[i] \/ On(i)}
<1>1. n \in Nat /\ m \in Nat
  BY LenProperties
<1>2. w[0] \in J
  <2>1. 0 \in 0 .. n
    <3> HIDE DEF n
    <3> QED
      BY <1>1
  <2> QED
    BY <2>1 DEF PutAlong
<1>3. u[0] = w[0] /\ \A i \in 1 .. m : u[i] = ChildAt(u[i - 1], q[i])
  BY <1>1, <1>2, ReachedIs
<1>4. r[0] = at[0] /\ \A i \in 1 .. m : r[i] = ChildAt(r[i - 1], q[i])
  BY <1>1, ReachedIs
<1>5. \A i \in 0 .. m : r[i] # FieldError
  <2>1. \A i \in 0 .. m : r[i] \in J
    BY WayIsThere
  <2> QED
    BY <2>1 DEF IsJson
<1>6. ASSUME NEW i \in 0 .. m, On(i) PROVE i < n
  <2>1. CASE i = n
    <3>1. LeadsTo(path, q)
      <4>1. n <= m
        <5> HIDE DEF n, m
        <5> QED
          BY <1>1, <2>1
      <4> QED
        BY <1>6, <2>1, <4>1 DEF LeadsTo
    <3> QED
      BY <3>1
  <2>2. i <= n
    BY <1>6
  <2> HIDE DEF n, m
  <2> QED
    BY <1>1, <2>1, <2>2
<1>7. 0 \in Good
  <2> HIDE DEF n, m, r, u
  <2>1. On(0)
    BY <1>1, <1>3, <1>4
  <2> QED
    BY <1>1, <2>1
<1>8. ASSUME NEW i \in 0 .. m - 1, i \in Good PROVE i + 1 \in Good
  <2>1. i \in 0 .. m /\ i + 1 \in 0 .. m /\ i + 1 \in 1 .. m /\ (i + 1) - 1 = i
    <3> HIDE DEF m
    <3> QED
      BY <1>1
  <2>2. u[i + 1] = ChildAt(u[i], q[i + 1]) /\ r[i + 1] = ChildAt(r[i], q[i + 1])
    <3> HIDE DEF m, u, r
    <3> QED
      BY <1>3, <1>4, <2>1
  <2>3. CASE u[i] = r[i]
    BY <2>1, <2>2, <2>3
  <2>4. CASE On(i)
    <3>1. i \in 0 .. n - 1 /\ i + 1 \in 1 .. n /\ i + 1 \in 0 .. n /\ i + 1 <= n
      <4>1. i < n
        BY <1>6, <2>1, <2>4
      <4> HIDE DEF n, m
      <4> QED
        BY <1>1, <4>1
    <3>2. /\ at[i + 1] = ChildAt(passed[i], path[i + 1])
          /\ ChildAt(at[i], q[i + 1]) # FieldError =>
               ChildAt(passed[i], q[i + 1]) = ChildAt(at[i], q[i + 1])
      BY <3>1 DEF WayAlong
    <3>3. passed[i] \in J /\ WithChild(passed[i], path[i + 1], w[i + 1]) # FieldError
      BY <3>1 DEF PutAlong
    <3>4. w[i] = WithChild(passed[i], path[i + 1], w[i + 1])
      BY <3>1 DEF PutAlong
    <3>5. w[i + 1] \in J /\ path[i + 1] \in STRING
      <4>1. w \in [0 .. n -> J]
        BY DEF PutAlong
      <4> QED
        BY <3>1, <4>1, ElementOfSeq
    <3>6. r[i + 1] # FieldError
      BY <1>5, <2>1
    <3>7. r[i] = at[i] /\ u[i] = w[i] /\ \A k \in 1 .. i : SameSegment(path[k], q[k])
      BY <2>4
    <3> HIDE DEF n, m, r, u
    <3>8. ChildAt(at[i], q[i + 1]) # FieldError
      BY <2>2, <3>6, <3>7
    <3>9. \/ ChildAt(w[i], q[i + 1]) = ChildAt(at[i], q[i + 1])
          \/ /\ ChildAt(w[i], q[i + 1]) = w[i + 1]
             /\ ChildAt(at[i], q[i + 1]) = ChildAt(passed[i], path[i + 1])
             /\ SameSegment(path[i + 1], q[i + 1])
      <4> DEFINE new == WithChild(passed[i], path[i + 1], w[i + 1])
      <4>1. ChildAt(passed[i], q[i + 1]) = ChildAt(at[i], q[i + 1])
        BY <3>2, <3>8
      <4>2. \/ ChildAt(new, q[i + 1]) = ChildAt(at[i], q[i + 1])
            \/ /\ ChildAt(new, q[i + 1]) = w[i + 1]
               /\ ChildAt(at[i], q[i + 1]) = ChildAt(passed[i], path[i + 1])
               /\ SameSegment(path[i + 1], q[i + 1])
        <5>1. CASE SameChild(passed[i], path[i + 1], q[i + 1])
          <6>1. ChildAt(new, q[i + 1]) = w[i + 1]
            BY <3>3, <3>5, <5>1, ReadsNew
          <6>2. ChildAt(passed[i], path[i + 1]) = ChildAt(passed[i], q[i + 1])
            BY <5>1, SameChildReads
          <6>3. SameSegment(path[i + 1], q[i + 1])
            BY <5>1 DEF SameChild, SameSegment
          <6> QED
            BY <4>1, <6>1, <6>2, <6>3
        <5>2. CASE ~SameChild(passed[i], path[i + 1], q[i + 1])
          <6>1. ChildAt(new, q[i + 1]) = ChildAt(passed[i], q[i + 1])
            BY <3>3, <3>5, <5>2, ReadsOld
          <6> QED
            BY <4>1, <6>1
        <5> QED
          BY <5>1, <5>2
      <4>3. w[i] = new
        BY <3>4
      <4> HIDE DEF new
      <4> QED
        BY <4>2, <4>3
    <3>10. CASE ChildAt(w[i], q[i + 1]) = ChildAt(at[i], q[i + 1])
      BY <2>1, <2>2, <3>7, <3>10
    <3>11. CASE /\ ChildAt(w[i], q[i + 1]) = w[i + 1]
                /\ ChildAt(at[i], q[i + 1]) = ChildAt(passed[i], path[i + 1])
                /\ SameSegment(path[i + 1], q[i + 1])
      <4>1. u[i + 1] = w[i + 1] /\ r[i + 1] = at[i + 1]
        BY <2>2, <3>2, <3>7, <3>11
      <4>2. \A k \in 1 .. i + 1 : k \in 1 .. i \/ k = i + 1
        BY <1>1
      <4>3. \A k \in 1 .. i + 1 : SameSegment(path[k], q[k])
        BY <3>7, <3>11, <4>2
      <4>4. On(i + 1)
        BY <3>1, <4>1, <4>3
      <4> QED
        BY <2>1, <4>4
    <3> QED
      BY <3>9, <3>10, <3>11
  <2> QED
    BY <1>8, <2>3, <2>4
<1>9. m \in Good
  <2> HIDE DEF Good
  <2>1. 0 .. m \subseteq Good
    <3> HIDE DEF m
    <3> QED
      BY <1>1, <1>7, <1>8, Induction
  <2>2. m \in 0 .. m
    <3> HIDE DEF m
    <3> QED
      BY <1>1
  <2> QED
    BY <2>1, <2>2
<1>10. ~On(m)
  <2>1. ASSUME On(m) PROVE LeadsTo(q, path)
    <3>1. m <= n /\ \A k \in 1 .. m : SameSegment(q[k], path[k])
      BY <2>1 DEF SameSegment
    <3> QED
      BY <3>1 DEF LeadsTo
  <2> QED
    BY <2>1
<1>11. u[m] = r[m]
  <2> HIDE DEF On
  <2> QED
    BY <1>9, <1>10
<1> QED
  BY <1>11 DEF ValueAtPath

\* What setting a path does to a value, where an error stands for a refusal.
KeepsOthers(v, path, after) ==
  \A q \in Seq(STRING) :
    ValueAtPath(v, q) # FieldError /\ ~LeadsTo(path, q) /\ ~LeadsTo(q, path)
      => ValueAtPath(after, q) = ValueAtPath(v, q)

\* The walk along a path passes values or errors, as putting back needs.
LEMMA WalkPasses ==
  ASSUME NEW J, IsJson(J), IndexesAre, NEW v \in J, NEW path \in Seq(STRING)
  PROVE  /\ Passes(J, path, Reached(v, path))
         /\ \A i \in 0 .. Len(path) - 1 :
              Reached(v, path)[i + 1] = ChildAt(Reached(v, path)[i], path[i + 1])
<1> DEFINE n == Len(path)
           r == Reached(v, path)
<1>1. n \in Nat
  BY LenProperties
<1>2. r \in [0 .. n -> J \cup {FieldError}] /\ \A i \in 1 .. n : r[i] = ChildAt(r[i - 1], path[i])
  BY <1>1, ReachedIs
<1>3. ASSUME NEW i \in 0 .. n - 1 PROVE i \in 0 .. n /\ i + 1 \in 1 .. n /\ (i + 1) - 1 = i
  <2> HIDE DEF n
  <2> QED
    BY <1>1
<1> HIDE DEF n, r
<1>4. \A i \in 0 .. n - 1 : r[i] \in J \cup {FieldError} /\ r[i + 1] = ChildAt(r[i], path[i + 1])
  BY <1>2, <1>3
<1> QED
  BY <1>4 DEF n, r, Passes

\* Setting a path that is there is not refused.
LEMMA SetIsTaken ==
  ASSUME NEW J, IsJson(J), IndexesAre, NEW v \in J, NEW path \in Seq(STRING), NEW new \in J,
         ValueAtPath(v, path) # FieldError
  PROVE  SetAtPath(v, path, new) # FieldError
<1> DEFINE n == Len(path)
           r == Reached(v, path)
<1>1. n \in Nat
  BY LenProperties
<1>2. \A i \in 0 .. n - 1 : r[i + 1] = ChildAt(r[i], path[i + 1])
  BY WalkPasses
<1>3. \A i \in 0 .. n : r[i] # FieldError
  <2>1. \A i \in 0 .. n : r[i] \in J
    BY WayIsThere
  <2> QED
    BY <2>1 DEF IsJson
<1>4. PICK w \in [0 .. n -> J \cup {FieldError}] :
        /\ w[n] = new /\ w[0] = PutBack(r, path, new)
        /\ \A i \in 0 .. n - 1 : w[i] = WithChild(r[i], path[i + 1], w[i + 1])
  BY WalkPasses, PutBackIs
<1> DEFINE There == {k \in 0 .. n : w[k] # FieldError}
<1> HIDE DEF n, r
<1>5. n \in There
  BY <1>1, <1>4 DEF IsJson
<1>6. ASSUME NEW k \in 1 .. n, k \in There PROVE k - 1 \in There
  <2>1. k - 1 \in 0 .. n - 1 /\ k - 1 \in 0 .. n /\ (k - 1) + 1 = k /\ k \in 0 .. n
    BY <1>1
  <2>2. w[k - 1] = WithChild(r[k - 1], path[k], w[k]) /\ r[k] = ChildAt(r[k - 1], path[k])
    BY <1>2, <1>4, <2>1
  <2>3. ChildAt(r[k - 1], path[k]) # FieldError /\ w[k] # FieldError
    BY <1>3, <1>6, <2>1, <2>2
  <2>4. WithChild(r[k - 1], path[k], w[k]) # FieldError
    BY <2>3, Placeable
  <2> QED
    BY <2>1, <2>2, <2>4
<1>7. 0 .. n \subseteq There
  <2> HIDE DEF There
  <2> QED
    BY <1>1, <1>5, <1>6, InductionDown
<1>8. w[0] # FieldError
  BY <1>1, <1>7
<1> QED
  BY <1>4, <1>8 DEF SetAtPath, r

\* What is set is read back, and the others stay.
LEMMA SetReadsBack ==
  ASSUME NEW J, IsJson(J), IndexesAre, NEW v \in J, NEW path \in Seq(STRING), NEW new \in J,
         SetAtPath(v, path, new) # FieldError
  PROVE  /\ ValueAtPath(SetAtPath(v, path, new), path) = new
         /\ KeepsOthers(v, path, SetAtPath(v, path, new))
<1> DEFINE r == Reached(v, path)
<1>1. SetAtPath(v, path, new) = PutBack(r, path, new)
  BY DEF SetAtPath
<1>2. PICK w : PutAlong(J, path, r, w) /\ w[Len(path)] = new /\ w[0] = PutBack(r, path, new)
  BY <1>1, WalkPasses, PutBackAll
<1>3. ValueAtPath(w[0], path) = new
  BY <1>2, ReadBack
<1>4. WayAlong(path, r, r)
  BY WalkPasses DEF WayAlong
<1>5. r[0] = v
  BY LenProperties, ReachedIs
<1>6. KeepsOthers(v, path, w[0])
  <2> HIDE DEF r
  <2> QED
    BY <1>2, <1>4, <1>5, OthersStay DEF KeepsOthers
<1> QED
  BY <1>1, <1>2, <1>3, <1>6

\* Making the missing parents makes a value, and the others stay.
LEMMA CreateKeeps ==
  ASSUME NEW J, IsJson(J), IndexesAre, NEW v \in J, NEW path \in Seq(STRING),
         CreateMissingParents(v, path) # FieldError
  PROVE  /\ CreateMissingParents(v, path) \in J
         /\ KeepsOthers(v, path, CreateMissingParents(v, path))
<1> DEFINE n == Len(path)
           way == MadeWay(v, path)
           passed == [i \in 0 .. n - 1 |-> WithRoom(way[i], path, i + 1)]
<1>1. n \in Nat
  BY LenProperties
<1>2. CreateMissingParents(v, path) = PutBack(passed, path, way[n])
  BY DEF CreateMissingParents
<1>3. /\ way \in [0 .. n -> J \cup {FieldError}] /\ way[0] = v
      /\ \A i \in 1 .. n : way[i] = ChildAt(WithRoom(way[i - 1], path, i), path[i])
  BY MadeWayIs
<1>4. /\ n \in 0 .. n
      /\ \A i \in 0 .. n - 1 : i \in 0 .. n /\ i + 1 \in 1 .. n /\ (i + 1) - 1 = i
  <2> HIDE DEF n
  <2> QED
    BY <1>1
<1>5. \A i \in 0 .. n - 1 : way[i] \in J \cup {FieldError}
  <2> HIDE DEF n, way
  <2> QED
    BY <1>3, <1>4
<1>6. ASSUME NEW i \in 0 .. n - 1 PROVE passed[i] \in J \cup {FieldError}
  <2>1. WithRoom(way[i], path, i + 1) \in J \cup {FieldError}
    <3> HIDE DEF way
    <3> QED
      BY <1>4, <1>5, RoomReads
  <2> QED
    BY <2>1
<1>7. way[n] \in J \cup {FieldError}
  <2> HIDE DEF n, way
  <2> QED
    BY <1>3, <1>4
<1>8. PICK w : PutAlong(J, path, passed, w) /\ w[n] = way[n] /\ w[0] = PutBack(passed, path, way[n])
  <2>1. PutBack(passed, path, way[n]) # FieldError
    BY <1>2
  <2>2. Passes(J, path, passed)
    BY <1>6 DEF Passes
  <2> HIDE DEF passed, way
  <2> QED
    BY <1>7, <2>1, <2>2, PutBackAll
<1>9. WayAlong(path, way, passed)
  <2> SUFFICES ASSUME NEW i \in 0 .. n - 1
               PROVE  /\ way[i + 1] = ChildAt(passed[i], path[i + 1])
                      /\ \A seg : ChildAt(way[i], seg) # FieldError
                                    => ChildAt(passed[i], seg) = ChildAt(way[i], seg)
    BY DEF WayAlong
  <2>1. passed[i] \in J
    BY <1>8 DEF PutAlong
  <2>2. passed[i] = WithRoom(way[i], path, i + 1)
    OBVIOUS
  <2>3. way[i + 1] = ChildAt(WithRoom(way[(i + 1) - 1], path, i + 1), path[i + 1])
    <3> HIDE DEF n, way, passed
    <3> QED
      BY <1>3, <1>4
  <2> HIDE DEF way, passed
  <2>4. way[i + 1] = ChildAt(passed[i], path[i + 1])
    BY <1>4, <2>2, <2>3
  <2>5. WithRoom(way[i], path, i + 1) # FieldError
    BY <2>1, <2>2 DEF IsJson
  <2>6. ASSUME NEW seg, ChildAt(way[i], seg) # FieldError
        PROVE  ChildAt(WithRoom(way[i], path, i + 1), seg) = ChildAt(way[i], seg)
    <3>1. i + 1 \in 1 .. Len(path) /\ way[i] \in J \cup {FieldError}
      BY <1>4, <1>5
    <3> QED
      BY <2>5, <2>6, <3>1, RoomKeeps
  <2> QED
    BY <2>2, <2>4, <2>6
<1>10. w[0] \in J
  <2>1. w \in [0 .. n -> J]
    BY <1>8 DEF PutAlong
  <2>2. 0 \in 0 .. n
    <3> HIDE DEF n
    <3> QED
      BY <1>1
  <2> QED
    BY <2>1, <2>2
<1>11. KeepsOthers(v, path, w[0])
  <2> HIDE DEF way, passed
  <2> QED
    BY <1>3, <1>8, <1>9, OthersStay DEF KeepsOthers
<1> QED
  BY <1>2, <1>8, <1>10, <1>11

\* A key set twice has the second value.
LEMMA KeyTwice ==
  ASSUME NEW f, NEW key, NEW a, NEW b
  PROVE  WithKey(WithKey(f, key, a), key, b) = WithKey(f, key, b)
BY DEF WithKey

\* What is put back at the end of a path of one segment.
LEMMA PutBackOne ==
  ASSUME NEW J, IsJson(J), IndexesAre, NEW path \in Seq(STRING), NEW new \in J \cup {FieldError},
         NEW passed, Passes(J, path, passed)
  PROVE  Len(path) = 1 => PutBack(passed, path, new) = WithChild(passed[0], path[1], new)
<1>1. PICK w \in [0 .. Len(path) -> J \cup {FieldError}] :
        /\ w[Len(path)] = new /\ w[0] = PutBack(passed, path, new)
        /\ \A i \in 0 .. Len(path) - 1 : w[i] = WithChild(passed[i], path[i + 1], w[i + 1])
  BY PutBackIs
<1>2. SUFFICES ASSUME Len(path) = 1
               PROVE  PutBack(passed, path, new) = WithChild(passed[0], path[1], new)
  OBVIOUS
<1>3. 0 \in 0 .. Len(path) - 1 /\ 0 + 1 = 1
  BY <1>2
<1>4. w[0] = WithChild(passed[0], path[0 + 1], w[0 + 1])
  BY <1>1, <1>3
<1> QED
  BY <1>1, <1>2, <1>3, <1>4

\* With one segment, one value is passed.
LEMMA PassesOne ==
  ASSUME NEW J, NEW path, Len(path) = 1, NEW passed, passed[0] \in J \cup {FieldError}
  PROVE  Passes(J, path, passed)
<1>1. \A i \in 0 .. Len(path) - 1 : i = 0
  OBVIOUS
<1> QED
  BY <1>1 DEF Passes

\* Setting a path of one segment in an object sets that key.
LEMMA SetOne ==
  ASSUME NEW J, IsJson(J), IndexesAre, NEW v \in J, Kind(v) = "obj",
         NEW path \in Seq(STRING), Len(path) = 1, NEW new \in J
  PROVE  SetAtPath(v, path, new) = <<"obj", WithKey(v[2], path[1], new)>>
<1>1. Reached(v, path)[0] = v
  BY LenProperties, ReachedIs
<1>2. SetAtPath(v, path, new) = WithChild(v, path[1], new)
  <2>1. Passes(J, path, Reached(v, path))
    BY WalkPasses
  <2>2. PutBack(Reached(v, path), path, new) = WithChild(Reached(v, path)[0], path[1], new)
    BY <2>1, PutBackOne
  <2> QED
    BY <1>1, <2>2 DEF SetAtPath
<1>3. new # FieldError
  BY DEF IsJson
<1> QED
  BY <1>2, <1>3, Placeable

\* Making the way to a key that an object lacks gives it an empty object there.
LEMMA CreateOne ==
  ASSUME NEW J, IsJson(J), IndexesAre, NEW v \in J, Kind(v) = "obj",
         NEW path \in Seq(STRING), Len(path) = 1, path[1] \notin DOMAIN v[2]
  PROVE  \E empty : CreateMissingParents(v, path) = <<"obj", WithKey(v[2], path[1], empty)>>
<1> DEFINE seg == path[1]
           empty == <<"obj", <<>>>>
           way == MadeWay(v, path)
           room == WithRoom(v, path, 1)
           passed == [i \in 0 .. Len(path) - 1 |-> WithRoom(way[i], path, i + 1)]
<1>1. seg \in STRING /\ 1 \in 1 .. Len(path)
  BY ElementOfSeq
<1>2. empty \in J
  <2>1. <<>> \in [{} -> J] /\ {} \in SUBSET STRING
    OBVIOUS
  <2> QED
    BY <2>1 DEF IsJson
<1>3. empty # FieldError
  BY <1>2 DEF IsJson
<1>4. room = WithChild(v, seg, empty)
  BY DEF WithRoom
<1>5. room = <<"obj", WithKey(v[2], seg, empty)>>
  <2> HIDE DEF empty, room
  <2> QED
    BY <1>3, <1>4, Placeable
<1>6. Kind(room) = "obj" /\ room[2] = WithKey(v[2], seg, empty)
  BY <1>5 DEF Kind
<1>7. ChildAt(room, seg) = empty
  <2> HIDE DEF empty, room
  <2>1. seg \in DOMAIN room[2] /\ room[2][seg] = empty
    BY <1>6 DEF WithKey
  <2> QED
    BY <1>6, <2>1 DEF ChildAt
<1>8. way[0] = v /\ way[1] = ChildAt(WithRoom(way[1 - 1], path, 1), path[1])
  BY <1>1, MadeWayIs
<1>9. way[1] = empty
  <2>1. 1 - 1 = 0
    OBVIOUS
  <2> HIDE DEF way, empty
  <2> QED
    BY <1>7, <1>8, <2>1
<1>10. passed[0] = room
  <2>1. 0 \in 0 .. Len(path) - 1 /\ 0 + 1 = 1
    OBVIOUS
  <2> HIDE DEF way
  <2> QED
    BY <1>8, <2>1
<1>11. room \in J \cup {FieldError}
  BY <1>1, RoomReads
<1>12. CreateMissingParents(v, path) = PutBack(passed, path, way[1])
  BY DEF CreateMissingParents
<1>13. CreateMissingParents(v, path) = WithChild(room, seg, empty)
  <2> HIDE DEF passed, way, room, empty
  <2>1. Passes(J, path, passed)
    BY <1>10, <1>11, PassesOne
  <2>2. PutBack(passed, path, empty) = WithChild(passed[0], seg, empty)
    BY <1>2, <2>1, PutBackOne
  <2> QED
    BY <1>9, <1>10, <1>12, <2>2
<1>14. WithChild(room, seg, empty) = <<"obj", WithKey(room[2], seg, empty)>>
  <2> HIDE DEF room, empty
  <2> QED
    BY <1>3, <1>6, Placeable
<1>15. WithKey(room[2], seg, empty) = WithKey(v[2], seg, empty)
  BY <1>6, KeyTwice
<1> QED
  BY <1>13, <1>14, <1>15

\* What a path of one segment leads to.
LEMMA ValueOne ==
  ASSUME NEW J, IsJson(J), IndexesAre, NEW v \in J, NEW path \in Seq(STRING)
  PROVE  Len(path) = 1 => ValueAtPath(v, path) = ChildAt(v, path[1])
<1>1. Len(path) \in Nat
  BY LenProperties
<1>2. /\ Reached(v, path)[0] = v
      /\ \A i \in 1 .. Len(path) : Reached(v, path)[i] = ChildAt(Reached(v, path)[i - 1], path[i])
  BY <1>1, ReachedIs
<1>3. SUFFICES ASSUME Len(path) = 1 PROVE ValueAtPath(v, path) = ChildAt(v, path[1])
  OBVIOUS
<1>4. 1 \in 1 .. Len(path) /\ 1 - 1 = 0
  BY <1>3
<1>5. Reached(v, path)[1] = ChildAt(Reached(v, path)[1 - 1], path[1])
  BY <1>2, <1>4
<1> QED
  BY <1>2, <1>3, <1>4, <1>5 DEF ValueAtPath

\* An object that a path of one segment leads nowhere in lacks that key.
LEMMA KeyIsMissing ==
  ASSUME NEW J, IsJson(J), IndexesAre, NEW v \in J, Kind(v) = "obj", NEW path \in Seq(STRING),
         Len(path) = 1, ValueAtPath(v, path) = FieldError
  PROVE  path[1] \notin DOMAIN v[2]
<1>1. ChildAt(v, path[1]) = FieldError
  BY ValueOne
<1>2. PICK K \in SUBSET STRING : v[2] \in [K -> J]
  BY DEF IsJson
<1>3. \A k \in DOMAIN v[2] : v[2][k] \in J
  BY <1>2
<1> QED
  BY <1>1, <1>3 DEF ChildAt, IsJson

\* For every JSON document and every path, what set-field-at-path sets is read
\* back there, whatever was at a path that does not lead through it, or to it,
\* still is, and it is refused exactly when it should be; a path of one segment
\* does in an object what set-field does.
THEOREM FieldLawHolds ==
  ASSUME NEW J, IsJson(J), NEW contents \in J, NEW new \in J, NEW path \in Seq(STRING),
         NEW create \in BOOLEAN, NEW others, others \subseteq Seq(STRING)
  PROVE  FieldLaw(contents, path, new, create, others)
<1>0. IndexesAre
  BY IndexesAssumption
<1> USE <1>0
<1> DEFINE after == SetFieldAtPath(contents, path, new, create)
           made == CreateMissingParents(contents, path)
           there == ValueAtPath(contents, path) # FieldError
           Claim == /\ after # FieldError =>
                         ValueAtPath(after, path) = new /\ KeepsOthers(contents, path, after)
                    /\ there => after # FieldError
                    /\ ~there /\ ~create => after = FieldError
                    /\ Len(path) = 1 /\ Kind(contents) = "obj" /\ create =>
                         after = <<"obj", WithKey(contents[2], path[1], new)>>
<1>1. ASSUME there PROVE Claim
  <2>1. after = SetAtPath(contents, path, new)
    BY <1>1 DEF SetFieldAtPath
  <2>2. after # FieldError
    BY <1>1, <2>1, SetIsTaken
  <2>3. ValueAtPath(after, path) = new /\ KeepsOthers(contents, path, after)
    <3> HIDE DEF after
    <3> QED
      BY <2>1, <2>2, SetReadsBack
  <2>4. ASSUME Len(path) = 1, Kind(contents) = "obj"
        PROVE  after = <<"obj", WithKey(contents[2], path[1], new)>>
    BY <2>1, <2>4, SetOne
  <2> HIDE DEF after
  <2> QED
    BY <1>1, <2>2, <2>3, <2>4
<1>2. ASSUME ~there, ~create PROVE Claim
  <2>1. after = FieldError
    BY <1>2 DEF SetFieldAtPath
  <2> HIDE DEF after
  <2> QED
    BY <1>2, <2>1
<1>3. ASSUME ~there, create, made = FieldError PROVE Claim
  <2>1. after = FieldError
    BY <1>3 DEF SetFieldAtPath
  <2>2. ~(Len(path) = 1 /\ Kind(contents) = "obj")
    <3> SUFFICES ASSUME Len(path) = 1, Kind(contents) = "obj" PROVE FALSE
      OBVIOUS
    <3>1. path[1] \notin DOMAIN contents[2]
      BY <1>3, KeyIsMissing
    <3>2. PICK empty : made = <<"obj", WithKey(contents[2], path[1], empty)>>
      BY <3>1, CreateOne
    <3> QED
      BY <1>3, <3>2 DEF FieldError
  <2> HIDE DEF after
  <2> QED
    BY <1>3, <2>1, <2>2
<1>4. ASSUME ~there, create, made # FieldError PROVE Claim
  <2>1. after = SetAtPath(made, path, new)
    BY <1>4 DEF SetFieldAtPath
  <2>2. made \in J /\ KeepsOthers(contents, path, made)
    BY <1>4, CreateKeeps
  <2>3. ASSUME after # FieldError
        PROVE  ValueAtPath(after, path) = new /\ KeepsOthers(made, path, after)
    <3> HIDE DEF after, made
    <3> QED
      BY <2>1, <2>2, <2>3, SetReadsBack
  <2>4. ASSUME after # FieldError PROVE KeepsOthers(contents, path, after)
    <3> HIDE DEF after, made
    <3> QED
      BY <2>2, <2>3, <2>4 DEF KeepsOthers
  <2>5. ASSUME Len(path) = 1, Kind(contents) = "obj"
        PROVE  after = <<"obj", WithKey(contents[2], path[1], new)>>
    <3>1. path[1] \notin DOMAIN contents[2]
      BY <1>4, <2>5, KeyIsMissing
    <3>2. PICK empty : made = <<"obj", WithKey(contents[2], path[1], empty)>>
      BY <2>5, <3>1, CreateOne
    <3>3. Kind(made) = "obj" /\ made[2] = WithKey(contents[2], path[1], empty)
      BY <3>2 DEF Kind
    <3>4. after = <<"obj", WithKey(made[2], path[1], new)>>
      <4> HIDE DEF after, made
      <4> QED
        BY <2>1, <2>2, <2>5, <3>3, SetOne
    <3> HIDE DEF after, made
    <3> QED
      BY <3>3, <3>4, KeyTwice
  <2> HIDE DEF after, made
  <2> QED
    BY <1>4, <2>3, <2>4, <2>5
<1>5. Claim
  <2> HIDE DEF Claim, there, made
  <2> QED
    BY <1>1, <1>2, <1>3, <1>4
<1>6. after # FieldError => GetFieldAtPath(after, path) = new
  <2> HIDE DEF after
  <2> QED
    BY <1>5 DEF GetFieldAtPath, IsJson
<1>7. ASSUME Len(path) = 1, Kind(contents) = "obj", create
      PROVE  after = SetField(contents, path[1], new) /\ GetField(after, path[1]) = new
  <2> DEFINE f == WithKey(contents[2], path[1], new)
  <2>1. after = <<"obj", f>>
    BY <1>5, <1>7
  <2>2. path[1] \in DOMAIN f /\ f[path[1]] = new
    BY DEF WithKey
  <2>3. SetField(contents, path[1], new) = <<"obj", f>>
    BY <1>7 DEF SetField
  <2> HIDE DEF f, after
  <2>4. Kind(after) = "obj" /\ after[2] = f
    BY <2>1 DEF Kind
  <2> QED
    BY <2>1, <2>2, <2>3, <2>4 DEF GetField
<1>8. ASSUME after # FieldError, NEW q \in others, ValueAtPath(contents, q) # FieldError,
             ~LeadsTo(path, q), ~LeadsTo(q, path)
      PROVE  ValueAtPath(after, q) = ValueAtPath(contents, q)
  <2> HIDE DEF after
  <2> QED
    BY <1>5, <1>8 DEF KeepsOthers
<1> HIDE DEF after
<1> QED
  BY <1>5, <1>6, <1>7, <1>8 DEF FieldLaw, after, there
=============================================================================
