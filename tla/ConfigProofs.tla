----------------------------- MODULE ConfigProofs -----------------------------
(* Theorems about the configuration: for every set of processes, threads and *)
(* calls, every starting text and every value of the bounds; and about the   *)
(* rules it holds for tools, for every pattern, text and action.             *)
EXTENDS Config, Policy, NaturalOrder, FiniteSetTheorems, SequenceTheorems, TLAPS

------------------------------------------------------------------------------
(* What is assumed of the constants                                          *)

IsObject(v) == v = [k \in DOMAIN v |-> v[k]]

\* The token of an object, and whether it is one; two objects with one token.
TokenOf(obj) == Field(obj, Token, Refused)

Clean(obj) == Has(obj, Token) => obj[Token] # Refused

SameToken(a, b) ==
    /\ Has(a, Token) <=> Has(b, Token)
    /\ Has(a, Token) => a[Token] = b[Token]

\* The marks for a file that is not there, for texts that are no objects and
\* for an error are no JSON objects; the file starts out with an object.
MarksAreNoObjects ==
    /\ \A mark \in {NoFile, Blank, Torn, Refused} : ~IsObject(mark)
    /\ \A text \in CfgInitial : text \in {NoFile, Blank} \/ IsObject(text)

\* The calls are the mutators of the service.
CallsAreKnown ==
    \A call \in CfgCalls :
        call.op \in {"set", "patch", "update", "set_env", "register_command",
                     "deregister_command", "add_url", "remove_url", "set_urls", "register",
                     "unregister", "token"}

\* Nobody writes the server token but ensure_server_token, which makes a string,
\* and the file does not start out with the error result for a token.
OnlyEnsureWritesToken ==
    /\ \A call \in CfgCalls :
          /\ call.op = "set" => call.key # Token
          /\ call.op \in {"patch", "update"} => Token \notin DOMAIN call.changes
          /\ call.op = "token" => call.value \notin {BadType, Refused}
    /\ \A text \in CfgInitial : text \in {NoFile, Blank} \/ Clean(text)

\* A stamp is trusted only when it is older than a file time is coarse and a
\* thread can be held up: what RACY_WINDOW is for.
WindowCovers == Granularity + MaxPause <= RacyWindow

------------------------------------------------------------------------------
(* The mutators                                                              *)

\* The value at one key, and the token if it is another one.
LEMMA InsertedIs ==
  ASSUME NEW obj, NEW k, NEW v
  PROVE  /\ IsObject(Insert(obj, k, v)) /\ DOMAIN Insert(obj, k, v) = DOMAIN obj \cup {k}
         /\ Insert(obj, k, v)[k] = v
         /\ \A j \in DOMAIN obj : j # k => Insert(obj, k, v)[j] = obj[j]
BY DEF Insert, Over, IsObject

\* What is left without one key.
LEMMA WithoutIs ==
  ASSUME NEW obj, NEW k
  PROVE  /\ IsObject(Without(obj, k)) /\ DOMAIN Without(obj, k) = DOMAIN obj \ {k}
         /\ \A j \in DOMAIN obj : j # k => Without(obj, k)[j] = obj[j]
BY DEF Without, IsObject

\* Another key leaves the token as it is.
LEMMA OtherKey ==
  ASSUME NEW obj, NEW k, NEW v, k # Token
  PROVE  SameToken(Insert(obj, k, v), obj) /\ SameToken(Without(obj, k), obj)
<1> DEFINE more == Insert(obj, k, v)
           less == Without(obj, k)
<1>1. DOMAIN more = DOMAIN obj \cup {k} /\ \A j \in DOMAIN obj : j # k => more[j] = obj[j]
  BY DEF Insert, Over
<1>2. DOMAIN less = DOMAIN obj \ {k} /\ \A j \in DOMAIN obj : j # k => less[j] = obj[j]
  BY DEF Without
<1> HIDE DEF more, less
<1>3. SameToken(more, obj) /\ SameToken(less, obj)
  BY <1>1, <1>2 DEF SameToken, Has
<1> QED
  BY <1>3 DEF more, less

\* Two objects with one token have one.
LEMMA OneToken ==
  ASSUME NEW a, NEW b, NEW c, SameToken(a, b)
  PROVE  /\ TokenOf(a) = TokenOf(b) /\ (Clean(b) => Clean(a))
         /\ SameToken(b, c) => SameToken(a, c)
BY DEF SameToken, TokenOf, Clean, Field, Has

\* The text of no file, and of an empty one.
LEMMA EmptyIs ==
  /\ IsObject(EmptyObject) /\ DOMAIN EmptyObject = {}
  /\ TokenOf(EmptyObject) = Refused /\ Clean(EmptyObject)
BY DEF IsObject, EmptyObject, TokenOf, Clean, Field, Has

\* update, which checks what it is about to write, keeps the token.
LEMMA UpdateKeepsToken ==
  ASSUME NEW obj, NEW changes, IsObject(obj), UpdateObject(obj, changes) # Refused
  PROVE  /\ IsObject(UpdateObject(obj, changes))
         /\ Token \notin DOMAIN changes => SameToken(UpdateObject(obj, changes), obj)
<1> DEFINE written == WithChanges(obj, changes)
           once == Folded(obj, changes, written, Urls)
           twice == Folded(obj, changes, once, Exclude)
<1>1. UpdateObject(obj, changes) = twice
  BY DEF UpdateObject
<1>2. IsObject(written)
  BY DEF WithChanges, IsObject
<1>3. Token \notin DOMAIN changes => SameToken(written, obj)
  BY DEF WithChanges, SameToken, Has
<1>4. Token \notin {Urls, LegacyUrls, Exclude, LegacyExclude}
  BY DEF Token, Urls, LegacyUrls, Exclude, LegacyExclude
<1>5. \A k \in {Urls, Exclude} : LegacyOf[k] \in {LegacyUrls, LegacyExclude}
  BY DEF LegacyOf
<1>6. ASSUME NEW before, NEW k \in {Urls, Exclude}, NEW o, IsObject(o)
      PROVE  IsObject(Folded(before, changes, o, k)) /\ SameToken(Folded(before, changes, o, k), o)
  <2> DEFINE former == LegacyOf[k]
             merge == /\ ~Has(changes, former)
                      /\ Has(before, former) /\ before[former] # BadType
                      /\ o[k] # BadType
             kept == IF merge THEN Insert(o, k, o[k] \cup before[former]) ELSE o
  <2>1. k # Token /\ former # Token
    BY <1>4, <1>5
  <2>0. SameToken(o, o)
    BY DEF SameToken
  <2>2. SameToken(kept, o)
    BY <2>0, <2>1, OtherKey
  <2>3. IsObject(Without(kept, former)) /\ SameToken(Without(kept, former), kept)
    BY <2>1, WithoutIs, OtherKey
  <2>5. SameToken(Without(kept, former), o)
    BY <2>2, <2>3, OneToken
  <2>4. Folded(before, changes, o, k) =
          IF ~Has(changes, k) \/ changes[k] = Null THEN o ELSE Without(kept, former)
    BY DEF Folded
  <2> HIDE DEF former, kept
  <2> QED
    BY <1>6, <2>0, <2>3, <2>4, <2>5
<1> HIDE DEF written
<1>7. IsObject(once) /\ SameToken(once, written)
  BY <1>2, <1>6
<1> HIDE DEF once
<1>8. IsObject(twice) /\ SameToken(twice, once)
  BY <1>6, <1>7
<1> QED
  BY <1>1, <1>3, <1>7, <1>8, OneToken

\* A mutator makes an object of an object, or refuses.
LEMMA ApplyIsObject ==
  ASSUME CallsAreKnown, NEW obj, IsObject(obj), NEW call \in CfgCalls, Apply(obj, call) # Refused
  PROVE  IsObject(Apply(obj, call))
<1>1. CASE call.op = "update"
  BY <1>1, UpdateKeepsToken DEF Apply
<1>2. CASE call.op = "patch"
  BY <1>2 DEF Apply, PatchObject, Over, IsObject
<1>3. CASE call.op = "token"
  BY <1>3, InsertedIs DEF Apply, EnsureToken
<1>4. CASE call.op \in {"add_url", "remove_url", "set_urls"}
  BY <1>4, WithoutIs DEF Apply, AddAllowedBaseUrl, RemoveAllowedBaseUrl, WriteBaseUrls
<1>5. CASE call.op \in {"set", "set_env", "register_command", "deregister_command", "register", "unregister"}
  BY <1>5, InsertedIs
     DEF Apply, SetEnvVar, RegisterCommand, DeregisterCommand, RegisterPackage, UnregisterPackage
<1> QED
  BY <1>1, <1>2, <1>3, <1>4, <1>5 DEF CallsAreKnown

\* A token that is there stays, whatever the mutator.
LEMMA ApplyKeepsToken ==
  ASSUME CallsAreKnown, OnlyEnsureWritesToken, NEW obj, IsObject(obj), NEW call \in CfgCalls,
         Apply(obj, call) # Refused
  PROVE  /\ TokenOf(obj) # Refused => TokenOf(Apply(obj, call)) = TokenOf(obj)
         /\ call.op = "token" => TokenOf(Apply(obj, call)) # Refused
         /\ Clean(obj) => Clean(Apply(obj, call))
<1>1. CASE call.op = "update"
  BY <1>1, UpdateKeepsToken, OneToken DEF Apply, OnlyEnsureWritesToken
<1>2. CASE call.op = "patch"
  <2>1. SameToken(Apply(obj, call), obj)
    BY <1>2 DEF Apply, PatchObject, Over, OnlyEnsureWritesToken, SameToken, Has
  <2> QED
    BY <1>2, <2>1, OneToken
<1>3. CASE call.op = "token"
  <2> DEFINE more == Insert(obj, Token, call.value)
  <2>1. call.value \notin {BadType, Refused}
    BY <1>3 DEF OnlyEnsureWritesToken
  <2>2. Token \in DOMAIN more /\ more[Token] = call.value
    BY DEF Insert, Over
  <2>3. Apply(obj, call) = IF TokenOf(obj) # Refused THEN obj ELSE more
    BY <1>3 DEF Apply, EnsureToken, TokenOf
  <2> HIDE DEF more
  <2>4. TokenOf(more) = call.value /\ Clean(more)
    BY <2>1, <2>2 DEF TokenOf, Field, Has, Clean
  <2> QED
    BY <1>3, <2>1, <2>3, <2>4
<1>4. CASE call.op \in {"add_url", "remove_url", "set_urls"}
  <2>1. Urls # Token /\ LegacyUrls # Token
    BY DEF Urls, LegacyUrls, Token
  <2>2. \A list : SameToken(WriteBaseUrls(obj, list), obj)
    <3> SUFFICES ASSUME NEW list PROVE SameToken(WriteBaseUrls(obj, list), obj)
      OBVIOUS
    <3>1. SameToken(Insert(obj, Urls, list), obj)
      BY <2>1, OtherKey
    <3>2. SameToken(Without(Insert(obj, Urls, list), LegacyUrls), Insert(obj, Urls, list))
      BY <2>1, OtherKey
    <3> QED
      BY <3>1, <3>2, OneToken DEF WriteBaseUrls
  <2>3. SameToken(Apply(obj, call), obj)
    BY <1>4, <2>2 DEF Apply, AddAllowedBaseUrl, RemoveAllowedBaseUrl
  <2> QED
    BY <1>4, <2>3, OneToken
<1>5. CASE call.op \in {"set", "set_env", "register_command", "deregister_command", "register", "unregister"}
  <2>1. Packages # Token /\ Commands # Token /\ EnvVars # Token
    BY DEF Packages, Commands, EnvVars, Token
  <2>2. SameToken(Apply(obj, call), obj)
    BY <1>5, <2>1, OtherKey
       DEF Apply, SetEnvVar, RegisterCommand, DeregisterCommand, RegisterPackage, UnregisterPackage,
           OnlyEnsureWritesToken
  <2> QED
    BY <1>5, <2>2, OneToken
<1> QED
  BY <1>1, <1>2, <1>3, <1>4, <1>5 DEF CallsAreKnown

\* What is handed out of a snapshot is the token of the object, if any.
LEMMA SnapshotToken ==
  ASSUME NEW obj, Has(Snapshot(obj), Token)
  PROVE  Snapshot(obj)[Token] = TokenOf(obj) /\ (Clean(obj) => TokenOf(obj) # Refused)
<1>1. Token \in TypedKeys
  BY DEF TypedKeys
<1>2. Snapshot(obj) = obj /\ obj[Token] # BadType
  BY <1>1, EmptyIs DEF Snapshot, Has
<1> QED
  BY <1>2 DEF TokenOf, Clean, Field, Has

------------------------------------------------------------------------------
(* What a thread has in hand                                                 *)

CfgShape ==
    /\ DOMAIN cfgSeen = CfgThreads /\ DOMAIN cfgCall = CfgThreads /\ DOMAIN cfgCache = CfgProcs
    /\ \A t \in CfgThreads : /\ DOMAIN cfgSeen[t] = {"value", "before", "stamp", "since"}
                             /\ cfgSeen[t].since \in Nat

\* A thread that writes has a call, and what it will write is that call applied
\* to the object that was in the file before it touched it.
CfgWrites ==
    /\ cfgFile.content \in {NoFile, Blank, Torn} \/ IsObject(cfgFile.content)
    /\ \A t \in CfgThreads :
          /\ cfgCall[t] # Snap => cfgCall[t] \in CfgCalls
          /\ cfgPc[t] \in {"mutate", "lock", "truncate", "fill", "written"} => cfgCall[t] \in CfgCalls
          /\ cfgPc[t] \in {"truncate", "fill"} =>
                /\ IsObject(cfgSeen[t].before) /\ cfgSeen[t].value # Refused
                /\ cfgSeen[t].value = Apply(cfgSeen[t].before, cfgCall[t])
          /\ cfgPc[t] = "truncate" =>
                cfgFile.content # Torn /\ cfgSeen[t].before = Parsed(cfgFile.content)
          /\ cfgPc[t] = "fill" => cfgFile.content \in {Blank, Torn}
CfgBasics == CfgTypeOK /\ CfgShape /\ CfgWrites

\* File times are multiples of Granularity, at most one of them late.
LEMMA FileTimeIs ==
  ASSUME cfgClock \in Nat
  PROVE  FileTime \in Nat /\ FileTime <= cfgClock /\ cfgClock < FileTime + Granularity
<1>1. ASSUME NEW c \in Nat, NEW G \in Nat \ {0}
      PROVE  (c \div G) * G \in Nat /\ (c \div G) * G <= c /\ c < (c \div G) * G + G
  OBVIOUS
<1> QED
  BY <1>1, ConfigAssumption DEF FileTime

\* A text that parses is an object.
LEMMA ParsedIs ==
  ASSUME CfgBasics, cfgFile.content # Torn
  PROVE  IsObject(Parsed(cfgFile.content))
BY EmptyIs DEF CfgBasics, CfgWrites, Parsed

\* A step of one thread: where it goes, and what becomes of its locks.
StepOf(t, from, to) ==
    /\ t \in CfgThreads /\ cfgPc[t] = from /\ cfgPc' = [cfgPc EXCEPT ![t] = to]
    /\ \/ from \in {"truncate", "fill"} /\ to \in {"truncate", "fill"} /\ UNCHANGED cfgLock
       \/ from \notin {"truncate", "fill"} /\ to \notin {"truncate", "fill"} /\ UNCHANGED cfgLock
       \/ from \notin {"truncate", "fill"} /\ to = "truncate" /\ cfgLock = Nobody /\ cfgLock' = t
       \/ from \in {"truncate", "fill"} /\ to \notin {"truncate", "fill"} /\ cfgLock' = Nobody
    /\ \/ /\ from \in {"idle", "check", "mutate"} <=> to \in {"idle", "check", "mutate"}
          /\ UNCHANGED cfgGuard
       \/ from \in {"idle", "check", "mutate"} /\ to \notin {"idle", "check", "mutate"} /\ CfgTakeGuard(t)
       \/ from \notin {"idle", "check", "mutate"} /\ to \in {"idle", "check", "mutate"} /\ CfgDropGuard(t)

\* Such steps keep the locks and the guards to their holders.
LEMMA StepKeepsTypes ==
  ASSUME CfgTypeOK, NEW t \in CfgThreads, NEW from \in CfgSteps, NEW to \in CfgSteps,
         StepOf(t, from, to),
         cfgFile'.mtime \in Nat, cfgFaults' \in Nat, cfgLost' \in BOOLEAN,
         cfgUp' \subseteq CfgProcs, UNCHANGED cfgClock
  PROVE  CfgTypeOK'
<1>1. /\ cfgPc \in [CfgThreads -> CfgSteps] /\ cfgPc' \in [CfgThreads -> CfgSteps]
      /\ \A s \in CfgThreads : cfgPc'[s] = IF s = t THEN to ELSE cfgPc[s]
      /\ cfgPc[t] = from
  BY DEF CfgTypeOK, StepOf
<1>2. CfgProcOf \in [CfgThreads -> CfgProcs] /\ Nobody \notin CfgThreads
  BY ConfigAssumption
<1>3. \A s \in CfgThreads : cfgPc'[s] \in {"truncate", "fill"} <=> cfgLock' = s
  BY <1>1, <1>2 DEF CfgTypeOK, StepOf
<1>4. cfgGuard' \in [CfgProcs -> CfgThreads \cup {Nobody}]
  BY <1>2 DEF CfgTypeOK, StepOf, CfgTakeGuard, CfgDropGuard
<1>5. ASSUME NEW s \in CfgThreads
      PROVE  cfgPc'[s] \notin {"idle", "check", "mutate"} <=> cfgGuard'[CfgProcOf[s]] = s
  <2>1. CfgProcOf[s] \in CfgProcs /\ CfgProcOf[t] \in CfgProcs
    BY <1>2
  <2>2. /\ cfgPc[s] \notin {"idle", "check", "mutate"} <=> cfgGuard[CfgProcOf[s]] = s
        /\ cfgPc[t] \notin {"idle", "check", "mutate"} <=> cfgGuard[CfgProcOf[t]] = t
        /\ cfgGuard \in [CfgProcs -> CfgThreads \cup {Nobody}]
    BY DEF CfgTypeOK
  <2>3. CASE UNCHANGED cfgGuard /\ (from \in {"idle", "check", "mutate"} <=> to \in {"idle", "check", "mutate"})
    BY <1>1, <2>1, <2>2, <2>3
  <2>4. CASE /\ from \in {"idle", "check", "mutate"} /\ to \notin {"idle", "check", "mutate"}
             /\ CfgTakeGuard(t)
    BY <1>1, <1>2, <2>1, <2>2, <2>4 DEF CfgTakeGuard
  <2>5. CASE /\ from \notin {"idle", "check", "mutate"} /\ to \in {"idle", "check", "mutate"}
             /\ CfgDropGuard(t)
    BY SMTT(30), <1>1, <1>2, <2>1, <2>2, <2>5 DEF CfgDropGuard
  <2> QED
    BY <2>3, <2>4, <2>5 DEF StepOf
<1> QED
  BY <1>1, <1>3, <1>4, <1>5 DEF CfgTypeOK

\* A thread goes from one step to the next with the locks that this takes.
LEMMA ThreadSteps ==
  ASSUME CfgTypeOK, NEW t \in CfgThreads, CfgStep(t)
  PROVE  \E from \in CfgSteps, to \in CfgSteps : StepOf(t, from, to)
<1> USE DEF CfgGo, CfgFinish, CfgEnter, CfgSteps, StepOf
<1>0. Nobody \notin CfgThreads /\ (cfgPc[t] \in {"truncate", "fill"} <=> cfgLock = t)
  BY ConfigAssumption DEF CfgTypeOK
<1>1. CASE CfgOpen(t)
  BY <1>1 DEF CfgOpen, cfgDisk
<1>2. CASE CfgStat(t)
  BY <1>2 DEF CfgStat, cfgDisk
<1>3. CASE CfgUseCache(t)
  <2>1. CfgAfterSnapshot(t, cfgCache[CfgProcOf[t]].value) \in {"mutate", "idle"}
    BY DEF CfgAfterSnapshot
  <2> QED
    BY <1>3, <2>1 DEF CfgUseCache, cfgDisk
<1>4. CASE CfgStale(t)
  BY <1>4 DEF CfgStale, cfgDisk
<1>5. CASE CfgRestat(t)
  BY <1>5 DEF CfgRestat, cfgDisk
<1>6. CASE CfgReread(t)
  BY <1>6 DEF CfgReread, cfgDisk
<1>7. CASE CfgRereadTorn(t)
  <2>1. CfgAfterSnapshot(t, cfgCache[CfgProcOf[t]].value) \in {"mutate", "idle"}
    BY DEF CfgAfterSnapshot
  <2> QED
    BY <1>7, <2>1 DEF CfgRereadTorn, cfgDisk
<1>8. CASE CfgInstall(t)
  <2>1. CfgAfterSnapshot(t, cfgSeen[t].value) \in {"mutate", "idle"}
    BY DEF CfgAfterSnapshot
  <2> QED
    BY <1>8, <2>1 DEF CfgInstall, cfgDisk
<1>9. CASE CfgBegin(t)
  BY <1>9 DEF CfgBegin
<1>10. CASE CfgBeginToken(t)
  BY <1>10 DEF CfgBeginToken
<1>11. CASE CfgChange(t)
  BY <1>11 DEF CfgChange
<1>12. CASE CfgRefuse(t)
  BY <1>12 DEF CfgRefuse, cfgDisk
<1>13. CASE CfgTruncate(t)
  BY <1>13 DEF CfgTruncate
<1>14. CASE CfgFillPart(t)
  BY <1>14 DEF CfgFillPart
<1>15. CASE CfgFill(t)
  BY <1>15 DEF CfgFill
<1>16. CASE CfgInstallWritten(t)
  BY <1>16 DEF CfgInstallWritten, cfgDisk
<1>17. CASE CfgWriteFails(t)
  BY <1>17 DEF CfgWriteFails
<1> QED
  BY <1>1, <1>2, <1>3, <1>4, <1>5, <1>6, <1>7, <1>8, <1>9, <1>10, <1>11, <1>12, <1>13, <1>14, <1>15,
     <1>16, <1>17 DEF CfgStep

\* What a step of a thread leaves alone, and the ways in which it writes.
LEMMA StepWrites ==
  ASSUME CfgTypeOK, NEW t \in CfgThreads, CfgStep(t)
  PROVE  /\ UNCHANGED cfgClock /\ cfgFaults' \in Nat /\ cfgLost' \in BOOLEAN /\ cfgUp' \subseteq CfgProcs
         /\ cfgFile' = cfgFile \/ OpenOrCreate \/ \E text \in {Blank, Torn, cfgSeen[t].value} : cfgFile' = Written(text)
         /\ cfgFile'.mtime \in Nat
<1>1. /\ cfgFaults \in Nat /\ cfgLost \in BOOLEAN /\ cfgUp \subseteq CfgProcs
      /\ cfgClock \in Nat /\ cfgFile.mtime \in Nat /\ CfgProcOf[t] \in CfgProcs
  BY ConfigAssumption DEF CfgTypeOK
<1>2. UNCHANGED cfgClock /\ (UNCHANGED <<cfgFaults, cfgLost>> \/ CfgWriteFails(t))
      /\ (UNCHANGED cfgUp \/ CfgInstall(t))
  BY DEF CfgStep, CfgOpen, CfgStat, CfgUseCache, CfgStale, CfgRestat, CfgReread, CfgRereadTorn,
         CfgInstall, CfgBegin, CfgBeginToken, CfgChange, CfgRefuse, CfgTruncate, CfgFillPart,
         CfgFill, CfgInstallWritten, CfgWriteFails, cfgOutside
<1>4. cfgFaults' \in Nat /\ cfgLost' \in BOOLEAN /\ cfgUp' \subseteq CfgProcs
  <2>1. CfgWriteFails(t) => cfgFaults' \in Nat
    BY <1>1 DEF CfgWriteFails
  <2>2. CfgWriteFails(t) => cfgLost' \in BOOLEAN
    <3>1. CfgWriteFails(t) => cfgLost' = (cfgLost \/ HalfWritten(t))
      BY DEF CfgWriteFails
    <3> QED
      BY <3>1
  <2>3. CfgInstall(t) => cfgUp' \subseteq CfgProcs
    BY <1>1 DEF CfgInstall
  <2> QED
    BY <1>1, <1>2, <2>1, <2>2, <2>3
<1>5. cfgFile' = cfgFile \/ OpenOrCreate \/ \E text \in {Blank, Torn, cfgSeen[t].value} : cfgFile' = Written(text)
  <2>1. CASE CfgBegin(t) \/ CfgBeginToken(t)
    BY <2>1 DEF CfgBegin, CfgBeginToken
  <2>2. CASE CfgTruncate(t) \/ CfgFillPart(t) \/ CfgFill(t)
    BY <2>2 DEF CfgTruncate, CfgFillPart, CfgFill
  <2>3. CASE ~(CfgBegin(t) \/ CfgBeginToken(t) \/ CfgTruncate(t) \/ CfgFillPart(t) \/ CfgFill(t))
    BY <2>3 DEF CfgStep, CfgOpen, CfgStat, CfgUseCache, CfgStale, CfgRestat, CfgReread, CfgRereadTorn,
         CfgInstall, CfgChange, CfgRefuse, CfgInstallWritten, CfgWriteFails, cfgDisk
  <2> QED
    BY <2>1, <2>2, <2>3
<1>3. cfgFile'.mtime \in Nat
  BY <1>1, <1>5, FileTimeIs DEF OpenOrCreate, Written
<1> QED
  BY <1>2, <1>3, <1>4, <1>5

\* So every step keeps the types.
LEMMA TypesKept ==
  ASSUME CfgTypeOK, NEW t \in CfgThreads, CfgStep(t)
  PROVE  CfgTypeOK'
<1>1. PICK from \in CfgSteps, to \in CfgSteps : StepOf(t, from, to)
  BY ThreadSteps
<1> QED
  BY <1>1, StepWrites, StepKeepsTypes

\* The call and the readings of a thread that goes on are in shape.
LEMMA ShapeKept ==
  ASSUME CfgBasics, NEW t \in CfgThreads, CfgStep(t)
  PROVE  /\ CfgShape'
         /\ \A s \in CfgThreads : s # t => /\ cfgSeen'[s] = cfgSeen[s] /\ cfgCall'[s] = cfgCall[s]
                                          /\ cfgPc'[s] = cfgPc[s]
<1>1. cfgClock \in Nat /\ cfgPc \in [CfgThreads -> CfgSteps] /\ CfgProcOf[t] \in CfgProcs
  BY ConfigAssumption DEF CfgBasics, CfgTypeOK
<1>2. /\ DOMAIN cfgSeen = CfgThreads /\ DOMAIN cfgCall = CfgThreads /\ DOMAIN cfgCache = CfgProcs
      /\ \A s \in CfgThreads : /\ DOMAIN cfgSeen[s] = {"value", "before", "stamp", "since"}
                               /\ cfgSeen[s].since \in Nat
  BY DEF CfgBasics, CfgShape
<1>3. \E step \in CfgSteps : cfgPc' = [cfgPc EXCEPT ![t] = step]
  <2>1. PICK from \in CfgSteps, to \in CfgSteps : StepOf(t, from, to)
    BY ThreadSteps DEF CfgBasics
  <2> QED
    BY <2>1 DEF StepOf
<1>4. cfgCall' = cfgCall \/ \E call : cfgCall' = [cfgCall EXCEPT ![t] = call]
  BY DEF CfgStep, CfgOpen, CfgStat, CfgUseCache, CfgStale, CfgRestat, CfgReread, CfgRereadTorn,
         CfgInstall, CfgBegin, CfgBeginToken, CfgChange, CfgRefuse, CfgTruncate, CfgFillPart,
         CfgFill, CfgInstallWritten, CfgWriteFails, CfgEnter, CfgFinish
<1>5. cfgCache' = cfgCache \/ \E entry : cfgCache' = [cfgCache EXCEPT ![CfgProcOf[t]] = entry]
  BY DEF CfgStep, CfgOpen, CfgStat, CfgUseCache, CfgStale, CfgRestat, CfgReread, CfgRereadTorn,
         CfgInstall, CfgBegin, CfgBeginToken, CfgChange, CfgRefuse, CfgTruncate, CfgFillPart,
         CfgFill, CfgInstallWritten, CfgWriteFails
<1>6. \/ cfgSeen' = cfgSeen
      \/ \E rec : /\ cfgSeen' = [cfgSeen EXCEPT ![t] = rec] /\ rec.since \in Nat
                  /\ DOMAIN rec = {"value", "before", "stamp", "since"}
  <2>1. CASE \E from, to : CfgFinish(t, from, to)
    <3>1. DOMAIN CfgNothing = {"value", "before", "stamp", "since"} /\ CfgNothing.since \in Nat
      BY DEF CfgNothing
    <3> QED
      BY <2>1, <3>1 DEF CfgFinish
  <2>2. CASE CfgStat(t) \/ CfgRestat(t)
    <3> DEFINE rec == [cfgSeen[t] EXCEPT !.stamp = StampOf(cfgFile)]
    <3>1. cfgSeen' = [cfgSeen EXCEPT ![t] = rec]
      BY <2>2 DEF CfgStat, CfgRestat
    <3>2. rec.since \in Nat /\ DOMAIN rec = {"value", "before", "stamp", "since"}
      BY <1>2
    <3> QED
      BY <3>1, <3>2
  <2>3. CASE CfgReread(t)
    <3> DEFINE rec == [cfgSeen[t] EXCEPT !.value = Parsed(cfgFile.content), !.since = cfgClock,
                         !.stamp = IF cfgFile.content = NoFile THEN NoStamp ELSE @]
    <3>1. cfgSeen' = [cfgSeen EXCEPT ![t] = rec]
      BY <2>3 DEF CfgReread
    <3>2. rec.since \in Nat /\ DOMAIN rec = {"value", "before", "stamp", "since"}
      BY <1>1, <1>2
    <3> QED
      BY <3>1, <3>2
  <2>4. CASE CfgChange(t)
    <3> DEFINE rec == [cfgSeen[t] EXCEPT !.value = Changed(t), !.before = Parsed(cfgFile.content)]
    <3>1. cfgSeen' = [cfgSeen EXCEPT ![t] = rec]
      BY <2>4 DEF CfgChange
    <3>2. rec.since \in Nat /\ DOMAIN rec = {"value", "before", "stamp", "since"}
      BY <1>2
    <3> QED
      BY <3>1, <3>2
  <2>5. CASE CfgFill(t)
    <3> DEFINE rec == [cfgSeen[t] EXCEPT !.since = cfgClock]
    <3>1. cfgSeen' = [cfgSeen EXCEPT ![t] = rec]
      BY <2>5 DEF CfgFill
    <3>2. rec.since \in Nat /\ DOMAIN rec = {"value", "before", "stamp", "since"}
      BY <1>1, <1>2
    <3> QED
      BY <3>1, <3>2
  <2>6. CASE cfgSeen' = cfgSeen
    BY <2>6
  <2> QED
    BY <2>1, <2>2, <2>3, <2>4, <2>5, <2>6
       DEF CfgStep, CfgOpen, CfgUseCache, CfgStale, CfgRereadTorn, CfgInstall, CfgBegin, CfgBeginToken,
           CfgRefuse, CfgTruncate, CfgFillPart, CfgInstallWritten, CfgWriteFails
<1>7. /\ DOMAIN cfgSeen' = CfgThreads
      /\ \A s \in CfgThreads : /\ DOMAIN cfgSeen'[s] = {"value", "before", "stamp", "since"}
                               /\ cfgSeen'[s].since \in Nat
                               /\ s # t => cfgSeen'[s] = cfgSeen[s]
  BY <1>2, <1>6
<1>8. /\ DOMAIN cfgCall' = CfgThreads /\ DOMAIN cfgCache' = CfgProcs
      /\ \A s \in CfgThreads : s # t => cfgCall'[s] = cfgCall[s] /\ cfgPc'[s] = cfgPc[s]
  BY <1>1, <1>2, <1>3, <1>4, <1>5
<1> QED
  BY <1>7, <1>8 DEF CfgShape

\* The call a thread makes, and that it has one when it is to write.
LEMMA CallKept ==
  ASSUME CfgBasics, NEW t \in CfgThreads, CfgStep(t)
  PROVE  /\ cfgCall'[t] # Snap => cfgCall'[t] \in CfgCalls
         /\ cfgPc'[t] \in {"mutate", "lock", "truncate", "fill", "written"} => cfgCall'[t] \in CfgCalls
         /\ cfgPc'[t] \in {"truncate", "fill", "written"} => cfgCall'[t] = cfgCall[t]
<1>1. /\ DOMAIN cfgCall = CfgThreads /\ DOMAIN cfgPc = CfgThreads
      /\ cfgCall[t] # Snap => cfgCall[t] \in CfgCalls
      /\ cfgPc[t] \in {"mutate", "lock", "truncate", "fill", "written"} => cfgCall[t] \in CfgCalls
  BY DEF CfgBasics, CfgTypeOK, CfgShape, CfgWrites
<1>2. Snap.op # "token"
  BY DEF Snap
<1>3. ASSUME NEW from, NEW to, CfgFinish(t, from, to),
             to \in {"idle", "mutate"}, to = "mutate" => cfgCall[t].op = "token"
      PROVE  /\ cfgCall'[t] # Snap => cfgCall'[t] \in CfgCalls
             /\ cfgPc'[t] \in {"idle", "mutate"} /\ (cfgPc'[t] = "mutate" => cfgCall'[t] \in CfgCalls)
  BY <1>1, <1>2, <1>3 DEF CfgFinish, CfgGo
<1>4. CASE CfgOpen(t) \/ CfgStale(t) \/ CfgRestat(t) \/ CfgReread(t) \/ CfgBeginToken(t)
           \/ CfgChange(t) \/ CfgTruncate(t) \/ CfgFillPart(t) \/ CfgFill(t)
  BY <1>1, <1>4 DEF CfgOpen, CfgStale, CfgRestat, CfgReread, CfgBeginToken, CfgChange, CfgTruncate,
                    CfgFillPart, CfgFill, CfgGo
<1>5. CASE CfgStat(t) \/ CfgBegin(t)
  BY <1>1, <1>5 DEF CfgStat, CfgBegin, CfgEnter, CfgGo
<1>6. CASE CfgUseCache(t) \/ CfgRereadTorn(t) \/ CfgInstall(t)
  <2>1. \A value : /\ CfgAfterSnapshot(t, value) \in {"idle", "mutate"}
                   /\ CfgAfterSnapshot(t, value) = "mutate" => cfgCall[t].op = "token"
    BY DEF CfgAfterSnapshot
  <2> QED
    BY <1>3, <1>6, <2>1 DEF CfgUseCache, CfgRereadTorn, CfgInstall
<1>7. CASE CfgRefuse(t) \/ CfgInstallWritten(t) \/ CfgWriteFails(t)
  BY <1>3, <1>7 DEF CfgRefuse, CfgInstallWritten, CfgWriteFails
<1> QED
  BY <1>4, <1>5, <1>6, <1>7 DEF CfgStep

\* A thread that is alone inside the lock.
LEMMA OneInLock ==
  ASSUME CfgTypeOK, NEW t \in CfgThreads, NEW s \in CfgThreads,
         cfgPc[t] \in {"truncate", "fill"}, cfgPc[s] \in {"truncate", "fill"}
  PROVE  s = t
BY DEF CfgTypeOK

\* What is to be written stays the call applied to what was in the file.
LEMMA WritesKept ==
  ASSUME MarksAreNoObjects, CallsAreKnown, CfgBasics, NEW t \in CfgThreads, CfgStep(t)
  PROVE  CfgWrites'
<1> DEFINE Ready(s) == /\ IsObject(cfgSeen[s].before) /\ cfgSeen[s].value # Refused
                       /\ cfgSeen[s].value = Apply(cfgSeen[s].before, cfgCall[s])
           Before(s) == cfgFile.content # Torn /\ cfgSeen[s].before = Parsed(cfgFile.content)
           Begun == cfgFile.content \in {Blank, Torn}
           Text(c) == c \in {NoFile, Blank, Torn} \/ IsObject(c)
<1>1. /\ \A s \in CfgThreads : s # t => /\ cfgSeen'[s] = cfgSeen[s] /\ cfgCall'[s] = cfgCall[s]
                                      /\ cfgPc'[s] = cfgPc[s]
      /\ cfgCall'[t] # Snap => cfgCall'[t] \in CfgCalls
      /\ cfgPc'[t] \in {"mutate", "lock", "truncate", "fill", "written"} => cfgCall'[t] \in CfgCalls
      /\ cfgPc'[t] \in {"truncate", "fill", "written"} => cfgCall'[t] = cfgCall[t]
  BY ShapeKept, CallKept
<1>2. /\ DOMAIN cfgSeen = CfgThreads /\ DOMAIN cfgPc = CfgThreads
      /\ DOMAIN cfgSeen[t] = {"value", "before", "stamp", "since"}
      /\ Text(cfgFile.content)
      /\ \A s \in CfgThreads :
            /\ cfgCall[s] # Snap => cfgCall[s] \in CfgCalls
            /\ cfgPc[s] \in {"mutate", "lock", "truncate", "fill", "written"} => cfgCall[s] \in CfgCalls
            /\ cfgPc[s] \in {"truncate", "fill"} => Ready(s)
            /\ cfgPc[s] = "truncate" => Before(s)
            /\ cfgPc[s] = "fill" => Begun
  BY DEF CfgBasics, CfgShape, CfgTypeOK, CfgWrites
<1>3. /\ NoFile # Blank /\ NoFile # Torn /\ Blank # Torn
      /\ ~IsObject(NoFile) /\ ~IsObject(Blank) /\ ~IsObject(Torn)
  BY ConfigAssumption DEF MarksAreNoObjects
<1>4. SUFFICES /\ Text(cfgFile'.content)
               /\ \A s \in CfgThreads :
                     /\ cfgPc'[s] \in {"truncate", "fill"} => Ready(s)'
                     /\ cfgPc'[s] = "truncate" => Before(s)'
                     /\ cfgPc'[s] = "fill" => Begun'
  BY <1>1, <1>2 DEF CfgWrites
<1>5. \A s \in CfgThreads : s # t /\ cfgPc'[s] \in {"truncate", "fill"} => Ready(s)'
  BY <1>1, <1>2
<1> HIDE DEF Ready
<1>6. CASE cfgFile' = cfgFile \/ OpenOrCreate
  <2>1. /\ Text(cfgFile'.content) /\ Parsed(cfgFile'.content) = Parsed(cfgFile.content)
        /\ cfgFile.content # Torn => cfgFile'.content # Torn
        /\ cfgFile.content \in {Blank, Torn} => cfgFile'.content \in {Blank, Torn}
    BY <1>2, <1>3, <1>6 DEF OpenOrCreate, Written, Parsed
  <2>2. ASSUME NEW s \in CfgThreads, s # t
        PROVE  /\ cfgPc'[s] = "truncate" => Before(s)'
               /\ cfgPc'[s] = "fill" => Begun'
    BY <1>1, <1>2, <2>1, <2>2
  <2>3. CASE cfgPc'[t] \notin {"truncate", "fill"}
    BY <1>5, <2>1, <2>2, <2>3
  <2>4. CASE CfgChange(t)
    <3>1. /\ cfgPc'[t] = "truncate" /\ cfgCall'[t] = cfgCall[t] /\ Changed(t) # Refused
          /\ cfgSeen'[t].value = Changed(t) /\ cfgSeen'[t].before = Parsed(cfgFile.content)
          /\ cfgFile' = cfgFile
      BY <1>1, <1>2, <2>4 DEF CfgChange, CfgGo
    <3>2. /\ cfgFile.content # Torn /\ Changed(t) = Apply(Parsed(cfgFile.content), cfgCall[t])
      BY <3>1 DEF Changed
    <3>3. IsObject(Parsed(cfgFile.content))
      BY <3>2, ParsedIs
    <3>4. Ready(t)' /\ Before(t)'
      BY <3>1, <3>2, <3>3 DEF Ready
    <3> QED
      BY <1>5, <2>1, <2>2, <3>1, <3>4
  <2>5. CASE cfgPc'[t] \in {"truncate", "fill"} /\ ~CfgChange(t)
    <3>1. CfgTruncate(t) \/ CfgFillPart(t)
      <4>1. CfgAfterSnapshot(t, cfgCache[CfgProcOf[t]].value) \in {"mutate", "idle"}
            /\ CfgAfterSnapshot(t, cfgSeen[t].value) \in {"mutate", "idle"}
        BY DEF CfgAfterSnapshot
      <4> QED
        BY <1>2, <2>5, <4>1 DEF CfgStep, CfgOpen, CfgStat, CfgUseCache, CfgStale, CfgRestat, CfgReread,
             CfgRereadTorn, CfgInstall, CfgBegin, CfgBeginToken, CfgRefuse, CfgFill,
             CfgInstallWritten, CfgWriteFails, CfgGo, CfgEnter, CfgFinish
    <3>2. Begun' /\ cfgPc'[t] = "fill" /\ cfgPc[t] \in {"truncate", "fill"} /\ cfgSeen' = cfgSeen
      BY <1>2, <3>1 DEF CfgTruncate, CfgFillPart, CfgGo, Written
    <3>3. Ready(t)'
      BY <1>1, <1>2, <3>2 DEF Ready
    <3> QED
      BY <1>5, <2>1, <2>2, <3>2, <3>3
  <2> QED
    BY <2>3, <2>4, <2>5
<1>7. CASE CfgTruncate(t) \/ CfgFillPart(t)
  <2>1. /\ cfgFile'.content \in {Blank, Torn} /\ cfgPc'[t] = "fill" /\ cfgSeen' = cfgSeen
        /\ cfgPc[t] \in {"truncate", "fill"}
    BY <1>2, <1>7 DEF CfgTruncate, CfgFillPart, CfgGo, Written
  <2>2. Ready(t)'
    BY <1>1, <1>2, <2>1 DEF Ready
  <2>3. \A s \in CfgThreads : s # t => cfgPc'[s] \notin {"truncate", "fill"}
    BY <1>1, <2>1, OneInLock DEF CfgBasics
  <2> QED
    BY <2>1, <2>2, <2>3
<1>8. CASE CfgFill(t)
  <2>1. /\ cfgFile'.content = cfgSeen[t].value /\ cfgPc'[t] = "written" /\ cfgPc[t] = "fill"
    BY <1>2, <1>8 DEF CfgFill, CfgGo, Written
  <2>2. IsObject(cfgSeen[t].value)
    BY <1>2, <2>1, ApplyIsObject DEF Ready
  <2>3. \A s \in CfgThreads : cfgPc'[s] \notin {"truncate", "fill"}
    BY <1>1, <2>1, OneInLock DEF CfgBasics
  <2> QED
    BY <2>1, <2>2, <2>3
<1>9. cfgFile' = cfgFile \/ OpenOrCreate \/ CfgTruncate(t) \/ CfgFillPart(t) \/ CfgFill(t)
  BY DEF CfgStep, CfgOpen, CfgStat, CfgUseCache, CfgStale, CfgRestat, CfgReread, CfgRereadTorn,
         CfgInstall, CfgBegin, CfgBeginToken, CfgChange, CfgRefuse, CfgInstallWritten, CfgWriteFails, cfgDisk
<1> QED
  BY <1>6, <1>7, <1>8, <1>9

\* A process that dies takes its threads out of the locks they hold.
LEMMA CrashKeepsBasics ==
  ASSUME CfgBasics, NEW p \in CfgProcs, CfgCrash(p)
  PROVE  /\ CfgBasics'
         /\ \A t \in CfgThreads :
               /\ CfgProcOf[t] = p => cfgPc'[t] = "idle" /\ cfgCall'[t] = Snap /\ cfgSeen'[t] = CfgNothing
               /\ CfgProcOf[t] # p => /\ cfgPc'[t] = cfgPc[t] /\ cfgCall'[t] = cfgCall[t]
                                      /\ cfgSeen'[t] = cfgSeen[t]
<1> DEFINE mine == {t \in CfgThreads : CfgProcOf[t] = p}
<1>1. /\ cfgPc' = [t \in CfgThreads |-> IF t \in mine THEN "idle" ELSE cfgPc[t]]
      /\ cfgCall' = [t \in CfgThreads |-> IF t \in mine THEN Snap ELSE cfgCall[t]]
      /\ cfgSeen' = [t \in CfgThreads |-> IF t \in mine THEN CfgNothing ELSE cfgSeen[t]]
      /\ cfgCache' = [cfgCache EXCEPT ![p] = CfgNoCache]
      /\ cfgLock' = IF cfgLock \in mine THEN Nobody ELSE cfgLock
      /\ cfgGuard' = [cfgGuard EXCEPT ![p] = Nobody]
      /\ cfgFaults' = cfgFaults + 1 /\ cfgUp' = cfgUp \ {p}
      /\ UNCHANGED <<cfgFile, cfgMade, cfgClock, cfgTokens>>
  BY DEF CfgCrash
<1>2. cfgLost' \in BOOLEAN
  <2>1. cfgLost' = (cfgLost \/ \E t \in mine : HalfWritten(t))
    BY DEF CfgCrash
  <2> HIDE DEF mine
  <2> QED
    BY <2>1
<1>3. \A t \in CfgThreads :
         /\ CfgProcOf[t] = p => cfgPc'[t] = "idle" /\ cfgCall'[t] = Snap /\ cfgSeen'[t] = CfgNothing
         /\ CfgProcOf[t] # p => cfgPc'[t] = cfgPc[t] /\ cfgCall'[t] = cfgCall[t] /\ cfgSeen'[t] = cfgSeen[t]
  BY <1>1
<1>4. CfgTypeOK'
  <2>1. /\ cfgFile.mtime \in Nat /\ cfgClock \in Nat /\ cfgFaults \in Nat /\ cfgUp \subseteq CfgProcs
        /\ cfgPc \in [CfgThreads -> CfgSteps]
        /\ cfgGuard \in [CfgProcs -> CfgThreads \cup {Nobody}]
        /\ \A t \in CfgThreads :
              /\ cfgPc[t] \in {"truncate", "fill"} <=> cfgLock = t
              /\ cfgPc[t] \notin {"idle", "check", "mutate"} <=> cfgGuard[CfgProcOf[t]] = t
        /\ \A t \in CfgThreads : CfgProcOf[t] \in CfgProcs
        /\ Nobody \notin CfgThreads
    BY ConfigAssumption DEF CfgBasics, CfgTypeOK
  <2>2. /\ cfgFile'.mtime \in Nat /\ cfgClock' \in Nat /\ cfgFaults' \in Nat /\ cfgUp' \subseteq CfgProcs
    BY <1>1, <2>1
  <2>3. cfgPc' \in [CfgThreads -> CfgSteps]
    BY <1>1, <2>1 DEF CfgSteps
  <2>4. cfgGuard' \in [CfgProcs -> CfgThreads \cup {Nobody}]
    BY <1>1, <2>1
  <2>5. ASSUME NEW t \in CfgThreads
        PROVE  /\ cfgPc'[t] \in {"truncate", "fill"} <=> cfgLock' = t
               /\ cfgPc'[t] \notin {"idle", "check", "mutate"} <=> cfgGuard'[CfgProcOf[t]] = t
    <3>1. cfgPc'[t] \in {"truncate", "fill"} <=> cfgLock' = t
      BY <1>1, <1>3, <2>1
    <3>2. cfgPc'[t] \notin {"idle", "check", "mutate"} <=> cfgGuard'[CfgProcOf[t]] = t
      BY <1>1, <1>3, <2>1
    <3> QED
      BY <3>1, <3>2
  <2> QED
    BY <1>2, <2>2, <2>3, <2>4, <2>5 DEF CfgTypeOK
<1>5. CfgShape'
  <2>1. DOMAIN CfgNothing = {"value", "before", "stamp", "since"} /\ CfgNothing.since \in Nat
    BY DEF CfgNothing
  <2>2. /\ DOMAIN cfgSeen' = CfgThreads /\ DOMAIN cfgCall' = CfgThreads /\ DOMAIN cfgCache' = CfgProcs
    BY <1>1 DEF CfgBasics, CfgShape
  <2>3. \A t \in CfgThreads : DOMAIN cfgSeen'[t] = {"value", "before", "stamp", "since"} /\ cfgSeen'[t].since \in Nat
    BY <1>3, <2>1 DEF CfgBasics, CfgShape
  <2> QED
    BY <2>2, <2>3 DEF CfgShape
<1>6. CfgWrites'
  BY <1>1, <1>3 DEF CfgBasics, CfgWrites
<1> QED
  BY <1>3, <1>4, <1>5, <1>6 DEF CfgBasics

\* The basics hold from the start ...
LEMMA BasicsInit ==
  ASSUME MarksAreNoObjects, CfgInit
  PROVE  CfgBasics
<1>1. /\ cfgFile \in [content : CfgInitial, mtime : {0}] /\ cfgLock = Nobody /\ cfgUp = CfgProcs
      /\ cfgCache = [p \in CfgProcs |-> [value |-> Parsed(cfgFile.content),
                                        stamp |-> StampOf(cfgFile), loadedAt |-> 0]]
      /\ cfgGuard = [p \in CfgProcs |-> Nobody] /\ cfgPc = [t \in CfgThreads |-> "idle"]
      /\ cfgCall = [t \in CfgThreads |-> Snap] /\ cfgSeen = [t \in CfgThreads |-> CfgNothing]
      /\ cfgClock = 0 /\ cfgFaults = 0 /\ cfgLost = FALSE
  BY DEF CfgInit
<1>2. /\ cfgFile.mtime \in Nat /\ cfgFile.content \in CfgInitial
  BY <1>1
<1>3. CfgTypeOK
  BY <1>1, <1>2, ConfigAssumption DEF CfgTypeOK, CfgSteps
<1>4. CfgShape
  BY <1>1 DEF CfgShape, CfgNothing
<1>5. CfgWrites
  BY <1>1, <1>2 DEF CfgWrites, MarksAreNoObjects
<1> QED
  BY <1>3, <1>4, <1>5 DEF CfgBasics

\* ... and through every step.
LEMMA BasicsKept ==
  ASSUME MarksAreNoObjects, CallsAreKnown, CfgBasics, [CfgNext]_cfgVars
  PROVE  CfgBasics'
<1>1. ASSUME NEW t \in CfgThreads, CfgStep(t)
      PROVE  CfgBasics'
  BY <1>1, TypesKept, ShapeKept, WritesKept DEF CfgBasics
<1>2. ASSUME NEW p \in CfgProcs, CfgCrash(p)
      PROVE  CfgBasics'
  BY <1>2, CrashKeepsBasics
<1>3. CASE CfgTick
  <2>1. /\ cfgClock' = cfgClock + 1
        /\ UNCHANGED <<cfgFile, cfgLock, cfgCache, cfgGuard, cfgUp, cfgPc, cfgCall, cfgSeen, cfgFaults, cfgLost>>
    BY <1>3 DEF CfgTick, cfgDisk
  <2> QED
    BY <2>1 DEF CfgBasics, CfgTypeOK, CfgShape, CfgWrites, Parsed
<1>4. CASE UNCHANGED cfgVars
  BY <1>4 DEF cfgVars, CfgBasics, CfgTypeOK, CfgShape, CfgWrites, Parsed
<1> QED
  BY <1>1, <1>2, <1>3, <1>4 DEF CfgNext

\* A lock is held exactly by the thread that is between taking and releasing
\* it, and what such a thread will write is its call applied to the text it
\* found there under the lock: mutate's read, change, truncate and write.
THEOREM CfgInvariant ==
  ASSUME MarksAreNoObjects, CallsAreKnown
  PROVE  CfgSpec => []CfgBasics
<1>1. CfgInit => CfgBasics
  BY BasicsInit
<1>2. CfgBasics /\ [CfgNext]_cfgVars => CfgBasics'
  BY BasicsKept
<1> QED
  BY <1>1, <1>2, PTL DEF CfgSpec

------------------------------------------------------------------------------
(* Whether a cache may be trusted                                            *)

\* A value read at some time: if the file is older than that by more than its
\* times are coarse, and by pause, then the value is what is in it.
Honest(value, at, pause) ==
    /\ cfgFile.content = NoFile => value = EmptyObject
    /\ cfgFile.mtime + Granularity + pause <= at =>
          cfgFile.content # Torn /\ value = Parsed(cfgFile.content)

\* A thread stamps what it has read or written soon after, and what is cached
\* was the file's when it was read; what a thread wrote is as young as its file.
CfgTiming ==
    /\ \A t \in CfgThreads :
          /\ cfgPc[t] \in {"install", "written"} =>
                cfgSeen[t].since <= cfgClock /\ cfgClock <= cfgSeen[t].since + MaxPause
          /\ cfgPc[t] = "install" => Honest(cfgSeen[t].value, cfgSeen[t].since, 0)
          /\ cfgPc[t] = "written" =>
                cfgFile.content # NoFile /\ cfgSeen[t].since < cfgFile.mtime + Granularity
    /\ \A p \in cfgUp :
          /\ cfgCache[p].loadedAt \in Nat /\ cfgCache[p].loadedAt <= cfgClock
          /\ Honest(cfgCache[p].value, cfgCache[p].loadedAt, MaxPause)

\* A write makes the file too young to vouch for what was read before it, and
\* never removes it.
LEMMA WriteKeepsHonest ==
  ASSUME NEW value, NEW at \in Nat, NEW pause \in Nat,
         cfgClock \in Nat, cfgFile.mtime \in Nat, at <= cfgClock, Honest(value, at, pause),
         NEW text, text # NoFile, cfgFile' = cfgFile \/ cfgFile' = Written(text)
  PROVE  /\ (cfgFile'.content = NoFile => value = EmptyObject)
         /\ (cfgFile'.mtime + Granularity + pause <= at =>
               cfgFile'.content # Torn /\ value = Parsed(cfgFile'.content))
         /\ cfgFile.content # NoFile => cfgFile'.content # NoFile
         /\ at < cfgFile.mtime + Granularity => at < cfgFile'.mtime + Granularity
<1>1. CASE cfgFile' = cfgFile
  BY <1>1 DEF Honest
<1>2. CASE cfgFile' = Written(text)
  <2>1. cfgFile'.content = text /\ cfgFile'.mtime = FileTime
    BY <1>2 DEF Written
  <2>2. Granularity \in Nat /\ FileTime \in Nat /\ cfgClock < FileTime + Granularity
    BY FileTimeIs, ConfigAssumption
  <2>3. at < FileTime + Granularity /\ ~(FileTime + Granularity + pause <= at)
    <3> HIDE DEF FileTime
    <3> QED
      BY <2>2
  <2> QED
    BY <2>1, <2>3
<1> QED
  BY <1>1, <1>2

\* A thread comes to stamp its value only by having read or written it.
LEMMA ToInstall ==
  ASSUME CfgTypeOK, NEW t \in CfgThreads, CfgStep(t)
  PROVE  /\ cfgPc'[t] = "install" => CfgReread(t)
         /\ cfgPc'[t] = "written" => CfgFill(t)
         /\ cfgPc'[t] = "truncate" => CfgChange(t)
         /\ cfgPc'[t] = "fill" => CfgTruncate(t) \/ CfgFillPart(t)
<1>1. \A value : CfgAfterSnapshot(t, value) \in {"mutate", "idle"}
  BY DEF CfgAfterSnapshot
<1>2. DOMAIN cfgPc = CfgThreads
  BY DEF CfgTypeOK
<1> QED
  BY <1>1, <1>2 DEF CfgStep, CfgOpen, CfgStat, CfgUseCache, CfgStale, CfgRestat, CfgReread, CfgRereadTorn,
     CfgInstall, CfgBegin, CfgBeginToken, CfgChange, CfgRefuse, CfgTruncate, CfgFillPart,
     CfgFill, CfgInstallWritten, CfgWriteFails, CfgGo, CfgEnter, CfgFinish

\* The file is as it was, or written with a text.
LEMMA FileKept ==
  ASSUME MarksAreNoObjects, CallsAreKnown, CfgBasics, NEW t \in CfgThreads, CfgStep(t)
  PROVE  \E text : text # NoFile /\ (cfgFile' = cfgFile \/ cfgFile' = Written(text))
<1>1. Blank # NoFile /\ Torn # NoFile
  BY ConfigAssumption
<1>2. CASE CfgFill(t)
  <2>1. cfgPc[t] = "fill" /\ cfgFile' = Written(cfgSeen[t].value)
    BY <1>2 DEF CfgFill, CfgGo
  <2>2. IsObject(cfgSeen[t].value)
    BY <2>1, ApplyIsObject DEF CfgBasics, CfgWrites
  <2> QED
    BY <2>1, <2>2 DEF MarksAreNoObjects
<1>3. CASE ~CfgFill(t)
  <2>1. cfgFile' = cfgFile \/ cfgFile' = Written(Blank) \/ cfgFile' = Written(Torn)
    BY <1>3 DEF CfgStep, CfgOpen, CfgStat, CfgUseCache, CfgStale, CfgRestat, CfgReread, CfgRereadTorn,
       CfgInstall, CfgBegin, CfgBeginToken, CfgChange, CfgRefuse, CfgTruncate, CfgFillPart,
       CfgInstallWritten, CfgWriteFails, cfgDisk, OpenOrCreate
  <2> QED
    BY <1>1, <2>1
<1> QED
  BY <1>2, <1>3

\* A cache is as it was, or a thread of the process has just stamped it.
LEMMA CacheKept ==
  ASSUME CfgBasics, NEW t \in CfgThreads, CfgStep(t), NEW p \in CfgProcs
  PROVE  \/ cfgCache'[p] = cfgCache[p] /\ (p \in cfgUp' => p \in cfgUp)
         \/ /\ CfgInstall(t) \/ CfgInstallWritten(t)
            /\ cfgCache'[p].value = cfgSeen[t].value /\ cfgCache'[p].loadedAt = cfgClock
<1>1. DOMAIN cfgCache = CfgProcs /\ CfgProcOf[t] \in CfgProcs
  BY ConfigAssumption DEF CfgBasics, CfgShape
<1>2. CASE CfgInstall(t)
  <2>1. /\ cfgCache' = [cfgCache EXCEPT ![CfgProcOf[t]] = CfgEntry(cfgSeen[t].value, cfgSeen[t].stamp)]
        /\ cfgUp' = cfgUp \cup {CfgProcOf[t]}
    BY <1>2 DEF CfgInstall
  <2> QED
    BY <1>1, <1>2, <2>1 DEF CfgEntry
<1>3. CASE CfgInstallWritten(t)
  <2>1. /\ cfgCache' = [cfgCache EXCEPT ![CfgProcOf[t]] = CfgEntry(cfgSeen[t].value, StampOf(cfgFile))]
        /\ cfgUp' = cfgUp
    BY <1>3 DEF CfgInstallWritten
  <2> QED
    BY <1>1, <1>3, <2>1 DEF CfgEntry
<1>4. CASE ~CfgInstall(t) /\ ~CfgInstallWritten(t)
  BY <1>4 DEF CfgStep, CfgOpen, CfgStat, CfgUseCache, CfgStale, CfgRestat, CfgReread, CfgRereadTorn,
     CfgBegin, CfgBeginToken, CfgChange, CfgRefuse, CfgTruncate, CfgFillPart, CfgFill, CfgWriteFails
<1> QED
  BY <1>2, <1>3, <1>4

\* What is cached, or about to be, stays what it was the file's.
LEMMA TimingKept ==
  ASSUME MarksAreNoObjects, CallsAreKnown, CfgBasics, CfgTiming, NEW t \in CfgThreads, CfgStep(t)
  PROVE  CfgTiming'
<1> DEFINE Still(value, at, pause) ==
               /\ cfgFile'.content = NoFile => value = EmptyObject
               /\ cfgFile'.mtime + Granularity + pause <= at =>
                     cfgFile'.content # Torn /\ value = Parsed(cfgFile'.content)
           Young(at) == cfgFile'.content # NoFile /\ at < cfgFile'.mtime + Granularity
<1>1. /\ cfgClock' = cfgClock /\ cfgClock \in Nat /\ MaxPause \in Nat /\ Granularity \in Nat
      /\ cfgFile.mtime \in Nat /\ cfgFile'.mtime \in Nat
      /\ cfgUp' \subseteq CfgProcs
      /\ DOMAIN cfgSeen = CfgThreads /\ DOMAIN cfgSeen[t] = {"value", "before", "stamp", "since"}
      /\ \A s \in CfgThreads : cfgSeen[s].since \in Nat
      /\ \A s \in CfgThreads : s # t => cfgSeen'[s] = cfgSeen[s] /\ cfgPc'[s] = cfgPc[s]
  BY StepWrites, ShapeKept, ConfigAssumption DEF CfgBasics, CfgTypeOK, CfgShape
<1>2. /\ \A value : \A at \in Nat, pause \in Nat :
            at <= cfgClock /\ Honest(value, at, pause) => Still(value, at, pause)
      /\ \A at \in Nat : at <= cfgClock /\ cfgFile.content # NoFile /\ at < cfgFile.mtime + Granularity
                            => Young(at)
  <2>1. PICK text : text # NoFile /\ (cfgFile' = cfgFile \/ cfgFile' = Written(text))
    BY FileKept
  <2>2. ASSUME NEW value, NEW at \in Nat, NEW pause \in Nat, at <= cfgClock, Honest(value, at, pause)
        PROVE  Still(value, at, pause)
    BY <1>1, <2>1, <2>2, WriteKeepsHonest
  <2>3. ASSUME NEW at \in Nat, at <= cfgClock, cfgFile.content # NoFile, at < cfgFile.mtime + Granularity
        PROVE  Young(at)
    <3>1. Honest(EmptyObject, at, at)
      <4>1. ~(cfgFile.mtime + Granularity + at <= at)
        BY <1>1, <2>3
      <4> QED
        BY <4>1 DEF Honest
    <3> QED
      BY <1>1, <2>1, <2>3, <3>1, WriteKeepsHonest
  <2> QED
    BY <2>2, <2>3
<1> HIDE DEF Still, Young
<1>3. ASSUME NEW s \in CfgThreads
      PROVE  /\ cfgPc'[s] \in {"install", "written"} =>
                   cfgSeen'[s].since <= cfgClock /\ cfgClock <= cfgSeen'[s].since + MaxPause
             /\ cfgPc'[s] = "install" => Still(cfgSeen'[s].value, cfgSeen'[s].since, 0)
             /\ cfgPc'[s] = "written" => Young(cfgSeen'[s].since)
  <2>1. CASE s # t
    BY <1>1, <1>2, <2>1 DEF CfgTiming
  <2>2. CASE s = t /\ CfgReread(t)
    <3>1. cfgSeen'[t].since = cfgClock /\ cfgSeen'[t].value = Parsed(cfgFile.content) /\ cfgPc'[t] = "install"
      <4>1. DOMAIN cfgPc = CfgThreads
        BY DEF CfgBasics, CfgTypeOK
      <4> QED
        BY <1>1, <2>2, <4>1 DEF CfgReread, CfgGo
    <3>2. cfgFile' = cfgFile /\ cfgFile.content # Torn
      BY <2>2 DEF CfgReread, cfgDisk
    <3>3. Parsed(NoFile) = EmptyObject
      BY DEF Parsed
    <3>4. Still(cfgSeen'[t].value, cfgSeen'[t].since, 0)
      BY <3>1, <3>2, <3>3 DEF Still
    <3>5. cfgClock <= cfgClock + MaxPause
      BY <1>1
    <3> QED
      BY <1>1, <2>2, <3>1, <3>4, <3>5
  <2>3. CASE s = t /\ CfgFill(t)
    <3>1. cfgSeen'[t].since = cfgClock /\ cfgFile' = Written(cfgSeen[t].value) /\ cfgPc[t] = "fill"
          /\ cfgPc'[t] = "written"
      <4>1. DOMAIN cfgPc = CfgThreads
        BY DEF CfgBasics, CfgTypeOK
      <4> QED
        BY <1>1, <2>3, <4>1 DEF CfgFill, CfgGo
    <3>2. IsObject(cfgSeen[t].value)
      BY <3>1, ApplyIsObject DEF CfgBasics, CfgWrites
    <3>3. Young(cfgClock)
      BY <3>1, <3>2, FileTimeIs, <1>1 DEF Young, Written, MarksAreNoObjects
    <3>4. cfgClock <= cfgClock + MaxPause
      BY <1>1
    <3> QED
      BY <1>1, <2>3, <3>1, <3>3, <3>4
  <2>4. CASE s = t /\ cfgPc'[t] \notin {"install", "written"}
    BY <2>4
  <2> QED
    BY <2>1, <2>2, <2>3, <2>4, ToInstall DEF CfgBasics
<1>4. ASSUME NEW p \in cfgUp'
      PROVE  /\ cfgCache'[p].loadedAt \in Nat /\ cfgCache'[p].loadedAt <= cfgClock
             /\ Still(cfgCache'[p].value, cfgCache'[p].loadedAt, MaxPause)
  <2>1. CASE cfgCache'[p] = cfgCache[p] /\ p \in cfgUp
    BY <1>1, <1>2, <2>1 DEF CfgTiming
  <2>2. CASE CfgInstall(t) /\ cfgCache'[p].value = cfgSeen[t].value /\ cfgCache'[p].loadedAt = cfgClock
    <3> DEFINE at == cfgSeen[t].since
               value == cfgSeen[t].value
    <3>1. /\ at \in Nat /\ at <= cfgClock /\ cfgClock <= at + MaxPause /\ Honest(value, at, 0)
          /\ cfgFile' = cfgFile
      BY <1>1, <2>2 DEF CfgInstall, CfgFinish, CfgGo, CfgTiming, cfgDisk
    <3> HIDE DEF at
    <3>2. cfgFile.mtime + Granularity + MaxPause <= cfgClock => cfgFile.mtime + Granularity + 0 <= at
      BY <1>1, <3>1
    <3>3. Still(value, cfgClock, MaxPause)
      BY <3>1, <3>2 DEF Still, Honest
    <3> QED
      BY <1>1, <2>2, <3>3
  <2>3. CASE CfgInstallWritten(t) /\ cfgCache'[p].value = cfgSeen[t].value /\ cfgCache'[p].loadedAt = cfgClock
    <3> DEFINE at == cfgSeen[t].since
               value == cfgSeen[t].value
    <3>1. /\ at \in Nat /\ at <= cfgClock /\ cfgClock <= at + MaxPause
          /\ cfgFile.content # NoFile /\ at < cfgFile.mtime + Granularity
          /\ cfgFile' = cfgFile
      BY <1>1, <2>3 DEF CfgInstallWritten, CfgFinish, CfgGo, CfgTiming, cfgDisk
    <3> HIDE DEF at
    <3>2. ~(cfgFile.mtime + Granularity + MaxPause <= cfgClock)
      BY <1>1, <3>1
    <3>3. Still(value, cfgClock, MaxPause)
      BY <3>1, <3>2 DEF Still
    <3> QED
      BY <1>1, <2>3, <3>3
  <2> QED
    BY <1>1, <2>1, <2>2, <2>3, CacheKept
<1> QED
  BY <1>1, <1>3, <1>4 DEF CfgTiming, Honest, Still, Young

\* From the start, and through crashes and time.
LEMMA TimingAlways ==
  ASSUME MarksAreNoObjects, CallsAreKnown
  PROVE  /\ CfgInit => CfgTiming
         /\ CfgBasics /\ CfgTiming /\ [CfgNext]_cfgVars => CfgTiming'
<1>1. ASSUME CfgInit
      PROVE  CfgTiming
  <2>1. /\ \A t \in CfgThreads : cfgPc[t] = "idle"
        /\ \A p \in CfgProcs : cfgCache[p].loadedAt = 0 /\ cfgCache[p].value = Parsed(cfgFile.content)
        /\ cfgUp = CfgProcs /\ cfgClock = 0 /\ cfgFile.content \in CfgInitial
    BY <1>1 DEF CfgInit
  <2>2. cfgFile.content # Torn
    BY <2>1, ConfigAssumption DEF MarksAreNoObjects
  <2> QED
    BY <2>1, <2>2 DEF CfgTiming, Honest, Parsed
<1>2. ASSUME CfgBasics, CfgTiming, [CfgNext]_cfgVars
      PROVE  CfgTiming'
  <2>1. ASSUME NEW t \in CfgThreads, CfgStep(t)
        PROVE  CfgTiming'
    BY <1>2, <2>1, TimingKept
  <2>2. ASSUME NEW p \in CfgProcs, CfgCrash(p)
        PROVE  CfgTiming'
    <3>1. /\ \A t \in CfgThreads : \/ cfgPc'[t] = "idle"
                                   \/ cfgPc'[t] = cfgPc[t] /\ cfgSeen'[t] = cfgSeen[t]
      BY <1>2, <2>2, CrashKeepsBasics
    <3>2. /\ cfgUp' = cfgUp \ {p} /\ UNCHANGED <<cfgFile, cfgClock>>
          /\ \A q \in cfgUp \ {p} : cfgCache'[q] = cfgCache[q]
      <4>1. DOMAIN cfgCache = CfgProcs /\ cfgUp \subseteq CfgProcs
        BY <1>2 DEF CfgBasics, CfgShape, CfgTypeOK
      <4>2. cfgUp' = cfgUp \ {p} /\ UNCHANGED <<cfgFile, cfgClock>> /\ cfgCache' = [cfgCache EXCEPT ![p] = CfgNoCache]
        BY <2>2 DEF CfgCrash
      <4> QED
        BY <4>1, <4>2
    <3> QED
      BY <1>2, <3>1, <3>2 DEF CfgTiming, Honest, Parsed
  <2>3. CASE CfgTick
    <3>1. /\ cfgClock' = cfgClock + 1 /\ UNCHANGED <<cfgFile, cfgCache, cfgUp, cfgPc, cfgSeen>>
          /\ \A t \in CfgThreads : cfgPc[t] \in {"written", "install"} => cfgClock - cfgSeen[t].since < MaxPause
      BY <2>3 DEF CfgTick, cfgDisk
    <3>2. cfgClock \in Nat /\ MaxPause \in Nat /\ \A t \in CfgThreads : cfgSeen[t].since \in Nat
      BY <1>2, ConfigAssumption DEF CfgBasics, CfgTypeOK, CfgShape
    <3>3. \A t \in CfgThreads : cfgPc[t] \in {"install", "written"} =>
             cfgSeen[t].since <= cfgClock' /\ cfgClock' <= cfgSeen[t].since + MaxPause
      <4> SUFFICES ASSUME NEW t \in CfgThreads, cfgPc[t] \in {"install", "written"}
                   PROVE  cfgSeen[t].since <= cfgClock' /\ cfgClock' <= cfgSeen[t].since + MaxPause
        OBVIOUS
      <4>1. cfgSeen[t].since <= cfgClock /\ cfgClock - cfgSeen[t].since < MaxPause
        BY <1>2, <3>1 DEF CfgTiming
      <4>2. \A c, s, m \in Nat : s <= c /\ c - s < m => s <= c + 1 /\ c + 1 <= s + m
        OBVIOUS
      <4> QED
        BY <3>1, <3>2, <4>1, <4>2
    <3>4. \A p \in cfgUp : cfgCache[p].loadedAt \in Nat /\ cfgCache[p].loadedAt <= cfgClock'
      <4> SUFFICES ASSUME NEW p \in cfgUp PROVE cfgCache[p].loadedAt \in Nat /\ cfgCache[p].loadedAt <= cfgClock'
        OBVIOUS
      <4>1. cfgCache[p].loadedAt \in Nat /\ cfgCache[p].loadedAt <= cfgClock
        BY <1>2 DEF CfgTiming
      <4>2. \A c, s \in Nat : s <= c => s <= c + 1
        OBVIOUS
      <4> QED
        BY <3>1, <3>2, <4>1, <4>2
    <3> QED
      BY <1>2, <3>1, <3>3, <3>4 DEF CfgTiming, Honest, Parsed
  <2>4. CASE UNCHANGED cfgVars
    BY <1>2, <2>4 DEF cfgVars, CfgTiming, Honest, Parsed
  <2> QED
    BY <1>2, <2>1, <2>2, <2>3, <2>4 DEF CfgNext
<1> QED
  BY <1>1, <1>2

\* A stamp that is trusted is the file's, and old enough.
LEMMA FreshIsHonest ==
  ASSUME WindowCovers, CfgBasics, CfgTiming
  PROVE  CacheIsHonest
<1> SUFFICES ASSUME NEW p \in cfgUp, IsFresh(cfgCache[p], StampOf(cfgFile))
             PROVE  cfgFile.content # Torn /\ cfgCache[p].value = Parsed(cfgFile.content)
  BY DEF CacheIsHonest
<1> DEFINE at == cfgCache[p].loadedAt
           value == cfgCache[p].value
<1>1. at \in Nat /\ Honest(value, at, MaxPause)
  BY DEF CfgTiming
<1>2. StampOf(cfgFile) = NoStamp <=> cfgFile.content = NoFile
  BY DEF StampOf, NoStamp, Length
<1>3. CASE cfgFile.content = NoFile
  BY <1>1, <1>3, ConfigAssumption DEF Honest, Parsed
<1>4. CASE cfgFile.content # NoFile
  <2>1. cfgFile.mtime + RacyWindow <= at
    <3>1. cfgCache[p].stamp = StampOf(cfgFile) /\ cfgCache[p].stamp.mtime + RacyWindow <= at
      BY <1>2, <1>4 DEF IsFresh
    <3>2. StampOf(cfgFile).mtime = cfgFile.mtime
      BY <1>4 DEF StampOf
    <3> QED
      BY <3>1, <3>2
  <2>2. cfgFile.mtime \in Nat /\ {Granularity, MaxPause, RacyWindow} \subseteq Nat
    BY ConfigAssumption DEF CfgBasics, CfgTypeOK
  <2> HIDE DEF at
  <2>3. cfgFile.mtime + Granularity + MaxPause <= at
    BY <1>1, <2>1, <2>2 DEF WindowCovers
  <2> QED
    BY <1>1, <2>3 DEF Honest
<1> QED
  BY <1>3, <1>4

\* A cached configuration that the next read trusts is what is in the file,
\* however coarse the file's times are and whatever other processes did, as
\* long as RACY_WINDOW covers that coarseness and the pause of a thread between
\* reading the file (or unlocking it) and stamping what it cached.
THEOREM CfgCacheHonest ==
  ASSUME MarksAreNoObjects, CallsAreKnown, WindowCovers
  PROVE  CfgSpec => []CacheIsHonest
<1>1. CfgInit => CfgBasics /\ CfgTiming
  BY BasicsInit, TimingAlways
<1>2. CfgBasics /\ CfgTiming /\ [CfgNext]_cfgVars => (CfgBasics /\ CfgTiming)'
  BY BasicsKept, TimingAlways
<1>3. CfgBasics /\ CfgTiming => CacheIsHonest
  BY FreshIsHonest
<1> QED
  BY <1>1, <1>2, <1>3, PTL DEF CfgSpec

------------------------------------------------------------------------------
(* What the file stands for                                                  *)

\* There is one half-writer at most: the file stands for the text before it.
LEMMA CommittedIs ==
  CfgTypeOK => /\ \A t \in CfgThreads : cfgPc[t] = "fill" => Committed = cfgSeen[t].before
               /\ (\A t \in CfgThreads : cfgPc[t] # "fill") => Committed = Parsed(cfgFile.content)
<1> SUFFICES ASSUME CfgTypeOK
             PROVE  /\ \A t \in CfgThreads : cfgPc[t] = "fill" => Committed = cfgSeen[t].before
                    /\ (\A t \in CfgThreads : cfgPc[t] # "fill") => Committed = Parsed(cfgFile.content)
  OBVIOUS
<1>1. ASSUME NEW t \in CfgThreads, cfgPc[t] = "fill"
      PROVE  Committed = cfgSeen[t].before
  <2> DEFINE half == CHOOSE s \in CfgThreads : HalfWritten(s)
  <2>1. half \in CfgThreads /\ cfgPc[half] = "fill"
    BY <1>1 DEF HalfWritten
  <2> HIDE DEF half
  <2>2. half = t
    BY <1>1, <2>1, OneInLock
  <2>3. Committed = cfgSeen[half].before
    BY <1>1 DEF half, Committed, HalfWritten
  <2> QED
    BY <2>2, <2>3
<1>2. ASSUME \A t \in CfgThreads : cfgPc[t] # "fill"
      PROVE  Committed = Parsed(cfgFile.content)
  BY <1>2 DEF Committed, HalfWritten
<1> QED
  BY <1>1, <1>2

\* The same after a step.
LEMMA CommittedThen ==
  ASSUME CfgTypeOK'
  PROVE  /\ \A t \in CfgThreads : cfgPc'[t] = "fill" => Committed' = cfgSeen'[t].before
         /\ (\A t \in CfgThreads : cfgPc'[t] # "fill") => Committed' = Parsed(cfgFile'.content)
<1>1. (CfgTypeOK => /\ \A t \in CfgThreads : cfgPc[t] = "fill" => Committed = cfgSeen[t].before
                    /\ (\A t \in CfgThreads : cfgPc[t] # "fill") => Committed = Parsed(cfgFile.content))'
  BY CommittedIs, PTL
<1>2. Parsed(cfgFile.content)' = Parsed(cfgFile'.content)
  BY DEF Parsed
<1> QED
  BY <1>1, <1>2

\* The half-writers are who they were, and the text stands for what it did.
LEMMA CommittedKept ==
  ASSUME CfgTypeOK, CfgTypeOK', Parsed(cfgFile'.content) = Parsed(cfgFile.content),
         \A t \in CfgThreads : /\ cfgPc'[t] = "fill" <=> cfgPc[t] = "fill"
                               /\ cfgPc[t] = "fill" => cfgSeen'[t].before = cfgSeen[t].before
  PROVE  Committed' = Committed
<1>1. CASE \E t \in CfgThreads : cfgPc[t] = "fill"
  <2>1. PICK t \in CfgThreads : cfgPc[t] = "fill"
    BY <1>1
  <2> QED
    BY <2>1, CommittedIs, CommittedThen
<1>2. CASE ~\E t \in CfgThreads : cfgPc[t] = "fill"
  <2>1. /\ \A t \in CfgThreads : cfgPc[t] # "fill"
        /\ \A t \in CfgThreads : cfgPc'[t] # "fill"
    BY <1>2
  <2> QED
    BY <2>1, CommittedIs, CommittedThen
<1> QED
  BY <1>1, <1>2

\* Only the last byte of a write changes what the file stands for: by its call.
LEMMA FillCommits ==
  ASSUME MarksAreNoObjects, CallsAreKnown, CfgBasics, CfgBasics', NEW t \in CfgThreads, CfgFill(t)
  PROVE  /\ IsObject(Committed) /\ Committed = cfgSeen[t].before
         /\ cfgCall[t] \in CfgCalls /\ Apply(Committed, cfgCall[t]) # Refused
         /\ Committed' = Apply(Committed, cfgCall[t]) /\ Committed' = cfgSeen[t].value
<1>1. /\ cfgPc[t] = "fill" /\ cfgFile'.content = cfgSeen[t].value
      /\ cfgPc' = [cfgPc EXCEPT ![t] = "written"]
  BY DEF CfgFill, CfgGo, Written
<1>2. /\ cfgCall[t] \in CfgCalls /\ IsObject(cfgSeen[t].before) /\ cfgSeen[t].value # Refused
      /\ cfgSeen[t].value = Apply(cfgSeen[t].before, cfgCall[t])
  BY <1>1 DEF CfgBasics, CfgWrites
<1>3. IsObject(cfgSeen[t].value)
  BY <1>2, ApplyIsObject
<1>4. Committed = cfgSeen[t].before
  BY <1>1, CommittedIs DEF CfgBasics
<1>5. \A s \in CfgThreads : cfgPc'[s] # "fill"
  <2>1. \A s \in CfgThreads : s # t => cfgPc[s] # "fill"
    BY <1>1, OneInLock DEF CfgBasics
  <2> QED
    BY <1>1, <2>1 DEF CfgBasics, CfgTypeOK
<1>6. Committed' = cfgSeen[t].value
  BY <1>1, <1>3, <1>5, CommittedThen DEF CfgBasics, MarksAreNoObjects, Parsed
<1> QED
  BY <1>2, <1>4, <1>6

\* Every step of a thread leaves what the file stands for alone, but for the
\* last byte of a write and a fault in the middle of one.
LEMMA StepCommits ==
  ASSUME MarksAreNoObjects, CallsAreKnown, CfgBasics, CfgBasics', NEW t \in CfgThreads, CfgStep(t)
  PROVE  \/ Committed' = Committed /\ cfgLost' = cfgLost
         \/ CfgFill(t) /\ cfgLost' = cfgLost
         \/ cfgLost' = TRUE /\ Committed' \in {EmptyObject, Torn}
<1>1. /\ \A s \in CfgThreads : s # t => cfgSeen'[s] = cfgSeen[s] /\ cfgPc'[s] = cfgPc[s]
      /\ CfgTypeOK /\ CfgTypeOK' /\ DOMAIN cfgPc = CfgThreads
      /\ cfgPc[t] = "fill" => cfgFile.content \in {Blank, Torn}
      /\ cfgPc[t] = "truncate" => cfgFile.content # Torn /\ cfgSeen[t].before = Parsed(cfgFile.content)
  BY ShapeKept DEF CfgBasics, CfgTypeOK, CfgWrites
<1>2. Parsed(Blank) = EmptyObject /\ Parsed(Torn) = Torn /\ Parsed(NoFile) = EmptyObject
  BY ConfigAssumption DEF Parsed
<1>3. cfgPc[t] \in {"truncate", "fill"} => \A s \in CfgThreads : s # t => cfgPc[s] # "fill"
  BY <1>1, OneInLock
<1>4. CASE CfgFill(t)
  BY <1>4 DEF CfgFill, cfgOutside
<1>5. CASE CfgTruncate(t)
  <2>1. /\ cfgPc[t] = "truncate" /\ cfgPc'[t] = "fill" /\ cfgSeen' = cfgSeen /\ cfgLost' = cfgLost
    BY <1>1, <1>5 DEF CfgTruncate, CfgGo, cfgOutside
  <2>2. \A s \in CfgThreads : cfgPc[s] # "fill"
    BY <1>3, <2>1
  <2>3. Committed = Parsed(cfgFile.content) /\ Committed' = cfgSeen[t].before
    BY <1>1, <2>1, <2>2, CommittedIs, CommittedThen
  <2> QED
    BY <1>1, <2>1, <2>3
<1>6. CASE CfgFillPart(t)
  <2>1. /\ cfgPc[t] = "fill" /\ cfgPc'[t] = "fill" /\ cfgSeen' = cfgSeen /\ cfgLost' = cfgLost
    BY <1>1, <1>6 DEF CfgFillPart, CfgGo, cfgOutside
  <2>2. Committed = cfgSeen[t].before /\ Committed' = cfgSeen[t].before
    BY <1>1, <2>1, CommittedIs, CommittedThen
  <2> QED
    BY <2>1, <2>2
<1>7. CASE CfgWriteFails(t)
  <2>1. /\ cfgFile' = cfgFile /\ cfgPc'[t] = "idle" /\ cfgPc[t] \in {"truncate", "fill"}
        /\ cfgLost' = (cfgLost \/ cfgPc[t] = "fill")
    BY <1>1, <1>7 DEF CfgWriteFails, CfgFinish, CfgGo, HalfWritten
  <2>2. CASE cfgPc[t] = "fill"
    <3>1. \A s \in CfgThreads : cfgPc'[s] # "fill"
      BY <1>1, <1>3, <2>1
    <3>2. Committed' = Parsed(cfgFile.content)
      BY <1>1, <2>1, <3>1, CommittedThen
    <3>3. cfgLost' = TRUE
      BY <2>1, <2>2
    <3> QED
      BY <1>1, <1>2, <2>2, <3>2, <3>3
  <2>3. CASE cfgPc[t] = "truncate"
    <3>1. /\ \A s \in CfgThreads : cfgPc'[s] # "fill"
          /\ \A s \in CfgThreads : cfgPc[s] # "fill"
      BY <1>1, <1>3, <2>1, <2>3
    <3>2. Committed' = Parsed(cfgFile.content) /\ Committed = Parsed(cfgFile.content)
      BY <1>1, <2>1, <3>1, CommittedIs, CommittedThen
    <3>3. cfgLost' = cfgLost
      <4>1. cfgLost \in BOOLEAN
        BY <1>1 DEF CfgTypeOK
      <4> QED
        BY <2>1, <2>3, <4>1
    <3> QED
      BY <3>2, <3>3
  <2> QED
    BY <2>1, <2>2, <2>3
<1>8. CASE ~CfgFill(t) /\ ~CfgTruncate(t) /\ ~CfgFillPart(t) /\ ~CfgWriteFails(t)
  <2>1. cfgPc[t] # "fill" /\ cfgPc'[t] # "fill" /\ cfgLost' = cfgLost
    <3>1. cfgLost' = cfgLost /\ cfgPc[t] # "fill"
      BY <1>8 DEF CfgStep, CfgOpen, CfgStat, CfgUseCache, CfgStale, CfgRestat, CfgReread, CfgRereadTorn,
         CfgInstall, CfgBegin, CfgBeginToken, CfgChange, CfgRefuse, CfgInstallWritten, CfgGo, CfgEnter,
         CfgFinish, cfgOutside
    <3> QED
      BY <1>1, <1>8, <3>1, ToInstall
  <2>2. Parsed(cfgFile'.content) = Parsed(cfgFile.content)
    <3>0. cfgFile' = cfgFile \/ OpenOrCreate
      BY <1>8 DEF CfgStep, CfgOpen, CfgStat, CfgUseCache, CfgStale, CfgRestat, CfgReread, CfgRereadTorn,
         CfgInstall, CfgBegin, CfgBeginToken, CfgChange, CfgRefuse, CfgInstallWritten, cfgDisk
    <3>1. cfgFile' = cfgFile \/ (cfgFile.content = NoFile /\ cfgFile' = Written(Blank))
      BY <3>0 DEF OpenOrCreate
    <3> QED
      BY <1>2, <3>1 DEF Written
  <2>3. \A s \in CfgThreads : /\ cfgPc'[s] = "fill" <=> cfgPc[s] = "fill"
                              /\ cfgPc[s] = "fill" => cfgSeen'[s].before = cfgSeen[s].before
    BY <1>1, <2>1
  <2> QED
    BY <1>1, <2>1, <2>2, <2>3, CommittedKept
<1> QED
  BY <1>4, <1>5, <1>6, <1>7, <1>8

\* The same of a crash: only that of a half-writer's process loses the object.
LEMMA CrashCommits ==
  ASSUME CfgBasics, CfgBasics', NEW p \in CfgProcs, CfgCrash(p)
  PROVE  \/ Committed' = Committed /\ cfgLost' = cfgLost
         \/ cfgLost' = TRUE /\ Committed' \in {EmptyObject, Torn}
<1>1. /\ \A t \in CfgThreads :
            /\ CfgProcOf[t] = p => cfgPc'[t] = "idle"
            /\ CfgProcOf[t] # p => cfgPc'[t] = cfgPc[t] /\ cfgSeen'[t] = cfgSeen[t]
      /\ cfgFile' = cfgFile /\ CfgTypeOK /\ CfgTypeOK'
  BY CrashKeepsBasics DEF CfgBasics, CfgCrash
<1>2. cfgLost' = (cfgLost \/ \E t \in CfgThreads : CfgProcOf[t] = p /\ cfgPc[t] = "fill")
  <2>1. cfgLost' = (cfgLost \/ \E t \in {s \in CfgThreads : CfgProcOf[s] = p} : HalfWritten(t))
    BY DEF CfgCrash
  <2> QED
    BY <2>1 DEF HalfWritten
<1>3. CASE \E t \in CfgThreads : CfgProcOf[t] = p /\ cfgPc[t] = "fill"
  <2>1. PICK t \in CfgThreads : CfgProcOf[t] = p /\ cfgPc[t] = "fill"
    BY <1>3
  <2>2. \A s \in CfgThreads : cfgPc'[s] # "fill"
    BY <1>1, <2>1, OneInLock
  <2>3. Committed' = Parsed(cfgFile.content) /\ cfgFile.content \in {Blank, Torn}
    BY <1>1, <2>1, <2>2, CommittedThen DEF CfgBasics, CfgWrites
  <2> QED
    BY <1>2, <1>3, <2>3 DEF Parsed
<1>4. CASE ~\E t \in CfgThreads : CfgProcOf[t] = p /\ cfgPc[t] = "fill"
  <2>1. cfgLost' = cfgLost
    <3>1. cfgLost \in BOOLEAN
      BY <1>1 DEF CfgTypeOK
    <3> QED
      BY <1>2, <1>4, <3>1
  <2>2. Parsed(cfgFile'.content) = Parsed(cfgFile.content)
    BY <1>1
  <2>3. \A s \in CfgThreads : /\ cfgPc'[s] = "fill" <=> cfgPc[s] = "fill"
                              /\ cfgPc[s] = "fill" => cfgSeen'[s].before = cfgSeen[s].before
    BY <1>1, <1>4
  <2> QED
    BY <1>1, <2>1, <2>2, <2>3, CommittedKept
<1> QED
  BY <1>3, <1>4

\* So every step changes it by one call, loses it, or leaves it alone.
LEMMA NextCommits ==
  ASSUME MarksAreNoObjects, CallsAreKnown, CfgBasics, CfgBasics', [CfgNext]_cfgVars
  PROVE  \/ Committed' = Committed /\ cfgLost' = cfgLost
         \/ \E t \in CfgThreads : CfgFill(t) /\ cfgLost' = cfgLost
         \/ cfgLost' = TRUE /\ Committed' \in {EmptyObject, Torn}
<1>1. CASE CfgTick \/ UNCHANGED cfgVars
  <2>1. UNCHANGED <<cfgFile, cfgPc, cfgSeen, cfgLost>>
    BY <1>1 DEF CfgTick, cfgVars, cfgDisk
  <2> QED
    BY <2>1 DEF Committed, HalfWritten, Parsed
<1>2. ASSUME NEW t \in CfgThreads, CfgStep(t)
      PROVE  \/ Committed' = Committed /\ cfgLost' = cfgLost
             \/ CfgFill(t) /\ cfgLost' = cfgLost
             \/ cfgLost' = TRUE /\ Committed' \in {EmptyObject, Torn}
  BY <1>2, StepCommits
<1> QED
  BY <1>1, <1>2, CrashCommits DEF CfgNext

\* The promise speaks of the same mutators.
LEMMA StoreApplies ==
  ASSUME NEW obj, NEW call
  PROVE  Store!Apply(obj, call) = Apply(obj, call)
<1>1. ASSUME NEW o, NEW k, NEW v
      PROVE  /\ Store!Insert(o, k, v) = Insert(o, k, v) /\ Store!Without(o, k) = Without(o, k)
             /\ Store!Field(o, k, v) = Field(o, k, v) /\ (Store!Has(o, k) <=> Has(o, k))
             /\ Store!PatchObject(o, v) = PatchObject(o, v)
  BY DEF Store!Insert, Insert, Store!Over, Over, Store!Without, Without, Store!Field, Field,
         Store!Has, Has, Store!PatchObject, PatchObject
<1>2. /\ Store!Urls = Urls /\ Store!LegacyUrls = LegacyUrls /\ Store!Exclude = Exclude
      /\ Store!LegacyExclude = LegacyExclude /\ Store!Packages = Packages /\ Store!Commands = Commands
      /\ Store!EnvVars = EnvVars /\ Store!Token = Token /\ Store!EmptyObject = EmptyObject
      /\ Store!LegacyOf = LegacyOf /\ Store!TypedKeys = TypedKeys
  BY DEF Store!Urls, Urls, Store!LegacyUrls, LegacyUrls, Store!Exclude, Exclude, Store!LegacyExclude,
         LegacyExclude, Store!Packages, Packages, Store!Commands, Commands, Store!EnvVars, EnvVars,
         Store!Token, Token, Store!EmptyObject, EmptyObject, Store!LegacyOf, LegacyOf,
         Store!TypedKeys, TypedKeys
<1>3. ASSUME NEW o, NEW v
      PROVE  /\ Store!ReadBaseUrls(o) = ReadBaseUrls(o)
             /\ Store!WriteBaseUrls(o, v) = WriteBaseUrls(o, v)
             /\ Store!AddAllowedBaseUrl(o, v) = AddAllowedBaseUrl(o, v)
             /\ Store!RemoveAllowedBaseUrl(o, v) = RemoveAllowedBaseUrl(o, v)
  BY <1>1, <1>2 DEF Store!ReadBaseUrls, ReadBaseUrls, Store!WriteBaseUrls, WriteBaseUrls,
         Store!AddAllowedBaseUrl, AddAllowedBaseUrl, Store!RemoveAllowedBaseUrl, RemoveAllowedBaseUrl
<1>4. ASSUME NEW o, NEW k, NEW v
      PROVE  /\ Store!SetEnvVar(o, k, v) = SetEnvVar(o, k, v)
             /\ Store!RegisterCommand(o, k, v) = RegisterCommand(o, k, v)
             /\ Store!DeregisterCommand(o, k) = DeregisterCommand(o, k)
             /\ Store!EnsureToken(o, v) = EnsureToken(o, v)
  BY <1>1, <1>2 DEF Store!SetEnvVar, SetEnvVar, Store!RegisterCommand, RegisterCommand,
         Store!DeregisterCommand, DeregisterCommand, Store!EnsureToken, EnsureToken
<1>5. ASSUME NEW o, NEW v
      PROVE  /\ Store!RegisterPackage(o, v) = RegisterPackage(o, v)
             /\ Store!UnregisterPackage(o, v) = UnregisterPackage(o, v)
  BY <1>1, <1>2 DEF Store!RegisterPackage, RegisterPackage, Store!UnregisterPackage, UnregisterPackage
<1>6. ASSUME NEW o
      PROVE  Store!Validate(o) <=> Validate(o)
  BY <1>1, <1>2, <1>3 DEF Store!Validate, Validate, Store!ValidFields, ValidFields
<1>7. ASSUME NEW o, NEW changes
      PROVE  Store!UpdateObject(o, changes) = UpdateObject(o, changes)
  <2>1. Store!WithChanges(o, changes) = WithChanges(o, changes)
    BY DEF Store!WithChanges, WithChanges
  <2>2. ASSUME NEW before, NEW obj2, NEW k
        PROVE  Store!Folded(before, changes, obj2, k) = Folded(before, changes, obj2, k)
    BY <1>1, <1>2 DEF Store!Folded, Folded
  <2> QED
    BY <1>2, <1>6, <2>1, <2>2 DEF Store!UpdateObject, UpdateObject
<1> QED
  BY <1>1, <1>3, <1>4, <1>5, <1>7 DEF Store!Apply, Apply

\* The file starts out with one of the initial objects.
LEMMA CommittedInit ==
  ASSUME CfgInit
  PROVE  Committed = Parsed(cfgFile.content) /\ cfgFile.content \in CfgInitial /\ cfgLost = FALSE
BY DEF CfgInit, Committed, HalfWritten

\* Through all the steps of reads, truncations and writes, and through crashes,
\* the file is one object that calls change atomically: a write applies its
\* call to the text before it, so no update is lost, and only a fault in the
\* middle of a write can lose the object.
THEOREM CfgImplements ==
  ASSUME MarksAreNoObjects, CallsAreKnown
  PROVE  CfgSpec => ImplementsStore
<1>1. CfgInit => CfgBasics /\ Store!StoreInit
  BY BasicsInit, CommittedInit DEF Store!StoreInit
<1>2. CfgBasics /\ [CfgNext]_cfgVars => CfgBasics'
  BY BasicsKept
<1>3. CfgBasics /\ CfgBasics' /\ [CfgNext]_cfgVars
        => [Store!Write \/ Store!Lose]_<<Committed, cfgLost>>
  <2> SUFFICES ASSUME CfgBasics, CfgBasics', [CfgNext]_cfgVars
               PROVE  [Store!Write \/ Store!Lose]_<<Committed, cfgLost>>
    OBVIOUS
  <2>1. CASE Committed' = Committed /\ cfgLost' = cfgLost
    BY <2>1
  <2>2. ASSUME NEW t \in CfgThreads, CfgFill(t), cfgLost' = cfgLost
        PROVE  Store!Write
    <3>1. /\ IsObject(Committed) /\ cfgCall[t] \in CfgCalls
          /\ Apply(Committed, cfgCall[t]) # Refused /\ Committed' = Apply(Committed, cfgCall[t])
      BY <2>2, FillCommits
    <3>2. Committed # Torn
      BY <3>1 DEF MarksAreNoObjects
    <3> QED
      BY <2>2, <3>1, <3>2, StoreApplies DEF Store!Write
  <2>3. CASE cfgLost' = TRUE /\ Committed' \in {EmptyObject, Torn}
    BY <2>3 DEF Store!Lose, Store!EmptyObject, EmptyObject
  <2> QED
    BY <2>1, <2>2, <2>3, NextCommits
<1> QED
  BY <1>1, <1>2, <1>3, PTL DEF CfgSpec, ImplementsStore, Store!StoreSpec

------------------------------------------------------------------------------
(* The server token                                                          *)

\* A reading of the file: its token, if it has one, is that of the object.
Alike(obj) == Clean(obj) /\ TokenOf(obj) \in {Refused, TokenOf(Committed)}

\* Until a fault hits a half-written file, every reading and every cache has
\* the object's token or none, and every token handed out is the object's.
CfgTokens ==
    \/ cfgLost
    \/ /\ IsObject(Committed) /\ Clean(Committed)
       /\ \A token \in cfgTokens : token = TokenOf(Committed) /\ token # Refused
       /\ \A p \in CfgProcs : Alike(cfgCache[p].value)
       /\ \A t \in CfgThreads :
             /\ cfgPc[t] \in {"install", "written"} => Alike(cfgSeen[t].value)
             /\ cfgPc[t] = "written" /\ cfgCall[t].op = "token" => TokenOf(cfgSeen[t].value) # Refused

\* A token handed out of such a reading is the object's.
LEMMA ReturnsToken ==
  ASSUME NEW t \in CfgThreads, NEW value, Alike(value),
         \/ CfgReturn(t, Snapshot(value))
         \/ CfgReturn(t, value) /\ (cfgCall[t].op = "token" => TokenOf(value) # Refused),
         \A token \in cfgTokens : token = TokenOf(Committed) /\ token # Refused
  PROVE  \A token \in cfgTokens' : token = TokenOf(Committed) /\ token # Refused
<1>1. CASE CfgReturn(t, Snapshot(value))
  <2>1. Has(Snapshot(value), Token) => /\ Snapshot(value)[Token] = TokenOf(Committed)
                                       /\ Snapshot(value)[Token] # Refused
    BY SnapshotToken DEF Alike
  <2> QED
    BY <1>1, <2>1 DEF CfgReturn
<1>2. CASE CfgReturn(t, value) /\ (cfgCall[t].op = "token" => TokenOf(value) # Refused)
  <2>1. cfgCall[t].op = "token" /\ Has(value, Token) =>
           value[Token] = TokenOf(Committed) /\ value[Token] # Refused
    BY <1>2 DEF Alike, TokenOf, Field
  <2> QED
    BY <1>2, <2>1 DEF CfgReturn
<1> QED
  BY <1>1, <1>2

\* What is read from a file that parses is such a reading.
LEMMA ReadsAlike ==
  ASSUME CfgBasics, Clean(Committed), cfgFile.content # Torn
  PROVE  Alike(Parsed(cfgFile.content))
<1>1. CASE \E t \in CfgThreads : cfgPc[t] = "fill"
  BY <1>1, EmptyIs DEF CfgBasics, CfgWrites, Alike, Parsed
<1>2. CASE \A t \in CfgThreads : cfgPc[t] # "fill"
  BY <1>2, CommittedIs DEF CfgBasics, Alike
<1> QED
  BY <1>1, <1>2

\* The last byte of a write keeps a token, or brings the first one.
LEMMA FillKeepsToken ==
  ASSUME MarksAreNoObjects, CallsAreKnown, OnlyEnsureWritesToken, CfgBasics, CfgBasics',
         NEW t \in CfgThreads, CfgFill(t), Clean(Committed)
  PROVE  /\ TokenOf(Committed) # Refused => TokenOf(Committed') = TokenOf(Committed)
         /\ IsObject(Committed') /\ Clean(Committed') /\ Committed' = cfgSeen[t].value
         /\ cfgCall[t].op = "token" => TokenOf(Committed') # Refused
<1>1. /\ IsObject(Committed) /\ cfgCall[t] \in CfgCalls /\ Apply(Committed, cfgCall[t]) # Refused
      /\ Committed' = Apply(Committed, cfgCall[t]) /\ Committed' = cfgSeen[t].value
  BY FillCommits
<1> QED
  BY <1>1, ApplyIsObject, ApplyKeepsToken

\* Tokens handed out, readings and caches through a step of a thread.
LEMMA TokensKept ==
  ASSUME MarksAreNoObjects, CallsAreKnown, OnlyEnsureWritesToken, CfgBasics, CfgBasics',
         CfgTokens, NEW t \in CfgThreads, CfgStep(t)
  PROVE  CfgTokens'
<1> DEFINE Like(obj) == Clean(obj) /\ TokenOf(obj) \in {Refused, TokenOf(Committed')}
<1>1. CASE cfgLost' = TRUE
  BY <1>1 DEF CfgTokens
<1>2. ASSUME cfgLost' # TRUE
      PROVE  CfgTokens'
  <2>1. /\ cfgLost' = cfgLost /\ (Committed' = Committed \/ CfgFill(t)) /\ ~cfgLost
        /\ (CfgFill(t) \/ Committed' = Committed)
    BY <1>2, StepCommits DEF CfgBasics, CfgTypeOK
  <2>2. /\ IsObject(Committed) /\ Clean(Committed)
        /\ \A token \in cfgTokens : token = TokenOf(Committed) /\ token # Refused
        /\ \A p \in CfgProcs : Alike(cfgCache[p].value)
        /\ \A s \in CfgThreads :
              /\ cfgPc[s] \in {"install", "written"} => Alike(cfgSeen[s].value)
              /\ cfgPc[s] = "written" /\ cfgCall[s].op = "token" => TokenOf(cfgSeen[s].value) # Refused
    BY <2>1 DEF CfgTokens
  <2>3. /\ IsObject(Committed') /\ Clean(Committed')
        /\ TokenOf(Committed) # Refused => TokenOf(Committed') = TokenOf(Committed)
    BY <2>1, <2>2, FillKeepsToken
  <2>4. \A obj : Alike(obj) => Like(obj)
    BY <2>3 DEF Alike
  <2>5. /\ \A s \in CfgThreads : s # t => /\ cfgSeen'[s] = cfgSeen[s] /\ cfgCall'[s] = cfgCall[s]
                                          /\ cfgPc'[s] = cfgPc[s]
        /\ cfgPc'[t] = "written" => cfgCall'[t] = cfgCall[t]
        /\ DOMAIN cfgSeen = CfgThreads /\ DOMAIN cfgSeen[t] = {"value", "before", "stamp", "since"}
        /\ CfgProcOf[t] \in CfgProcs
    BY ShapeKept, CallKept, ConfigAssumption DEF CfgBasics, CfgShape
  <2>6. \A token \in cfgTokens' : token = TokenOf(Committed') /\ token # Refused
    <3>1. \A token \in cfgTokens' : token = TokenOf(Committed) /\ token # Refused
      <4>1. CASE CfgUseCache(t) \/ CfgRereadTorn(t)
        <5>1. CfgReturn(t, Snapshot(cfgCache[CfgProcOf[t]].value)) /\ Alike(cfgCache[CfgProcOf[t]].value)
          BY <2>2, <2>5, <4>1 DEF CfgUseCache, CfgRereadTorn
        <5> QED
          BY <2>2, <5>1, ReturnsToken
      <4>2. CASE CfgInstall(t)
        <5>1. CfgReturn(t, Snapshot(cfgSeen[t].value)) /\ Alike(cfgSeen[t].value)
          BY <2>2, <4>2 DEF CfgInstall, CfgFinish, CfgGo
        <5> QED
          BY <2>2, <5>1, ReturnsToken
      <4>3. CASE CfgInstallWritten(t)
        <5>1. /\ CfgReturn(t, cfgSeen[t].value) /\ Alike(cfgSeen[t].value)
              /\ cfgCall[t].op = "token" => TokenOf(cfgSeen[t].value) # Refused
          BY <2>2, <4>3 DEF CfgInstallWritten, CfgFinish, CfgGo
        <5> QED
          BY <2>2, <5>1, ReturnsToken
      <4>4. CASE ~(CfgUseCache(t) \/ CfgRereadTorn(t) \/ CfgInstall(t) \/ CfgInstallWritten(t))
        <5>1. cfgTokens' = cfgTokens
          BY <4>4 DEF CfgStep, CfgOpen, CfgStat, CfgStale, CfgRestat, CfgReread, CfgBegin,
             CfgBeginToken, CfgChange, CfgRefuse, CfgTruncate, CfgFillPart, CfgFill, CfgWriteFails
        <5> QED
          BY <2>2, <5>1
      <4> QED
        BY <4>1, <4>2, <4>3, <4>4
    <3> QED
      BY <2>3, <3>1
  <2>7. ASSUME NEW p \in CfgProcs
        PROVE  Like(cfgCache'[p].value)
    <3>1. CASE cfgCache'[p] = cfgCache[p]
      BY <2>2, <2>4, <3>1
    <3>2. CASE (CfgInstall(t) \/ CfgInstallWritten(t)) /\ cfgCache'[p].value = cfgSeen[t].value
      <4>1. cfgPc[t] \in {"install", "written"}
        BY <3>2 DEF CfgInstall, CfgInstallWritten, CfgFinish, CfgGo
      <4>2. Like(cfgSeen[t].value)
        BY <2>2, <2>4, <4>1
      <4> QED
        BY <3>2, <4>2
    <3> QED
      BY <3>1, <3>2, CacheKept
  <2>8. ASSUME NEW s \in CfgThreads
        PROVE  /\ cfgPc'[s] \in {"install", "written"} => Like(cfgSeen'[s].value)
               /\ cfgPc'[s] = "written" /\ cfgCall'[s].op = "token" => TokenOf(cfgSeen'[s].value) # Refused
    <3>1. CASE s # t
      BY <2>2, <2>4, <2>5, <3>1
    <3>2. CASE s = t /\ CfgReread(t)
      <4>1. cfgSeen'[t].value = Parsed(cfgFile.content) /\ cfgFile.content # Torn /\ cfgPc'[t] = "install"
        <5>1. DOMAIN cfgPc = CfgThreads
          BY DEF CfgBasics, CfgTypeOK
        <5> QED
          BY <2>5, <3>2, <5>1 DEF CfgReread, CfgGo
      <4>2. Like(Parsed(cfgFile.content))
        BY <2>2, <2>4, <4>1, ReadsAlike
      <4> QED
        BY <3>2, <4>1, <4>2
    <3>3. CASE s = t /\ CfgFill(t)
      <4>1. cfgSeen'[t].value = cfgSeen[t].value /\ cfgPc'[t] = "written"
        <5>1. DOMAIN cfgPc = CfgThreads
          BY DEF CfgBasics, CfgTypeOK
        <5> QED
          BY <2>5, <3>3, <5>1 DEF CfgFill, CfgGo
      <4>2. /\ Committed' = cfgSeen[t].value /\ Clean(Committed')
            /\ cfgCall[t].op = "token" => TokenOf(Committed') # Refused
        BY <2>2, <3>3, FillKeepsToken
      <4> QED
        BY <2>5, <3>3, <4>1, <4>2
    <3>4. CASE s = t /\ cfgPc'[t] \notin {"install", "written"}
      BY <3>4
    <3> QED
      BY <3>1, <3>2, <3>3, <3>4, ToInstall DEF CfgBasics
  <2> HIDE DEF Like
  <2> QED
    BY <2>3, <2>6, <2>7, <2>8 DEF CfgTokens, Alike, Like
<1> QED
  BY <1>1, <1>2

\* From the start, and through crashes and time.
LEMMA TokensAlways ==
  ASSUME MarksAreNoObjects, CallsAreKnown, OnlyEnsureWritesToken
  PROVE  /\ CfgInit => CfgTokens
         /\ CfgBasics /\ CfgBasics' /\ CfgTokens /\ [CfgNext]_cfgVars => CfgTokens'
<1>1. ASSUME CfgInit
      PROVE  CfgTokens
  <2>1. /\ \A t \in CfgThreads : cfgPc[t] = "idle"
        /\ \A p \in CfgProcs : cfgCache[p].value = Committed
        /\ cfgTokens = {} /\ Committed = Parsed(cfgFile.content) /\ cfgFile.content \in CfgInitial
    BY <1>1, CommittedInit DEF CfgInit
  <2>2. IsObject(Committed) /\ Clean(Committed)
    BY <2>1, EmptyIs DEF MarksAreNoObjects, OnlyEnsureWritesToken, Parsed
  <2> QED
    BY <2>1, <2>2 DEF CfgTokens, Alike
<1>2. ASSUME CfgBasics, CfgBasics', CfgTokens, [CfgNext]_cfgVars
      PROVE  CfgTokens'
  <2>1. ASSUME NEW t \in CfgThreads, CfgStep(t)
        PROVE  CfgTokens'
    BY <1>2, <2>1, TokensKept
  <2>2. ASSUME NEW p \in CfgProcs, CfgCrash(p)
        PROVE  CfgTokens'
    <3>1. CASE cfgLost' = TRUE
      BY <3>1 DEF CfgTokens
    <3>2. CASE Committed' = Committed /\ cfgLost' = cfgLost
      <4>1. /\ \A t \in CfgThreads : \/ cfgPc'[t] = "idle"
                                     \/ /\ cfgPc'[t] = cfgPc[t] /\ cfgSeen'[t] = cfgSeen[t]
                                        /\ cfgCall'[t] = cfgCall[t]
        BY <1>2, <2>2, CrashKeepsBasics
      <4>2. cfgTokens' = cfgTokens
            /\ \A q \in CfgProcs : cfgCache'[q] = cfgCache[q] \/ cfgCache'[q].value = EmptyObject
        <5>1. cfgTokens' = cfgTokens /\ cfgCache' = [cfgCache EXCEPT ![p] = CfgNoCache]
          BY <2>2 DEF CfgCrash
        <5>2. DOMAIN cfgCache = CfgProcs /\ CfgNoCache.value = EmptyObject
          BY <1>2 DEF CfgBasics, CfgShape, CfgNoCache
        <5> QED
          BY <5>1, <5>2
      <4>3. Alike(EmptyObject)
        BY EmptyIs DEF Alike
      <4> QED
        BY <1>2, <3>2, <4>1, <4>2, <4>3 DEF CfgTokens, Alike
    <3> QED
      BY <1>2, <2>2, <3>1, <3>2, CrashCommits
  <2>3. CASE CfgTick \/ UNCHANGED cfgVars
    <3>1. UNCHANGED <<cfgFile, cfgCache, cfgPc, cfgCall, cfgSeen, cfgTokens, cfgLost>>
      BY <2>3 DEF CfgTick, cfgVars, cfgDisk
    <3>2. Committed' = Committed
      BY <3>1 DEF Committed, HalfWritten, Parsed
    <3> QED
      BY <1>2, <3>1, <3>2 DEF CfgTokens, Alike
  <2> QED
    BY <1>2, <2>1, <2>2, <2>3 DEF CfgNext
<1> QED
  BY <1>1, <1>2

\* Every server token that was ever handed out is the same one, whatever
\* half-written text the callers met, as long as no fault hit the file in the
\* middle of a write and only ensure_server_token writes the token.
THEOREM CfgTokenStable ==
  ASSUME MarksAreNoObjects, CallsAreKnown, OnlyEnsureWritesToken
  PROVE  CfgSpec => []TokenIsStable
<1>1. CfgInit => CfgBasics /\ CfgTokens
  BY BasicsInit, TokensAlways
<1>2. CfgBasics /\ CfgTokens /\ [CfgNext]_cfgVars => (CfgBasics /\ CfgTokens)'
  BY BasicsKept, TokensAlways
<1>3. CfgTokens => TokenIsStable
  <2> SUFFICES ASSUME CfgTokens, ~cfgLost
               PROVE  Cardinality(cfgTokens) <= 1
    BY DEF TokenIsStable
  <2>1. cfgTokens \subseteq {TokenOf(Committed)}
    BY DEF CfgTokens
  <2>2. IsFiniteSet({TokenOf(Committed)}) /\ Cardinality({TokenOf(Committed)}) = 1
    BY FS_Singleton
  <2> QED
    BY <2>1, <2>2, FS_Subset
<1> QED
  BY <1>1, <1>2, <1>3, PTL DEF CfgSpec

------------------------------------------------------------------------------
(* Policy: the loop over two pointers, and what it decides                  *)

\* Where the loop's pointers are: the pattern's is past the last star, and
\* the text's is not before the end of what that star stands for.
Pointers(pattern, text) ==
  {s \in [p : 1 .. Len(pattern) + 1, t : 1 .. Len(text) + 1, star : 0 .. Len(pattern),
          mark : 1 .. Len(text) + 1] : s.star < s.p /\ s.mark <= s.t}
GlobHalts(pattern, text, s) == GlobStep(pattern, text, s) = s
GlobAccepts(pattern, text, s) ==
  s.t > Len(text) /\ \A i \in s.p .. Len(pattern) : pattern[i] = "*"

\* What one turn does.
LEMMA GlobTurn ==
  ASSUME NEW C, NEW pattern \in Seq(C), NEW text \in Seq(C), NEW s \in Pointers(pattern, text)
  PROVE  LET u == GlobStep(pattern, text, s) IN
         \/ u = s /\ s.t = Len(text) + 1
         \/ /\ s.p <= Len(pattern) /\ s.t <= Len(text) /\ pattern[s.p] \in {"?", text[s.t]}
            /\ u.p = s.p + 1 /\ u.t = s.t + 1 /\ u.star = s.star /\ u.mark = s.mark
         \/ /\ s.p <= Len(pattern) /\ s.t <= Len(text) /\ pattern[s.p] \notin {"?", text[s.t]}
            /\ pattern[s.p] = "*"
            /\ u.p = s.p + 1 /\ u.t = s.t /\ u.star = s.p /\ u.mark = s.t
         \/ /\ s.t <= Len(text)
            /\ s.p <= Len(pattern) => pattern[s.p] \notin {"*", "?", text[s.t]}
            /\ s.star # 0
            /\ u.p = s.star + 1 /\ u.t = s.mark + 1 /\ u.star = s.star /\ u.mark = s.mark + 1
         \/ /\ u = s /\ s.t <= Len(text) /\ s.star = 0
            /\ s.p <= Len(pattern) => pattern[s.p] \notin {"*", "?", text[s.t]}
<1> DEFINE P == Len(pattern)
           T == Len(text)
<1>1. P \in Nat /\ T \in Nat
  BY LenProperties
<1>2. /\ s \in [p : 1 .. P + 1, t : 1 .. T + 1, star : 0 .. P, mark : 1 .. T + 1]
      /\ s.t \in Nat /\ s.t <= T + 1
  BY <1>1 DEF Pointers
<1>3. s.t > T => s.t = T + 1
  BY <1>1, <1>2
<1>4. s.t > T \/ s.t <= T
  BY <1>1, <1>2
<1> HIDE DEF P, T
<1> QED
  BY <1>2, <1>3, <1>4 DEF GlobStep, P, T

\* The pointers stay where they belong.
LEMMA GlobStepTypes ==
  ASSUME NEW C, NEW pattern \in Seq(C), NEW text \in Seq(C), NEW s \in Pointers(pattern, text)
  PROVE  GlobStep(pattern, text, s) \in Pointers(pattern, text)
<1> DEFINE P == Len(pattern)
           T == Len(text)
           u == GlobStep(pattern, text, s)
           Places == [p : 1 .. P + 1, t : 1 .. T + 1, star : 0 .. P, mark : 1 .. T + 1]
<1>1. P \in Nat /\ T \in Nat
  BY LenProperties
<1>2. s \in Places /\ s.star < s.p /\ s.mark <= s.t
  BY DEF Pointers
<1>3. /\ s.p \in 1 .. P + 1 /\ s.t \in 1 .. T + 1 /\ s.star \in 0 .. P /\ s.mark \in 1 .. T + 1
      /\ s.p \in Nat /\ s.t \in Nat /\ s.star \in Nat /\ s.mark \in Nat
  BY <1>1, <1>2
<1>4. \/ u = s
      \/ s.t <= T /\ s.p <= P /\ u = [s EXCEPT !.p = @ + 1, !.t = @ + 1]
      \/ s.t <= T /\ s.p <= P /\ u = [p |-> s.p + 1, t |-> s.t, star |-> s.p, mark |-> s.t]
      \/ s.t <= T /\ u = [s EXCEPT !.p = s.star + 1, !.t = s.mark + 1, !.mark = s.mark + 1]
  BY <1>1, <1>3 DEF GlobStep
<1> HIDE DEF P, T, u
<1>5. CASE s.t <= T /\ s.p <= P /\ u = [s EXCEPT !.p = @ + 1, !.t = @ + 1]
  <2>1. s.p + 1 \in 1 .. P + 1 /\ s.t + 1 \in 1 .. T + 1 /\ s.star < s.p + 1 /\ s.mark <= s.t + 1
    BY <1>1, <1>2, <1>3, <1>5
  <2>2. /\ u \in Places /\ u.p = s.p + 1 /\ u.t = s.t + 1 /\ u.star = s.star /\ u.mark = s.mark
    BY <1>2, <1>5, <2>1
  <2> QED
    BY <2>1, <2>2 DEF Pointers, P, T, u
<1>6. CASE s.t <= T /\ s.p <= P /\ u = [p |-> s.p + 1, t |-> s.t, star |-> s.p, mark |-> s.t]
  <2>1. s.p + 1 \in 1 .. P + 1 /\ s.p \in 0 .. P /\ s.p < s.p + 1 /\ s.t <= s.t
    BY <1>1, <1>3, <1>6
  <2>2. u \in Places /\ u.p = s.p + 1 /\ u.t = s.t /\ u.star = s.p /\ u.mark = s.t
    BY <1>3, <1>6, <2>1
  <2> QED
    BY <2>1, <2>2 DEF Pointers, P, T, u
<1>7. CASE s.t <= T /\ u = [s EXCEPT !.p = s.star + 1, !.t = s.mark + 1, !.mark = s.mark + 1]
  <2>1. s.star + 1 \in 1 .. P + 1 /\ s.mark + 1 \in 1 .. T + 1 /\ s.star < s.star + 1 /\ s.mark + 1 <= s.mark + 1
    BY <1>1, <1>2, <1>3, <1>7
  <2>2. u \in Places /\ u.p = s.star + 1 /\ u.t = s.mark + 1 /\ u.star = s.star /\ u.mark = s.mark + 1
    BY <1>2, <1>7, <2>1
  <2> QED
    BY <2>1, <2>2 DEF Pointers, P, T, u
<1> QED
  BY <1>4, <1>5, <1>6, <1>7 DEF u

\* How many turns are left at most.
GlobLeft(pattern, text, s) ==
  ((Len(pattern) - s.star) + (Len(text) + 1 - s.mark)) * (Len(text) + 2) + (Len(text) + 1 - s.t)

\* What a product loses when a factor does.
LEMMA ProductGoesDown ==
  ASSUME NEW w \in Nat, NEW a \in Nat, NEW b \in Nat, a < b
  PROVE  a * w \in Nat /\ a * w + w <= b * w
<1>1. PICK d \in Nat : b = a + 1 + d
  <2>1. b - a - 1 \in Nat /\ b = a + 1 + (b - a - 1)
    OBVIOUS
  <2> QED
    BY <2>1
<1>2. b * w = a * w + w + d * w /\ d * w \in Nat /\ a * w \in Nat
  <2>1. (a + 1 + d) * w = a * w + w + d * w
    OBVIOUS
  <2>2. d * w \in Nat /\ a * w \in Nat
    OBVIOUS
  <2> QED
    BY <1>1, <2>1, <2>2
<1> QED
  BY <1>2

\* Each turn that is not the last takes one of them.
LEMMA GlobGoesDown ==
  ASSUME NEW C, NEW pattern \in Seq(C), NEW text \in Seq(C), NEW s \in Pointers(pattern, text)
  PROVE  /\ GlobLeft(pattern, text, s) \in Nat
         /\ \/ GlobHalts(pattern, text, s)
            \/ GlobLeft(pattern, text, GlobStep(pattern, text, s)) < GlobLeft(pattern, text, s)
<1> DEFINE P == Len(pattern)
           T == Len(text)
           u == GlobStep(pattern, text, s)
           Far(x) == (P - x.star) + (T + 1 - x.mark)
<1>1. P \in Nat /\ T \in Nat
  BY LenProperties
<1>a. /\ \A k \in 0 .. P, m \in 1 .. T + 1, t \in 1 .. T + 1 :
           (P - k) + (T + 1 - m) \in Nat /\ T + 1 - t \in 0 .. T
      /\ \A k, l \in 0 .. P, m, n \in 1 .. T + 1 :
           (k < l /\ m <= n) \/ (k = l /\ m < n) => (P - l) + (T + 1 - n) < (P - k) + (T + 1 - m)
  <2> HIDE DEF P, T
  <2> QED
    BY <1>1
<1>2. ASSUME NEW x \in Pointers(pattern, text)
      PROVE  /\ x.p \in 1 .. P + 1 /\ x.t \in 1 .. T + 1 /\ x.star \in 0 .. P /\ x.mark \in 1 .. T + 1
             /\ x.star < x.p /\ x.mark <= x.t
             /\ Far(x) \in Nat /\ T + 1 - x.t \in 0 .. T
             /\ GlobLeft(pattern, text, x) = Far(x) * (T + 2) + (T + 1 - x.t)
  <2>1. /\ x.p \in 1 .. P + 1 /\ x.t \in 1 .. T + 1 /\ x.star \in 0 .. P /\ x.mark \in 1 .. T + 1
        /\ x.star < x.p /\ x.mark <= x.t
    BY DEF Pointers
  <2>2. Far(x) \in Nat /\ T + 1 - x.t \in 0 .. T
    <3> HIDE DEF P, T
    <3> QED
      BY <1>a, <2>1
  <2> QED
    BY <2>1, <2>2 DEF GlobLeft
<1>3. u \in Pointers(pattern, text)
  BY GlobStepTypes
<1>4. \/ u = s
      \/ Far(u) = Far(s) /\ u.t = s.t + 1
      \/ Far(u) < Far(s)
  <2> HIDE DEF P, T, u, Far
  <2>1. \/ u = s
        \/ u.t = s.t + 1 /\ u.star = s.star /\ u.mark = s.mark
        \/ u.t = s.t /\ u.star = s.p /\ u.mark = s.t
        \/ u.star = s.star /\ u.mark = s.mark + 1
    BY GlobTurn DEF u
  <2>2. CASE u.t = s.t + 1 /\ u.star = s.star /\ u.mark = s.mark
    BY <2>2 DEF Far
  <2>3. CASE u.t = s.t /\ u.star = s.p /\ u.mark = s.t
    <3>1. s.star < s.p /\ s.mark <= s.t /\ u.star \in 0 .. P /\ u.mark \in 1 .. T + 1
      BY <1>2, <1>3
    <3>2. s.star \in 0 .. P /\ s.mark \in 1 .. T + 1 /\ s.star < u.star /\ s.mark <= u.mark
      BY <1>2, <2>3, <3>1
    <3>3. (P - u.star) + (T + 1 - u.mark) < (P - s.star) + (T + 1 - s.mark)
      BY <1>a, <3>1, <3>2
    <3> QED
      BY <3>3 DEF Far
  <2>4. CASE u.star = s.star /\ u.mark = s.mark + 1
    <3>1. u.star \in 0 .. P /\ u.mark \in 1 .. T + 1 /\ s.star \in 0 .. P /\ s.mark \in 1 .. T + 1
      BY <1>2, <1>3
    <3>2. s.mark < s.mark + 1
      BY <1>1, <3>1
    <3> QED
      BY <1>a, <2>4, <3>1, <3>2 DEF Far
  <2> QED
    BY <2>1, <2>2, <2>3, <2>4
<1> DEFINE a == Far(u)
           b == Far(s)
           c == T + 1 - u.t
           d == T + 1 - s.t
           w == T + 2
<1>5. a \in Nat /\ b \in Nat /\ c \in 0 .. T /\ d \in 0 .. T /\ w = T + 2 /\ w \in Nat
  BY <1>1, <1>2, <1>3
<1>6. GlobLeft(pattern, text, s) = b * w + d /\ GlobLeft(pattern, text, u) = a * w + c
  BY <1>2, <1>3
<1>7. u.t = s.t + 1 => c < d
  BY <1>1, <1>2
<1>8. u = s \/ (a = b /\ c < d) \/ a < b
  <2> HIDE DEF P, T, u, Far
  <2>1. CASE u = s
    BY <2>1
  <2>2. CASE Far(u) = Far(s) /\ u.t = s.t + 1
    BY <1>7, <2>2
  <2>3. CASE Far(u) < Far(s)
    BY <2>3
  <2> QED
    BY <1>4, <2>1, <2>2, <2>3
<1>9. b * w \in Nat /\ a * w \in Nat
  <2> HIDE DEF a, b, w
  <2> QED
    BY <1>5
<1>10. a < b => a * w + w <= b * w
  <2> HIDE DEF a, b, w
  <2> QED
    BY <1>5, ProductGoesDown
<1> HIDE DEF a, b, c, d, w
<1>11. b * w + d \in Nat
  BY <1>5, <1>9
<1>12. CASE a < b
  <2> DEFINE x == a * w
             y == b * w
  <2>1. x \in Nat /\ y \in Nat /\ x + w <= y
    BY <1>9, <1>10, <1>12
  <2> HIDE DEF x, y
  <2>2. x + c < y + d
    BY <1>1, <1>5, <2>1
  <2> QED
    BY <1>6, <1>11, <2>2 DEF x, y, u
<1>13. CASE a = b /\ c < d
  <2>1. a * w + c < b * w + d
    BY <1>1, <1>5, <1>9, <1>13
  <2> QED
    BY <1>6, <1>11, <2>1 DEF u
<1>14. CASE u = s
  BY <1>6, <1>11, <1>14 DEF GlobHalts, u
<1> QED
  BY <1>8, <1>12, <1>13, <1>14

\* The loop as a function: it goes from the first state one turn at a time and
\* never leaves a set that holds this state and that no turn leaves.
LEMMA GlobLoop ==
  ASSUME NEW pattern, NEW text, NEW I, GlobStart \in I,
         \A s \in I : GlobStep(pattern, text, s) \in I
  PROVE  \E loop \in [Nat -> I] :
           /\ loop[0] = GlobStart
           /\ \A n \in Nat : loop[n + 1] = GlobStep(pattern, text, loop[n])
           /\ GlobMatches(pattern, text) <=> GlobAccepts(pattern, text, loop[GlobTurns(pattern, text)])
<1> DEFINE Loop(f) == f = [n \in Nat |-> IF n = 0 THEN GlobStart ELSE GlobStep(pattern, text, f[n - 1])]
           loop == CHOOSE f : Loop(f)
<1>1. PICK H \in [I -> I] : \A s \in I : H[s] = GlobStep(pattern, text, s)
  <2>1. [s \in I |-> GlobStep(pattern, text, s)] \in [I -> I]
    OBVIOUS
  <2> QED
    BY <2>1
<1>2. PICK f \in [Nat -> I] : f[0] = GlobStart /\ \A n \in Nat : f[n + 1] = H[f[n]]
  BY Iteration
<1>3. ASSUME NEW n \in Nat
      PROVE  f[n] = IF n = 0 THEN GlobStart ELSE GlobStep(pattern, text, f[n - 1])
  <2>1. CASE n = 0
    BY <1>2, <2>1
  <2>2. CASE n # 0
    <3>1. n - 1 \in Nat /\ n - 1 + 1 = n
      BY <2>2
    <3>2. f[n - 1] \in I /\ f[n - 1 + 1] = H[f[n - 1]]
      BY <1>2, <3>1
    <3> QED
      BY <1>1, <2>2, <3>1, <3>2
  <2> QED
    BY <2>1, <2>2
<1>4. f = [n \in Nat |-> f[n]]
  OBVIOUS
<1>5. Loop(f)
  BY <1>3, <1>4
<1>6. Loop(loop)
  <2> HIDE DEF Loop
  <2> QED
    BY <1>5
<1>7. /\ loop[0] = GlobStart
      /\ \A n \in Nat : loop[n + 1] = GlobStep(pattern, text, loop[n])
  <2> HIDE DEF loop
  <2>1. loop[0] = GlobStart
    BY <1>6
  <2>2. ASSUME NEW n \in Nat PROVE loop[n + 1] = GlobStep(pattern, text, loop[n])
    <3>1. n + 1 \in Nat /\ n + 1 # 0 /\ n + 1 - 1 = n
      OBVIOUS
    <3> QED
      BY <1>6, <3>1
  <2> QED
    BY <2>1, <2>2
<1>8. GlobMatches(pattern, text) <=> GlobAccepts(pattern, text, loop[GlobTurns(pattern, text)])
  BY DEF GlobMatches, GlobAccepts
<1>9. loop \in [Nat -> I]
  <2> DEFINE Same == {n \in Nat : loop[n] \in I}
  <2> HIDE DEF loop
  <2>1. ASSUME NEW n \in Nat PROVE n \in Same
    <3>1. 0 \in Same
      BY <1>7
    <3>2. \A k \in 0 .. n - 1 : k \in Same => k + 1 \in Same
      BY <1>7
    <3>3. 0 .. n \subseteq Same
      <4> HIDE DEF Same
      <4> QED
        BY <3>1, <3>2, Induction
    <3> QED
      BY <3>3
  <2>2. loop = [n \in Nat |-> loop[n]]
    BY <1>6
  <2> QED
    BY <2>1, <2>2
<1> HIDE DEF loop
<1> QED
  BY <1>7, <1>8, <1>9

\* The loop ends in a state from which it does not go on, and which is in any
\* set of pointers that holds the first state and that no turn leaves; the
\* answer is read off that state.
LEMMA GlobRuns ==
  ASSUME NEW C, NEW pattern \in Seq(C), NEW text \in Seq(C),
         NEW I, I \subseteq Pointers(pattern, text), GlobStart \in I,
         \A s \in I : GlobStep(pattern, text, s) \in I
  PROVE  \E s \in I : /\ GlobHalts(pattern, text, s)
                      /\ GlobMatches(pattern, text) <=> GlobAccepts(pattern, text, s)
<1> DEFINE N == GlobTurns(pattern, text)
<1>1. PICK loop \in [Nat -> I] :
        /\ loop[0] = GlobStart
        /\ \A n \in Nat : loop[n + 1] = GlobStep(pattern, text, loop[n])
        /\ GlobMatches(pattern, text) <=> GlobAccepts(pattern, text, loop[N])
  BY GlobLoop
<1>3. /\ loop[0] = GlobStart
      /\ \A n \in Nat : loop[n + 1] = GlobStep(pattern, text, loop[n])
  BY <1>1
<1>4. GlobMatches(pattern, text) <=> GlobAccepts(pattern, text, loop[N])
  BY <1>1
<1> DEFINE P == Len(pattern)
           T == Len(text)
           Left(n) == GlobLeft(pattern, text, loop[n])
<1>5. P \in Nat /\ T \in Nat
  BY LenProperties
<1>6. N \in Nat /\ GlobLeft(pattern, text, GlobStart) = N - 2 /\ N - 2 \in Nat
  <2>1. /\ GlobStart.star = 0 /\ GlobStart.mark = 1 /\ GlobStart.t = 1
        /\ GlobLeft(pattern, text, GlobStart) = ((P - 0) + (T + 1 - 1)) * (T + 2) + (T + 1 - 1)
    BY DEF GlobStart, GlobLeft
  <2>2. N = (P + T + 1) * (T + 2)
    BY DEF GlobTurns
  <2>3. ((P - 0) + (T + 1 - 1)) = P + T /\ T + 1 - 1 = T
    BY <1>5
  <2>4. (P + T + 1) * (T + 2) = (P + T) * (T + 2) + T + 2
    BY <1>5
  <2>5. (P + T) * (T + 2) \in Nat
    BY <1>5
  <2> DEFINE k == (P + T) * (T + 2)
  <2>6. N = k + T + 2 /\ GlobLeft(pattern, text, GlobStart) = k + T /\ k \in Nat
    BY <2>1, <2>2, <2>3, <2>4, <2>5
  <2>7. k + T + 2 \in Nat /\ k + T + 2 - 2 = k + T /\ k + T \in Nat
    <3> HIDE DEF k, T
    <3> QED
      BY <1>5, <2>6
  <2> HIDE DEF k, N, P, T
  <2> QED
    BY <2>6, <2>7
<1> DEFINE Good == {n \in Nat : loop[n] \in I /\ (GlobHalts(pattern, text, loop[n]) \/ Left(n) + n <= N - 2)}
<1>7. 0 \in Good
  <2>1. Left(0) + 0 <= N - 2
    BY <1>3, <1>6
  <2> QED
    BY <1>3, <2>1
<1>8. ASSUME NEW n \in 0 .. N - 1, n \in Good PROVE n + 1 \in Good
  <2> HIDE DEF N
  <2>0. n \in Nat
    BY <1>6
  <2>1. n + 1 \in Nat /\ loop[n] \in I /\ loop[n + 1] = GlobStep(pattern, text, loop[n])
    BY <1>3, <1>8, <2>0
  <2>2. loop[n + 1] \in I
    BY <2>1
  <2>3. CASE GlobHalts(pattern, text, loop[n])
    BY <2>1, <2>2, <2>3 DEF GlobHalts
  <2>4. CASE ~GlobHalts(pattern, text, loop[n])
    <3>1. Left(n) + n <= N - 2
      BY <1>8, <2>4
    <3>2. Left(n + 1) < Left(n) /\ Left(n) \in Nat /\ Left(n + 1) \in Nat
      BY <2>1, <2>2, <2>4, GlobGoesDown
    <3>3. Left(n + 1) + (n + 1) <= N - 2
      <4> HIDE DEF Left, N, T
      <4> QED
        BY <1>5, <1>6, <2>0, <2>1, <3>1, <3>2
    <3> QED
      BY <2>1, <2>2, <3>3
  <2> QED
    BY <2>3, <2>4
<1>9. N \in Good
  <2> HIDE DEF Good
  <2>1. 0 .. N \subseteq Good
    BY <1>6, <1>7, <1>8, Induction
  <2> QED
    BY <1>6, <2>1
<1>10. loop[N] \in I /\ GlobHalts(pattern, text, loop[N])
  <2>1. loop[N] \in I /\ Left(N) \in Nat
    BY <1>9, GlobGoesDown
  <2>2. ~(Left(N) + N <= N - 2)
    <3> HIDE DEF Left, N, T
    <3> QED
      BY <1>5, <1>6, <2>1
  <2> QED
    BY <1>9, <2>1, <2>2
<1> QED
  BY <1>4, <1>10

----------------------------------------------------------------------------
\* One more character of the pattern takes one more of the text.
LEMMA CutOneMore ==
  ASSUME NEW C, NEW pattern \in Seq(C), NEW text \in Seq(C), NEW i \in Nat, NEW j \in Nat,
         pattern[i + 1] = "*" \/ pattern[i + 1] \in {"?", text[j + 1]},
         Cuts(pattern, text, i, j) # {}
  PROVE  Cuts(pattern, text, i + 1, j + 1) # {}
<1>1. PICK c \in Cuts(pattern, text, i, j) : TRUE
  OBVIOUS
<1>2. /\ c \in [0 .. i -> 0 .. j] /\ c[0] = 0 /\ c[i] = j
      /\ \A k \in 1 .. i : IF pattern[k] = "*" THEN c[k - 1] <= c[k]
                           ELSE c[k] = c[k - 1] + 1 /\ pattern[k] \in {"?", text[c[k]]}
  BY <1>1 DEF Cuts
<1> DEFINE d == [k \in 0 .. i + 1 |-> IF k = i + 1 THEN j + 1 ELSE c[k]]
<1>3. d \in [0 .. i + 1 -> 0 .. j + 1] /\ d[0] = 0 /\ d[i + 1] = j + 1 /\ d[i] = j
  <2>1. ASSUME NEW k \in 0 .. i + 1 PROVE d[k] \in 0 .. j + 1
    <3>1. CASE k = i + 1
      BY <3>1
    <3>2. CASE k # i + 1
      <4>1. k \in 0 .. i
        BY <3>2
      <4> QED
        BY <1>2, <3>2, <4>1
    <3> QED
      BY <3>1, <3>2
  <2> QED
    BY <1>2, <2>1
<1>4. ASSUME NEW k \in 1 .. i + 1
      PROVE  IF pattern[k] = "*" THEN d[k - 1] <= d[k]
             ELSE d[k] = d[k - 1] + 1 /\ pattern[k] \in {"?", text[d[k]]}
  <2>1. CASE k = i + 1
    <3>1. k - 1 = i /\ d[k - 1] = j /\ d[k] = j + 1
      BY <1>3, <2>1
    <3> QED
      BY <2>1, <3>1
  <2>2. CASE k # i + 1
    <3>1. k \in 1 .. i /\ k - 1 \in 0 .. i /\ k \in 0 .. i + 1 /\ k - 1 \in 0 .. i + 1 /\ k - 1 # i + 1
      BY <2>2
    <3>2. d[k] = c[k] /\ d[k - 1] = c[k - 1]
      BY <2>2, <3>1
    <3> QED
      BY <1>2, <3>1, <3>2
  <2> QED
    BY <2>1, <2>2
<1> HIDE DEF d
<1>5. d \in Cuts(pattern, text, i + 1, j + 1)
  BY <1>3, <1>4 DEF Cuts
<1> QED
  BY <1>5

\* A star may end where the character before it ends, and any text further on.
LEMMA CutStars ==
  ASSUME NEW C, NEW pattern \in Seq(C), NEW text \in Seq(C), NEW i \in Nat, NEW m \in Nat, i <= m,
         NEW j \in Nat, \A k \in i + 1 .. m : pattern[k] = "*",
         Cuts(pattern, text, i, j) # {}
  PROVE  Cuts(pattern, text, m, j) # {}
<1>1. PICK c \in Cuts(pattern, text, i, j) : TRUE
  OBVIOUS
<1>2. /\ c \in [0 .. i -> 0 .. j] /\ c[0] = 0 /\ c[i] = j
      /\ \A k \in 1 .. i : IF pattern[k] = "*" THEN c[k - 1] <= c[k]
                           ELSE c[k] = c[k - 1] + 1 /\ pattern[k] \in {"?", text[c[k]]}
  BY <1>1 DEF Cuts
<1> DEFINE d == [k \in 0 .. m |-> IF k <= i THEN c[k] ELSE j]
<1>3. /\ d \in [0 .. m -> 0 .. j] /\ d[0] = 0 /\ d[m] = j
      /\ \A k \in 0 .. i : d[k] = c[k]
      /\ \A k \in i .. m : d[k] = j
  <2>1. \A k \in 0 .. m : k <= i => k \in 0 .. i
    OBVIOUS
  <2>2. \A k \in 0 .. i : k \in 0 .. m /\ k <= i
    OBVIOUS
  <2>3. \A k \in i .. m : k \in 0 .. m /\ (k <= i => k = i)
    OBVIOUS
  <2>4. d \in [0 .. m -> 0 .. j] /\ \A k \in 0 .. i : d[k] = c[k]
    BY <1>2, <2>1, <2>2
  <2>5. \A k \in i .. m : d[k] = j
    BY <1>2, <2>3
  <2>6. 0 \in 0 .. i /\ m \in i .. m
    OBVIOUS
  <2> QED
    BY <1>2, <2>4, <2>5, <2>6
<1>4. ASSUME NEW k \in 1 .. m
      PROVE  IF pattern[k] = "*" THEN d[k - 1] <= d[k]
             ELSE d[k] = d[k - 1] + 1 /\ pattern[k] \in {"?", text[d[k]]}
  <2> HIDE DEF d
  <2>1. CASE k <= i
    <3>1. k \in 1 .. i /\ k \in 0 .. i /\ k - 1 \in 0 .. i
      BY <2>1
    <3> QED
      BY <1>2, <1>3, <3>1
  <2>2. CASE ~(k <= i)
    <3>1. k \in i + 1 .. m /\ k \in i .. m /\ k - 1 \in i .. m
      BY <2>2
    <3>2. pattern[k] = "*" /\ d[k] = j /\ d[k - 1] = j
      BY <1>3, <3>1
    <3> QED
      BY <3>2
  <2> QED
    BY <2>1, <2>2
<1> HIDE DEF d
<1>5. d \in Cuts(pattern, text, m, j)
  BY <1>3, <1>4 DEF Cuts
<1> QED
  BY <1>5

\* A star at the end takes in one more character.
LEMMA CutStarOn ==
  ASSUME NEW C, NEW pattern \in Seq(C), NEW text \in Seq(C), NEW i \in Nat \ {0}, NEW j \in Nat,
         pattern[i] = "*", Cuts(pattern, text, i, j) # {}
  PROVE  Cuts(pattern, text, i, j + 1) # {}
<1>1. PICK c \in Cuts(pattern, text, i, j) : TRUE
  OBVIOUS
<1>2. /\ c \in [0 .. i -> 0 .. j] /\ c[0] = 0 /\ c[i] = j
      /\ \A k \in 1 .. i : IF pattern[k] = "*" THEN c[k - 1] <= c[k]
                           ELSE c[k] = c[k - 1] + 1 /\ pattern[k] \in {"?", text[c[k]]}
  BY <1>1 DEF Cuts
<1> DEFINE d == [c EXCEPT ![i] = j + 1]
<1>3. /\ d \in [0 .. i -> 0 .. j + 1] /\ d[0] = 0 /\ d[i] = j + 1
      /\ \A k \in 0 .. i - 1 : d[k] = c[k] /\ c[k] \in 0 .. j
  BY <1>2
<1>4. ASSUME NEW k \in 1 .. i
      PROVE  IF pattern[k] = "*" THEN d[k - 1] <= d[k]
             ELSE d[k] = d[k - 1] + 1 /\ pattern[k] \in {"?", text[d[k]]}
  <2> HIDE DEF d
  <2>1. CASE k = i
    <3>1. k - 1 \in 0 .. i - 1
      BY <2>1
    <3>2. d[k - 1] \in 0 .. j /\ d[k] = j + 1 /\ pattern[k] = "*"
      BY <1>3, <2>1, <3>1
    <3> QED
      BY <3>2
  <2>2. CASE k # i
    <3>1. k \in 0 .. i - 1 /\ k - 1 \in 0 .. i - 1
      BY <2>2
    <3> QED
      BY <1>2, <1>3, <3>1
  <2> QED
    BY <2>1, <2>2
<1> HIDE DEF d
<1>5. d \in Cuts(pattern, text, i, j + 1)
  BY <1>3, <1>4 DEF Cuts
<1> QED
  BY <1>5

\* The first state of the loop.
LEMMA GlobStartPlace ==
  ASSUME NEW C, NEW pattern \in Seq(C), NEW text \in Seq(C)
  PROVE  GlobStart \in Pointers(pattern, text)
<1> DEFINE P == Len(pattern)
           T == Len(text)
<1>1. P \in Nat /\ T \in Nat
  BY LenProperties
<1> HIDE DEF P, T
<1>2. GlobStart \in [p : 1 .. P + 1, t : 1 .. T + 1, star : 0 .. P, mark : 1 .. T + 1]
  BY <1>1 DEF GlobStart
<1>3. GlobStart.star < GlobStart.p /\ GlobStart.mark <= GlobStart.t
  BY DEF GlobStart
<1> QED
  BY <1>2, <1>3 DEF Pointers, P, T

\* What the loop has passed of the pattern stands for what it has passed of
\* the text, and what it has passed up to the last star for the text before
\* the mark.
PassedStandsFor(pattern, text, s) ==
  /\ Cuts(pattern, text, s.p - 1, s.t - 1) # {}
  /\ s.star # 0 => pattern[s.star] = "*" /\ Cuts(pattern, text, s.star, s.mark - 1) # {}

\* A pattern matches only what it stands for.
LEMMA GlobSound ==
  ASSUME NEW C, NEW pattern \in Seq(C), NEW text \in Seq(C), GlobMatches(pattern, text)
  PROVE  Denotes(pattern, text)
<1> DEFINE I == {s \in Pointers(pattern, text) : PassedStandsFor(pattern, text, s)}
           P == Len(pattern)
           T == Len(text)
<1>1. P \in Nat /\ T \in Nat
  BY LenProperties
<1>2. GlobStart \in I
  <2> DEFINE c == [k \in 0 .. 0 |-> 0]
  <2>1. c \in [0 .. 0 -> 0 .. 0] /\ c[0] = 0
    OBVIOUS
  <2> HIDE DEF c
  <2>2. c \in Cuts(pattern, text, 0, 0)
    BY <2>1 DEF Cuts
  <2>3. GlobStart.p - 1 = 0 /\ GlobStart.t - 1 = 0 /\ GlobStart.star = 0
    BY DEF GlobStart
  <2> QED
    BY <2>2, <2>3, GlobStartPlace DEF PassedStandsFor
<1>3. ASSUME NEW s \in I PROVE GlobStep(pattern, text, s) \in I
  <2> DEFINE u == GlobStep(pattern, text, s)
  <2>1. /\ s \in Pointers(pattern, text) /\ PassedStandsFor(pattern, text, s)
        /\ s.p \in Nat /\ s.t \in Nat /\ s.star \in Nat /\ s.mark \in Nat
        /\ 1 <= s.p /\ 1 <= s.t /\ 1 <= s.mark
    <3>1. s \in Pointers(pattern, text) /\ PassedStandsFor(pattern, text, s)
      OBVIOUS
    <3>2. s.p \in 1 .. P + 1 /\ s.t \in 1 .. T + 1 /\ s.star \in 0 .. P /\ s.mark \in 1 .. T + 1
      BY <3>1 DEF Pointers
    <3> HIDE DEF P, T
    <3> QED
      BY <1>1, <3>1, <3>2
  <2>2. u \in Pointers(pattern, text)
    BY <2>1, GlobStepTypes
  <2>3. s.p - 1 \in Nat /\ s.t - 1 \in Nat /\ s.p - 1 + 1 = s.p /\ s.t - 1 + 1 = s.t
    BY <2>1
  <2>4. s.mark - 1 \in Nat /\ s.mark - 1 + 1 = s.mark
    BY <2>1
  <2>5. CASE u = s
    BY <2>5
  <2>6. CASE /\ pattern[s.p] \in {"?", text[s.t]}
             /\ u.p = s.p + 1 /\ u.t = s.t + 1 /\ u.star = s.star /\ u.mark = s.mark
    <3>1. Cuts(pattern, text, s.p, s.t) # {}
      BY <2>1, <2>3, <2>6, CutOneMore DEF PassedStandsFor
    <3>2. u.p - 1 = s.p /\ u.t - 1 = s.t
      BY SMTT(30), <2>1, <2>6
    <3> QED
      BY <2>1, <2>2, <2>6, <3>1, <3>2 DEF PassedStandsFor
  <2>7. CASE /\ pattern[s.p] = "*"
             /\ u.p = s.p + 1 /\ u.t = s.t /\ u.star = s.p /\ u.mark = s.t
    <3>1. \A k \in s.p - 1 + 1 .. s.p : pattern[k] = "*"
      <4>1. \A k \in s.p .. s.p : k = s.p
        BY <2>1
      <4> QED
        BY <2>3, <2>7, <4>1
    <3>2. Cuts(pattern, text, s.p, s.t - 1) # {}
      <4>1. s.p - 1 <= s.p
        BY <2>1
      <4> QED
        BY <2>1, <2>3, <3>1, <4>1, CutStars DEF PassedStandsFor
    <3>3. u.p - 1 = s.p
      BY <2>1, <2>7
    <3> QED
      BY <2>2, <2>7, <3>2, <3>3 DEF PassedStandsFor
  <2>8. CASE /\ s.star # 0
             /\ u.p = s.star + 1 /\ u.t = s.mark + 1 /\ u.star = s.star /\ u.mark = s.mark + 1
    <3>1. Cuts(pattern, text, s.star, s.mark) # {}
      BY <2>1, <2>4, <2>8, CutStarOn DEF PassedStandsFor
    <3>2. u.p - 1 = s.star /\ u.t - 1 = s.mark /\ u.mark - 1 = s.mark
      BY <2>1, <2>8
    <3> QED
      BY <2>1, <2>2, <2>8, <3>1, <3>2 DEF PassedStandsFor
  <2>9. \/ u = s
        \/ /\ pattern[s.p] \in {"?", text[s.t]}
           /\ u.p = s.p + 1 /\ u.t = s.t + 1 /\ u.star = s.star /\ u.mark = s.mark
        \/ /\ pattern[s.p] = "*"
           /\ u.p = s.p + 1 /\ u.t = s.t /\ u.star = s.p /\ u.mark = s.t
        \/ /\ s.star # 0
           /\ u.p = s.star + 1 /\ u.t = s.mark + 1 /\ u.star = s.star /\ u.mark = s.mark + 1
    BY <2>1, GlobTurn
  <2> HIDE DEF I
  <2> QED
    BY <2>5, <2>6, <2>7, <2>8, <2>9
<1>4. PICK s \in I : GlobAccepts(pattern, text, s)
  <2>1. I \subseteq Pointers(pattern, text)
    OBVIOUS
  <2> HIDE DEF I
  <2> QED
    BY <1>2, <1>3, <2>1, GlobRuns
<1>5. /\ s.p - 1 \in Nat /\ s.p - 1 <= P /\ s.p - 1 + 1 = s.p /\ s.t - 1 = T
      /\ Cuts(pattern, text, s.p - 1, s.t - 1) # {}
  <2>1. s \in Pointers(pattern, text) /\ Cuts(pattern, text, s.p - 1, s.t - 1) # {}
    BY DEF PassedStandsFor
  <2>2. s.p \in 1 .. P + 1 /\ s.t \in 1 .. T + 1 /\ s.t > T
    BY <1>4, <2>1 DEF Pointers, GlobAccepts
  <2> HIDE DEF P, T
  <2>3. s.p - 1 \in Nat /\ s.p - 1 <= P /\ s.p - 1 + 1 = s.p /\ s.t - 1 = T
    BY <1>1, <2>2
  <2> QED
    BY <2>1, <2>3
<1>6. \A k \in s.p - 1 + 1 .. P : pattern[k] = "*"
  BY <1>4, <1>5 DEF GlobAccepts
<1>7. Cuts(pattern, text, P, T) # {}
  <2> HIDE DEF P, T, I
  <2> QED
    BY <1>1, <1>5, <1>6, CutStars
<1> QED
  BY <1>7 DEF Denotes

\* In a cut a piece never ends before an earlier one.
LEMMA CutRises ==
  ASSUME NEW C, NEW pattern \in Seq(C), NEW text \in Seq(C), NEW P \in Nat, NEW T \in Nat,
         NEW c \in Cuts(pattern, text, P, T), NEW i \in 0 .. P, NEW j \in i .. P
  PROVE  c[i] \in 0 .. T /\ c[j] \in 0 .. T /\ c[i] <= c[j]
<1>1. /\ c \in [0 .. P -> 0 .. T]
      /\ \A k \in 1 .. P : c[k - 1] <= c[k]
  <2>1. /\ c \in [0 .. P -> 0 .. T]
        /\ \A k \in 1 .. P : c[k - 1] <= c[k] \/ c[k] = c[k - 1] + 1
    BY DEF Cuts
  <2>2. ASSUME NEW k \in 1 .. P PROVE c[k - 1] <= c[k]
    <3>1. c[k - 1] \in 0 .. T /\ c[k] \in 0 .. T
      BY <2>1
    <3>2. CASE c[k] = c[k - 1] + 1
      BY <3>1, <3>2
    <3> QED
      BY <2>1, <3>2
  <2> QED
    BY <2>1, <2>2
<1>2. i \in Nat /\ j \in Nat /\ j - i \in Nat /\ i + (j - i) = j
  OBVIOUS
<1> DEFINE Above == {k \in 0 .. j - i : c[i] <= c[i + k]}
<1>3. 0 \in Above
  BY <1>1, <1>2
<1>4. ASSUME NEW k \in 0 .. (j - i) - 1, k \in Above PROVE k + 1 \in Above
  <2>1. /\ i + k + 1 \in 1 .. P /\ i + k + 1 - 1 = i + k /\ k + 1 \in 0 .. j - i /\ i + (k + 1) = i + k + 1
        /\ i + k \in 0 .. P
    BY <1>2
  <2>2. c[i] \in 0 .. T /\ c[i + k] \in 0 .. T /\ c[i + k + 1] \in 0 .. T
    BY <1>1, <2>1
  <2>3. c[i] <= c[i + k] /\ c[i + k] <= c[i + k + 1]
    BY <1>1, <1>4, <2>1
  <2>4. c[i] <= c[i + k + 1]
    BY <2>2, <2>3
  <2> QED
    BY <2>1, <2>4
<1>5. 0 .. j - i \subseteq Above
  <2> HIDE DEF Above
  <2> QED
    BY <1>2, <1>3, <1>4, Induction
<1>6. j - i \in Above
  <2> HIDE DEF Above
  <2> QED
    BY <1>2, <1>5
<1> QED
  BY <1>1, <1>2, <1>6

\* Between two stars the pieces have one character each.
LEMMA CutGoesInStep ==
  ASSUME NEW C, NEW pattern \in Seq(C), NEW text \in Seq(C), NEW P \in Nat, NEW T \in Nat,
         NEW c \in Cuts(pattern, text, P, T), NEW i \in 0 .. P, NEW j \in i .. P,
         \A k \in i + 1 .. j : pattern[k] # "*"
  PROVE  c[j] = c[i] + (j - i)
<1>1. /\ c \in [0 .. P -> 0 .. T]
      /\ \A k \in 1 .. P : pattern[k] # "*" => c[k] = c[k - 1] + 1
  BY DEF Cuts
<1>2. i \in Nat /\ j \in Nat /\ j - i \in Nat /\ i + (j - i) = j
  OBVIOUS
<1> DEFINE InStep == {k \in 0 .. j - i : c[i + k] = c[i] + k}
<1>3. 0 \in InStep
  BY <1>1, <1>2
<1>4. ASSUME NEW k \in 0 .. (j - i) - 1, k \in InStep PROVE k + 1 \in InStep
  <2>1. /\ i + k + 1 \in 1 .. P /\ i + k + 1 - 1 = i + k /\ k + 1 \in 0 .. j - i /\ i + (k + 1) = i + k + 1
        /\ i + k \in 0 .. P /\ i + k + 1 \in i + 1 .. j
    BY <1>2
  <2>2. c[i] \in 0 .. T /\ c[i + k] \in 0 .. T
    BY <1>1, <2>1
  <2>3. c[i + k] = c[i] + k /\ c[i + k + 1] = c[i + k] + 1
    BY <1>1, <1>4, <2>1
  <2>4. \A x \in 0 .. T : x + k + 1 = x + (k + 1)
    BY <1>2
  <2>5. c[i + k + 1] = c[i] + (k + 1)
    BY <2>2, <2>3, <2>4, Zenon
  <2> QED
    BY <2>1, <2>5
<1>5. 0 .. j - i \subseteq InStep
  <2> HIDE DEF InStep
  <2> QED
    BY <1>2, <1>3, <1>4, Induction
<1>6. j - i \in InStep
  <2> HIDE DEF InStep
  <2> QED
    BY <1>2, <1>5
<1> QED
  BY <1>2, <1>6

\* Against a cut of the whole pattern: the last star cannot end before the
\* mark, and after it the pointers have gone on in step over no other star.
AtTurn(pattern, c, p, t, star, mark) ==
  /\ t + star + 1 = mark + p
  /\ \A k \in star + 1 .. p - 1 : pattern[k] # "*"
  /\ mark - 1 <= c[star]
  /\ star = 0 => mark = 1
OnTheWay(pattern, c, s) == AtTurn(pattern, c, s.p, s.t, s.star, s.mark)

\* The cut has not fallen behind the pointers.
LEMMA CutKeepsUp ==
  ASSUME NEW C, NEW pattern \in Seq(C), NEW text \in Seq(C),
         NEW c \in Cuts(pattern, text, Len(pattern), Len(text)),
         NEW s \in Pointers(pattern, text), OnTheWay(pattern, c, s)
  PROVE  /\ s.p - 1 \in 0 .. Len(pattern) /\ c[s.p - 1] \in 0 .. Len(text) /\ s.t - 1 <= c[s.p - 1]
         /\ c[s.star] \in 0 .. Len(text)
         /\ c[s.star] = s.mark - 1 => c[s.p - 1] = s.t - 1
<1> DEFINE P == Len(pattern)
           T == Len(text)
<1>1. P \in Nat /\ T \in Nat
  BY LenProperties
<1>2. /\ s.p \in 1 .. P + 1 /\ s.t \in 1 .. T + 1 /\ s.star \in 0 .. P /\ s.mark \in 1 .. T + 1
      /\ s.star < s.p
  BY DEF Pointers
<1>3. s.p - 1 \in 0 .. P /\ s.p - 1 \in s.star .. P /\ s.star \in 0 .. P
  <2> HIDE DEF P, T
  <2> QED
    BY <1>1, <1>2
<1>4. \A k \in s.star + 1 .. s.p - 1 : pattern[k] # "*"
  BY DEF OnTheWay, AtTurn
<1>5. c \in [0 .. P -> 0 .. T]
  BY DEF Cuts
<1>6. c[s.p - 1] = c[s.star] + ((s.p - 1) - s.star)
  <2> HIDE DEF P, T
  <2>1. c \in Cuts(pattern, text, P, T)
    BY DEF P, T
  <2>2. ASSUME NEW i \in 0 .. P, NEW j \in i .. P, \A k \in i + 1 .. j : pattern[k] # "*"
        PROVE  c[j] = c[i] + (j - i)
    BY <1>1, <2>1, <2>2, CutGoesInStep
  <2> QED
    BY <1>3, <1>4, <2>2
<1> DEFINE a == s.p
           t == s.t
           k == s.star
           m == s.mark
           x == c[s.star]
           y == c[s.p - 1]
<1>7. /\ a \in Nat /\ t \in Nat /\ k \in Nat /\ m \in Nat /\ x \in 0 .. T /\ y \in 0 .. T
      /\ y = x + ((a - 1) - k) /\ m - 1 <= x /\ t + k + 1 = m + a
  <2>1. x \in 0 .. T /\ y \in 0 .. T
    BY <1>3, <1>5
  <2>2. a \in Nat /\ t \in Nat /\ k \in Nat /\ m \in Nat
    <3> HIDE DEF P, T
    <3> QED
      BY <1>1, <1>2
  <2> QED
    BY <1>6, <2>1, <2>2 DEF OnTheWay, AtTurn
<1>8. t - 1 <= y /\ (x = m - 1 => y = t - 1)
  <2> HIDE DEF P, T, a, t, k, m, x, y
  <2> QED
    BY <1>1, <1>7
<1> QED
  BY <1>3, <1>7, <1>8

\* Where the pattern does not go on, the last star has to end further on.
LEMMA StarEndsLater ==
  ASSUME NEW C, NEW pattern \in Seq(C), NEW text \in Seq(C),
         NEW c \in Cuts(pattern, text, Len(pattern), Len(text)),
         NEW s \in Pointers(pattern, text), OnTheWay(pattern, c, s), s.t <= Len(text),
         s.p <= Len(pattern) => pattern[s.p] \notin {"*", "?", text[s.t]}
  PROVE  s.mark <= c[s.star]
<1> DEFINE P == Len(pattern)
           T == Len(text)
<1>1. P \in Nat /\ T \in Nat
  BY LenProperties
<1>2. /\ s.p \in 1 .. P + 1 /\ s.t \in 1 .. T + 1 /\ s.star \in 0 .. P /\ s.mark \in 1 .. T + 1
  BY DEF Pointers
<1>3. /\ c[P] = T
      /\ \A k \in 1 .. P : pattern[k] # "*" => c[k] = c[k - 1] + 1 /\ pattern[k] \in {"?", text[c[k]]}
  BY DEF Cuts
<1>4. ASSUME c[s.star] = s.mark - 1 PROVE FALSE
  <2>1. c[s.p - 1] = s.t - 1
    BY <1>4, CutKeepsUp
  <2>2. CASE s.p <= P
    <3>1. s.p \in 1 .. P /\ s.t - 1 + 1 = s.t
      <4> HIDE DEF P, T
      <4> QED
        BY <1>1, <1>2, <2>2
    <3>2. c[s.p] = s.t /\ pattern[s.p] \in {"?", text[c[s.p]]}
      BY <1>3, <2>1, <2>2, <3>1
    <3> QED
      BY <2>2, <3>2
  <2>3. CASE ~(s.p <= P)
    <3>1. s.p - 1 = P
      <4> HIDE DEF P, T
      <4> QED
        BY <1>1, <1>2, <2>3
    <3>2. s.t - 1 = T
      BY <1>3, <2>1, <3>1
    <3> HIDE DEF P
    <3> QED
      BY <1>1, <1>2, <3>2
  <2> QED
    BY <2>2, <2>3
<1>5. c[s.star] \in 0 .. T /\ s.mark - 1 <= c[s.star]
  BY CutKeepsUp DEF OnTheWay, AtTurn
<1> HIDE DEF P, T
<1> QED
  BY SMTT(30), <1>1, <1>2, <1>4, <1>5

\* A pattern matches all it stands for, when the text has no star of its own.
LEMMA GlobComplete ==
  ASSUME NEW C, NEW pattern \in Seq(C), NEW text \in Seq(C), Denotes(pattern, text),
         \A k \in 1 .. Len(text) : text[k] # "*"
  PROVE  GlobMatches(pattern, text)
<1> DEFINE P == Len(pattern)
           T == Len(text)
<1>1. P \in Nat /\ T \in Nat
  BY LenProperties
<1>2. PICK c \in Cuts(pattern, text, P, T) : TRUE
  BY DEF Denotes
<1>3. /\ c \in [0 .. P -> 0 .. T] /\ c[0] = 0 /\ c[P] = T
      /\ \A k \in 1 .. P : pattern[k] # "*" => c[k] = c[k - 1] + 1
  BY <1>2 DEF Cuts
<1> DEFINE I == {s \in Pointers(pattern, text) : OnTheWay(pattern, c, s)}
<1>4. GlobStart \in I
  <2>1. OnTheWay(pattern, c, GlobStart)
    BY <1>3 DEF OnTheWay, AtTurn, GlobStart
  <2> QED
    BY <2>1, GlobStartPlace
<1>5. ASSUME NEW s \in I PROVE GlobStep(pattern, text, s) \in I
  <2> DEFINE u == GlobStep(pattern, text, s)
  <2>1. s \in Pointers(pattern, text) /\ OnTheWay(pattern, c, s)
    OBVIOUS
  <2>2. /\ s.p \in 1 .. P + 1 /\ s.t \in 1 .. T + 1 /\ s.star \in 0 .. P /\ s.mark \in 1 .. T + 1
        /\ s.p \in Int /\ s.t \in Int /\ s.star \in Int /\ s.mark \in Int
    <3>1. s.p \in 1 .. P + 1 /\ s.t \in 1 .. T + 1 /\ s.star \in 0 .. P /\ s.mark \in 1 .. T + 1
      BY <2>1 DEF Pointers
    <3> HIDE DEF P, T
    <3> QED
      BY <1>1, <3>1
  <2>3. u \in Pointers(pattern, text)
    BY <2>1, GlobStepTypes
  <2>4. CASE u = s
    BY <2>4
  <2>5. CASE /\ s.t <= T /\ pattern[s.p] \in {"?", text[s.t]}
             /\ u.p = s.p + 1 /\ u.t = s.t + 1 /\ u.star = s.star /\ u.mark = s.mark
    <3>1. pattern[s.p] # "*"
      <4>1. s.t \in 1 .. T
        <5> HIDE DEF T
        <5> QED
          BY <1>1, <2>2, <2>5
      <4> QED
        BY <2>5, <4>1
    <3>2. \A k \in s.star + 1 .. (s.p + 1) - 1 : k \in s.star + 1 .. s.p - 1 \/ k = s.p
      BY <2>2
    <3>3. s.t + 1 + s.star + 1 = s.mark + (s.p + 1)
      BY SMTT(30), <2>1, <2>2 DEF OnTheWay, AtTurn
    <3>4. \A k \in s.star + 1 .. (s.p + 1) - 1 : pattern[k] # "*"
      BY <2>1, <3>1, <3>2 DEF OnTheWay, AtTurn
    <3>5. s.mark - 1 <= c[s.star] /\ (s.star = 0 => s.mark = 1)
      BY <2>1 DEF OnTheWay, AtTurn
    <3>6. AtTurn(pattern, c, s.p + 1, s.t + 1, s.star, s.mark)
      <4> HIDE DEF P, T, u, I
      <4> QED
        BY <3>3, <3>4, <3>5, Zenon DEF AtTurn
    <3>7. OnTheWay(pattern, c, u)
      BY <2>5, <3>6, Zenon DEF OnTheWay
    <3> QED
      BY <2>3, <3>7
  <2>6. CASE /\ s.p <= P /\ u.p = s.p + 1 /\ u.t = s.t /\ u.star = s.p /\ u.mark = s.t
    <3>1. s.t - 1 <= c[s.p - 1] /\ c[s.p - 1] \in 0 .. T
      BY <1>2, <2>1, CutKeepsUp
    <3>2. c[s.p] \in 0 .. T /\ c[s.p - 1] <= c[s.p]
      <4>1. s.p - 1 \in 0 .. P /\ s.p \in s.p - 1 .. P
        <5> HIDE DEF P, T
        <5> QED
          BY <1>1, <2>2, <2>6
      <4> HIDE DEF P, T, u, I
      <4> QED
        BY <1>1, <1>2, <4>1, CutRises
    <3>3. s.t - 1 <= c[s.p]
      <4> HIDE DEF P, T, u, I
      <4> QED
        BY SMTT(30), <1>1, <2>2, <3>1, <3>2
    <3>4. s.t + s.p + 1 = s.t + (s.p + 1) /\ s.p # 0 /\ \A k \in s.p + 1 .. (s.p + 1) - 1 : FALSE
      <4> HIDE DEF P, T
      <4> QED
        BY <1>1, <2>2
    <3>5. OnTheWay(pattern, c, u)
      <4>1. \A k \in s.p + 1 .. (s.p + 1) - 1 : pattern[k] # "*"
        BY <3>4
      <4>2. s.p = 0 => s.t = 1
        BY <3>4
      <4>3. AtTurn(pattern, c, s.p + 1, s.t, s.p, s.t)
        <5> HIDE DEF P, T, u, I
        <5> QED
          BY <3>3, <3>4, <4>1, <4>2, Zenon DEF AtTurn
      <4> QED
        BY <2>6, <4>3, Zenon DEF OnTheWay
    <3> QED
      BY <2>3, <3>5
  <2>7. CASE /\ s.t <= T /\ s.star # 0
             /\ s.p <= P => pattern[s.p] \notin {"*", "?", text[s.t]}
             /\ u.p = s.star + 1 /\ u.t = s.mark + 1 /\ u.star = s.star /\ u.mark = s.mark + 1
    <3>1. s.mark <= c[s.star]
      BY <1>2, <2>1, <2>7, StarEndsLater
    <3>2. /\ s.mark + 1 + s.star + 1 = s.mark + 1 + (s.star + 1) /\ (s.mark + 1) - 1 = s.mark
          /\ \A k \in s.star + 1 .. (s.star + 1) - 1 : FALSE
      BY <2>2
    <3>3. OnTheWay(pattern, c, u)
      <4>1. \A k \in s.star + 1 .. (s.star + 1) - 1 : pattern[k] # "*"
        BY <3>2
      <4>2. (s.mark + 1) - 1 <= c[s.star]
        BY <3>1, <3>2
      <4>3. s.star = 0 => s.mark + 1 = 1
        BY <2>7
      <4>4. AtTurn(pattern, c, s.star + 1, s.mark + 1, s.star, s.mark + 1)
        <5> HIDE DEF P, T, u, I
        <5> QED
          BY <3>2, <4>1, <4>2, <4>3, Zenon DEF AtTurn
      <4> QED
        BY <2>7, <4>4, Zenon DEF OnTheWay
    <3> QED
      BY <2>3, <3>3
  <2>8. \/ u = s
        \/ /\ s.t <= T /\ pattern[s.p] \in {"?", text[s.t]}
           /\ u.p = s.p + 1 /\ u.t = s.t + 1 /\ u.star = s.star /\ u.mark = s.mark
        \/ /\ s.p <= P /\ u.p = s.p + 1 /\ u.t = s.t /\ u.star = s.p /\ u.mark = s.t
        \/ /\ s.t <= T /\ s.star # 0
           /\ s.p <= P => pattern[s.p] \notin {"*", "?", text[s.t]}
           /\ u.p = s.star + 1 /\ u.t = s.mark + 1 /\ u.star = s.star /\ u.mark = s.mark + 1
    BY <2>1, GlobTurn
  <2> HIDE DEF I
  <2> QED
    BY <2>4, <2>5, <2>6, <2>7, <2>8
<1>6. PICK s \in I : /\ GlobHalts(pattern, text, s)
                     /\ GlobMatches(pattern, text) <=> GlobAccepts(pattern, text, s)
  <2>1. I \subseteq Pointers(pattern, text)
    OBVIOUS
  <2> HIDE DEF I
  <2> QED
    BY <1>4, <1>5, <2>1, GlobRuns
<1>7. /\ s \in Pointers(pattern, text) /\ OnTheWay(pattern, c, s)
      /\ s.p \in 1 .. P + 1 /\ s.t \in 1 .. T + 1 /\ s.star \in 0 .. P /\ s.mark \in 1 .. T + 1
  BY DEF Pointers
<1>8. s.t = T + 1
  <2>1. ASSUME s.t <= T, s.star = 0, s.p <= P => pattern[s.p] \notin {"*", "?", text[s.t]}
        PROVE  FALSE
    <3>1. s.mark <= c[0] /\ s.mark = 1
      BY <1>2, <1>7, <2>1, StarEndsLater DEF OnTheWay, AtTurn
    <3> QED
      BY <1>3, <3>1
  <2>2. ASSUME NEW v, v.p = s.p + 1 \/ v.mark = s.mark + 1, v = s PROVE FALSE
    <3>1. s.p \in Int /\ s.mark \in Int
      <4> HIDE DEF P, T
      <4> QED
        BY <1>1, <1>7
    <3> QED
      BY <2>2, <3>1
  <2> QED
    BY <1>6, <1>7, <2>1, <2>2, GlobTurn DEF GlobHalts
<1>9. ASSUME NEW k \in s.p .. P PROVE pattern[k] = "*"
  <2> SUFFICES ASSUME pattern[k] # "*" PROVE FALSE
    OBVIOUS
  <2>1. k \in 1 .. P /\ s.p - 1 \in 0 .. P /\ k - 1 \in s.p - 1 .. P
    <3> HIDE DEF P, T
    <3> QED
      BY <1>1, <1>7
  <2>2. s.t - 1 <= c[s.p - 1] /\ s.t - 1 = T
    <3>1. s.t - 1 <= c[s.p - 1]
      BY <1>2, <1>7, CutKeepsUp
    <3>2. s.t - 1 = T
      <4> HIDE DEF P, T
      <4> QED
        BY <1>1, <1>8
    <3> QED
      BY <3>1, <3>2
  <2>3. c[s.p - 1] <= c[k - 1] /\ c[s.p - 1] \in 0 .. T /\ c[k - 1] \in 0 .. T
    <3> HIDE DEF P, T, I
    <3> QED
      BY <1>1, <1>2, <2>1, CutRises
  <2>4. c[k] = c[k - 1] + 1 /\ c[k] \in 0 .. T
    BY <1>3, <2>1
  <2> HIDE DEF P, T, I
  <2> QED
    BY <1>1, <2>2, <2>3, <2>4
<1>10. GlobAccepts(pattern, text, s)
  <2>1. s.t > T
    <3> HIDE DEF P, T
    <3> QED
      BY <1>1, <1>8
  <2> QED
    BY <1>9, <2>1 DEF GlobAccepts
<1> QED
  BY <1>6, <1>10

\* For every pattern and every text: a glob matches what its pattern stands
\* for and nothing else, unless the text has a star of its own; then it still
\* matches nothing else.
THEOREM GlobLawHolds ==
  ASSUME NEW C, NEW pattern \in Seq(C), NEW text \in Seq(C)
  PROVE  GlobLaw(pattern, text)
<1>1. "*" \notin ToSet(text) => \A k \in 1 .. Len(text) : text[k] # "*"
  BY LenProperties DEF ToSet
<1> QED
  BY <1>1, GlobSound, GlobComplete DEF GlobLaw

\* For every set of rules and every action: more rules take no mark away, and
\* no edit of an action's capabilities takes away the mark that a rule for its
\* path or its type gives it.
THEOREM PolicyLawHolds ==
  ASSUME NEW C, NEW rules, NEW more, NEW action, NEW edited,
         \A r \in rules : r.path \in Seq(C), action.path \in Seq(C),
         action \in [path : Seq(C), name : STRING, type : STRING, capabilities : SUBSET STRING]
  PROVE  PolicyLaw(rules, more, action, edited)
<1> DEFINE kept == [action EXCEPT !.capabilities = edited]
<1>1. kept.path = action.path /\ kept.name = action.name /\ kept.type = action.type
  OBVIOUS
<1>2. ASSUME NEW r \in rules, Denotes(r.path, action.path), r.actions = {}, "*" \notin ToSet(action.path)
      PROVE  RuleMatches(r, kept)
  <2>1. GlobMatches(r.path, action.path)
    BY <1>2, GlobLawHolds DEF GlobLaw
  <2> HIDE DEF kept
  <2> QED
    BY <1>1, <1>2, <2>1 DEF RuleMatches
<1> HIDE DEF kept
<1>3. (\E r \in rules : Denotes(r.path, action.path) /\ r.actions = {} /\ "*" \notin ToSet(action.path))
        => IsHidden(rules, kept) /\ IsDestructive(rules, kept)
  BY <1>2 DEF IsHidden, IsDestructive
<1>4. action.type = "Command" => IsDestructive({}, kept)
  BY <1>1 DEF IsDestructive
<1>5. /\ IsHidden(rules, action) => IsHidden(rules \cup more, action)
      /\ IsDestructive(rules, action) => IsDestructive(rules \cup more, action)
  BY DEF IsHidden, IsDestructive
<1> QED
  BY <1>3, <1>4, <1>5 DEF PolicyLaw, kept
==============================================================================
