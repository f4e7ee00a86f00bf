------------------------------- MODULE Config -------------------------------
(***************************************************************************)
(* ConfigService of several processes on one solx-config.json.             *)
(*                                                                         *)
(* Reads take no file lock: a process returns its cached value while the   *)
(* file's stamp (mtime and length) is the one it loaded with, and trusts   *)
(* that stamp only if it was RacyWindow old by then.  Writes hold the      *)
(* process's cache lock and an exclusive file lock for read, change,       *)
(* truncate and write, release the file lock, and then take the stamp of   *)
(* what they wrote.                                                        *)
(*                                                                         *)
(* Time is discrete.  File times are multiples of Granularity.  MaxPause   *)
(* bounds how long a thread may be held up between the read (or the        *)
(* unlock) and the moment its cache entry is stamped as loaded.            *)
(***************************************************************************)
EXTENDS ConfigObject

CONSTANTS
    CfgProcs,        \* processes with a ConfigService
    CfgThreads,      \* threads that call one
    CfgProcOf,       \* CfgProcOf[t] is the process of thread t
    CfgCalls,        \* the mutator calls they may make, as records for Apply
    CfgInitial,      \* the contents the file may start with
    Granularity,     \* of file times
    RacyWindow,      \* RACY_WINDOW
    MaxPause,        \* see above
    MaxClock,        \* bound on time
    MaxFaults,       \* bound on crashes and failed writes
    MaxCalls,        \* bound on calls
    Nobody,          \* holder of a lock that is free
    NoFile,          \* content of a file that is not there
    Blank,           \* an empty text
    Torn             \* the first part of a text, which does not parse

ASSUME ConfigAssumption ==
    /\ CfgProcOf \in [CfgThreads -> CfgProcs]
    /\ Granularity \in Nat \ {0}
    /\ {RacyWindow, MaxPause, MaxClock, MaxFaults, MaxCalls} \subseteq Nat
    /\ Nobody \notin CfgThreads
    /\ NoFile # Blank /\ NoFile # Torn /\ Blank # Torn

VARIABLES
    cfgFile,     \* [content, mtime] of the file
    cfgLock,     \* the thread that holds the file lock, or Nobody
    cfgCache,    \* process -> [value, stamp, loadedAt]
    cfgGuard,    \* process -> the thread that holds its cache's write lock
    cfgUp,       \* the processes whose service is open
    cfgPc,       \* thread -> the step it is at
    cfgCall,     \* thread -> the call it makes
    cfgSeen,     \* thread -> what it has read so far in this call
    cfgClock,    \* now
    cfgFaults,   \* faults so far
    cfgMade,     \* calls so far
    cfgTokens,   \* server tokens returned so far
    cfgLost      \* a fault hit a half-written file

cfgVars == <<cfgFile, cfgLock, cfgCache, cfgGuard, cfgUp, cfgPc, cfgCall, cfgSeen,
             cfgClock, cfgFaults, cfgMade, cfgTokens, cfgLost>>

Snap == [op |-> "snapshot"]

-----------------------------------------------------------------------------
(* Files, stamps and cache entries                                         *)

NoStamp == [mtime |-> 0, len |-> 0]

\* Complete texts may well have one length: it never tells them apart.
Length(content) == IF content = Blank THEN 1 ELSE IF content = Torn THEN 2 ELSE 3

StampOf(file) ==
    IF file.content = NoFile THEN NoStamp
    ELSE [mtime |-> file.mtime, len |-> Length(file.content)]

FileTime == (cfgClock \div Granularity) * Granularity

Written(content) == [content |-> content, mtime |-> FileTime]

\* What read_file makes of a content that parses.
Parsed(content) == IF content \in {NoFile, Blank} THEN EmptyObject ELSE content

\* What would break it: a stamp that is trusted however young it is.
IsFreshByStamp(entry, disk) == entry.stamp = disk

IsFresh(entry, disk) ==
    \/ entry.stamp = NoStamp /\ disk = NoStamp
    \/ /\ entry.stamp # NoStamp
       /\ entry.stamp = disk
       /\ entry.stamp.mtime + RacyWindow <= entry.loadedAt

CfgEntry(value, stamp) == [value |-> value, stamp |-> stamp, loadedAt |-> cfgClock]

CfgNothing == [value |-> EmptyObject, before |-> EmptyObject, stamp |-> NoStamp, since |-> 0]

CfgNoCache == [value |-> EmptyObject, stamp |-> NoStamp, loadedAt |-> 0]

\* The processes have opened the service on the file as it is.
CfgInit ==
    /\ cfgFile \in [content : CfgInitial, mtime : {0}]
    /\ cfgLock = Nobody
    /\ cfgCache = [p \in CfgProcs |-> [value |-> Parsed(cfgFile.content),
                                      stamp |-> StampOf(cfgFile), loadedAt |-> 0]]
    /\ cfgGuard = [p \in CfgProcs |-> Nobody]
    /\ cfgUp = CfgProcs
    /\ cfgPc = [t \in CfgThreads |-> "idle"]
    /\ cfgCall = [t \in CfgThreads |-> Snap]
    /\ cfgSeen = [t \in CfgThreads |-> CfgNothing]
    /\ cfgClock = 0
    /\ cfgFaults = 0
    /\ cfgMade = 0
    /\ cfgTokens = {}
    /\ cfgLost = FALSE

-----------------------------------------------------------------------------
(* Steps of one thread                                                     *)

CfgGo(t, from, to) == cfgPc[t] = from /\ cfgPc' = [cfgPc EXCEPT ![t] = to]

\* A call begins; MaxCalls bounds how many do.
CfgEnter(t, step, call) ==
    /\ CfgGo(t, "idle", step)
    /\ cfgMade < MaxCalls
    /\ cfgMade' = cfgMade + 1
    /\ cfgCall' = [cfgCall EXCEPT ![t] = call]

\* The call is over, or goes on to mutate: what it has read is forgotten.
CfgFinish(t, from, to) ==
    /\ CfgGo(t, from, to)
    /\ cfgCall' = [cfgCall EXCEPT ![t] = IF to = "idle" THEN Snap ELSE @]
    /\ cfgSeen' = [cfgSeen EXCEPT ![t] = CfgNothing]

CfgTakeGuard(t) ==
    /\ cfgGuard[CfgProcOf[t]] = Nobody
    /\ cfgGuard' = [cfgGuard EXCEPT ![CfgProcOf[t]] = t]

CfgDropGuard(t) == cfgGuard' = [cfgGuard EXCEPT ![CfgProcOf[t]] = Nobody]

\* The value a finished call returns: only tokens are remembered.
CfgReturn(t, value) ==
    cfgTokens' = IF cfgCall[t].op = "token" /\ Has(value, Token)
                 THEN cfgTokens \cup {value[Token]}
                 ELSE cfgTokens

cfgOutside == <<cfgClock, cfgFaults, cfgLost>>
cfgDisk == <<cfgFile, cfgLock>>

\* open_in: the first load of a process, by the same steps as a reload.
CfgOpen(t) ==
    /\ CfgProcOf[t] \notin cfgUp
    /\ CfgGo(t, "idle", "restat")
    /\ CfgTakeGuard(t)
    /\ UNCHANGED <<cfgDisk, cfgCache, cfgUp, cfgCall, cfgSeen, cfgMade, cfgTokens, cfgOutside>>

\* raw_snapshot and ensure_server_token begin with the file's stamp.
CfgStat(t) ==
    /\ CfgProcOf[t] \in cfgUp
    /\ \E call \in {Snap} \cup {c \in CfgCalls : c.op = "token"} : CfgEnter(t, "check", call)
    /\ cfgSeen' = [cfgSeen EXCEPT ![t].stamp = StampOf(cfgFile)]
    /\ UNCHANGED <<cfgDisk, cfgCache, cfgGuard, cfgUp, cfgTokens, cfgOutside>>

\* Where a snapshot leads: a token call without a token goes on to mutate.
CfgAfterSnapshot(t, value) ==
    IF cfgCall[t].op = "token" /\ Field(Snapshot(value), Token, Refused) = Refused
    THEN "mutate" ELSE "idle"

CfgUseCache(t) ==
    LET entry == cfgCache[CfgProcOf[t]]
    IN  /\ CfgFinish(t, "check", CfgAfterSnapshot(t, entry.value))
        /\ cfgGuard[CfgProcOf[t]] = Nobody
        /\ IsFresh(entry, cfgSeen[t].stamp)
        /\ CfgReturn(t, Snapshot(entry.value))
        /\ UNCHANGED <<cfgDisk, cfgCache, cfgGuard, cfgUp, cfgMade, cfgOutside>>

CfgStale(t) ==
    /\ CfgGo(t, "check", "restat")
    /\ CfgTakeGuard(t)
    /\ ~IsFresh(cfgCache[CfgProcOf[t]], cfgSeen[t].stamp)
    /\ UNCHANGED <<cfgDisk, cfgCache, cfgUp, cfgCall, cfgSeen, cfgMade, cfgTokens, cfgOutside>>

\* read_file: the stamp first ...
CfgRestat(t) ==
    /\ CfgGo(t, "restat", "reread")
    /\ cfgSeen' = [cfgSeen EXCEPT ![t].stamp = StampOf(cfgFile)]
    /\ UNCHANGED <<cfgDisk, cfgCache, cfgGuard, cfgUp, cfgCall, cfgMade, cfgTokens, cfgOutside>>

\* ... then the text, which another process may be about to replace.
CfgReread(t) ==
    /\ CfgGo(t, "reread", "install")
    /\ cfgFile.content # Torn
    /\ cfgSeen' = [cfgSeen EXCEPT ![t].value = Parsed(cfgFile.content),
                                  ![t].since = cfgClock,
                                  ![t].stamp = IF cfgFile.content = NoFile THEN NoStamp ELSE @]
    /\ UNCHANGED <<cfgDisk, cfgCache, cfgGuard, cfgUp, cfgCall, cfgMade, cfgTokens, cfgOutside>>

\* A text that does not parse: a snapshot keeps the cache, open fails.
CfgRereadTorn(t) ==
    LET value == cfgCache[CfgProcOf[t]].value
    IN  /\ CfgFinish(t, "reread", CfgAfterSnapshot(t, value))
        /\ cfgFile.content = Torn
        /\ CfgReturn(t, Snapshot(value))
        /\ CfgDropGuard(t)
        /\ UNCHANGED <<cfgDisk, cfgCache, cfgUp, cfgMade, cfgOutside>>

CfgInstall(t) ==
    /\ CfgFinish(t, "install", CfgAfterSnapshot(t, cfgSeen[t].value))
    /\ cfgCache' = [cfgCache EXCEPT ![CfgProcOf[t]] = CfgEntry(cfgSeen[t].value, cfgSeen[t].stamp)]
    /\ cfgUp' = cfgUp \cup {CfgProcOf[t]}
    /\ CfgDropGuard(t)
    /\ CfgReturn(t, Snapshot(cfgSeen[t].value))
    /\ UNCHANGED <<cfgDisk, cfgMade, cfgOutside>>

-----------------------------------------------------------------------------
(* mutate                                                                  *)

\* The file is opened, and created if need be, before its lock is asked for.
OpenOrCreate ==
    cfgFile' = IF cfgFile.content = NoFile THEN Written(Blank) ELSE cfgFile

CfgBegin(t) ==
    /\ CfgProcOf[t] \in cfgUp
    /\ \E call \in {c \in CfgCalls : c.op # "token"} : CfgEnter(t, "lock", call)
    /\ CfgTakeGuard(t)
    /\ OpenOrCreate
    /\ UNCHANGED <<cfgLock, cfgCache, cfgUp, cfgSeen, cfgTokens, cfgOutside>>

\* ensure_server_token found no token: it generates one under the lock.
CfgBeginToken(t) ==
    /\ CfgGo(t, "mutate", "lock")
    /\ CfgTakeGuard(t)
    /\ OpenOrCreate
    /\ UNCHANGED <<cfgLock, cfgCache, cfgUp, cfgCall, cfgSeen, cfgMade, cfgTokens, cfgOutside>>

\* What would break it: a write computed from the value in the cache.
ChangedFromCache(t) ==
    IF cfgFile.content = Torn THEN Refused
    ELSE Apply(cfgCache[CfgProcOf[t]].value, cfgCall[t])

\* A text that does not parse and a check that fails are both errors.
Changed(t) ==
    IF cfgFile.content = Torn THEN Refused
    ELSE Apply(Parsed(cfgFile.content), cfgCall[t])

\* What would break it: a write that does not wait for the file lock.
CfgChangeUnlocked(t) ==
    /\ CfgGo(t, "lock", "truncate")
    /\ cfgLock' = t
    /\ Changed(t) # Refused
    /\ cfgSeen' = [cfgSeen EXCEPT ![t].value = Changed(t),
                                  ![t].before = Parsed(cfgFile.content)]
    /\ UNCHANGED <<cfgFile, cfgCache, cfgGuard, cfgUp, cfgCall, cfgMade, cfgTokens, cfgOutside>>

\* What the call writes is computed from the file's text, read under the lock.
CfgChange(t) ==
    /\ CfgGo(t, "lock", "truncate")
    /\ cfgLock = Nobody
    /\ cfgLock' = t
    /\ Changed(t) # Refused
    /\ cfgSeen' = [cfgSeen EXCEPT ![t].value = Changed(t),
                                  ![t].before = Parsed(cfgFile.content)]
    /\ UNCHANGED <<cfgFile, cfgCache, cfgGuard, cfgUp, cfgCall, cfgMade, cfgTokens, cfgOutside>>

\* An error under the lock: nothing is written, the cache stays as it was.
CfgRefuse(t) ==
    /\ CfgFinish(t, "lock", "idle")
    /\ cfgLock = Nobody
    /\ Changed(t) = Refused
    /\ CfgDropGuard(t)
    /\ UNCHANGED <<cfgDisk, cfgCache, cfgUp, cfgMade, cfgTokens, cfgOutside>>

CfgTruncate(t) ==
    /\ CfgGo(t, "truncate", "fill")
    /\ cfgFile' = Written(Blank)
    /\ UNCHANGED <<cfgLock, cfgCache, cfgGuard, cfgUp, cfgCall, cfgSeen, cfgMade, cfgTokens, cfgOutside>>

\* write_all may take several writes; readers can see the first of them.
CfgFillPart(t) ==
    /\ CfgGo(t, "fill", "fill")
    /\ cfgFile.content = Blank
    /\ cfgFile' = Written(Torn)
    /\ UNCHANGED <<cfgLock, cfgCache, cfgGuard, cfgUp, cfgCall, cfgSeen, cfgMade, cfgTokens, cfgOutside>>

\* The last byte is written, and the lock released.
CfgFill(t) ==
    /\ CfgGo(t, "fill", "written")
    /\ cfgFile' = Written(cfgSeen[t].value)
    /\ cfgLock' = Nobody
    /\ cfgSeen' = [cfgSeen EXCEPT ![t].since = cfgClock]
    /\ UNCHANGED <<cfgCache, cfgGuard, cfgUp, cfgCall, cfgMade, cfgTokens, cfgOutside>>

\* The cache takes the value written, with the stamp the file has by now,
\* whoever wrote it last.
CfgInstallWritten(t) ==
    /\ CfgFinish(t, "written", "idle")
    /\ cfgCache' = [cfgCache EXCEPT ![CfgProcOf[t]] = CfgEntry(cfgSeen[t].value, StampOf(cfgFile))]
    /\ CfgDropGuard(t)
    /\ CfgReturn(t, cfgSeen[t].value)
    /\ UNCHANGED <<cfgDisk, cfgUp, cfgMade, cfgOutside>>

-----------------------------------------------------------------------------
(* Faults and time                                                         *)

HalfWritten(t) == cfgPc[t] = "fill"

\* A write that fails leaves what it had written so far.
CfgWriteFails(t) ==
    /\ \E step \in {"truncate", "fill"} : CfgFinish(t, step, "idle")
    /\ cfgFaults < MaxFaults
    /\ cfgFaults' = cfgFaults + 1
    /\ cfgLost' = (cfgLost \/ HalfWritten(t))
    /\ cfgLock' = Nobody
    /\ CfgDropGuard(t)
    /\ UNCHANGED <<cfgFile, cfgCache, cfgUp, cfgMade, cfgClock, cfgTokens>>

\* A process dies: its locks are released, its memory is gone.
CfgCrash(p) ==
    LET mine == {t \in CfgThreads : CfgProcOf[t] = p}
        reset(f, v) == [t \in CfgThreads |-> IF t \in mine THEN v ELSE f[t]]
    IN  /\ p \in cfgUp
        /\ cfgFaults < MaxFaults
        /\ cfgFaults' = cfgFaults + 1
        /\ cfgUp' = cfgUp \ {p}
        /\ cfgPc' = reset(cfgPc, "idle")
        /\ cfgCall' = reset(cfgCall, Snap)
        /\ cfgSeen' = reset(cfgSeen, CfgNothing)
        /\ cfgCache' = [cfgCache EXCEPT ![p] = CfgNoCache]
        /\ cfgLock' = IF cfgLock \in mine THEN Nobody ELSE cfgLock
        /\ cfgGuard' = [cfgGuard EXCEPT ![p] = Nobody]
        /\ cfgLost' = (cfgLost \/ \E t \in mine : HalfWritten(t))
        /\ UNCHANGED <<cfgFile, cfgMade, cfgClock, cfgTokens>>

\* Time passes, but not beyond the pause a thread may make before its stamp.
CfgTick ==
    /\ cfgClock < MaxClock
    /\ \A t \in CfgThreads :
          cfgPc[t] \in {"written", "install"} => cfgClock - cfgSeen[t].since < MaxPause
    /\ cfgClock' = cfgClock + 1
    /\ UNCHANGED <<cfgDisk, cfgCache, cfgGuard, cfgUp, cfgPc, cfgCall, cfgSeen, cfgFaults,
                   cfgMade, cfgTokens, cfgLost>>

CfgStep(t) ==
    \/ CfgOpen(t) \/ CfgStat(t) \/ CfgUseCache(t) \/ CfgStale(t)
    \/ CfgRestat(t) \/ CfgReread(t) \/ CfgRereadTorn(t) \/ CfgInstall(t)
    \/ CfgBegin(t) \/ CfgBeginToken(t) \/ CfgChange(t) \/ CfgRefuse(t)
    \/ CfgTruncate(t) \/ CfgFillPart(t) \/ CfgFill(t) \/ CfgInstallWritten(t)
    \/ CfgWriteFails(t)

CfgNext ==
    \/ \E t \in CfgThreads : CfgStep(t)
    \/ \E p \in CfgProcs : CfgCrash(p)
    \/ CfgTick

CfgSpec == CfgInit /\ [][CfgNext]_cfgVars

-----------------------------------------------------------------------------
(* Properties                                                              *)

CfgSteps ==
    {"idle", "check", "restat", "reread", "install", "mutate", "lock", "truncate", "fill",
     "written"}

\* A lock is held exactly by a thread between taking and releasing it, so two
\* threads are never both inside mutate's read, change and write.
CfgTypeOK ==
    /\ cfgFile.mtime \in Nat
    /\ cfgClock \in Nat /\ cfgFaults \in Nat /\ cfgLost \in BOOLEAN
    /\ cfgUp \subseteq CfgProcs
    /\ cfgPc \in [CfgThreads -> CfgSteps]
    /\ cfgGuard \in [CfgProcs -> CfgThreads \cup {Nobody}]
    /\ \A t \in CfgThreads :
          /\ cfgPc[t] \in {"truncate", "fill"} <=> cfgLock = t
          /\ cfgPc[t] \notin {"idle", "check", "mutate"}
                <=> cfgGuard[CfgProcOf[t]] = t

\* A cache entry that the next read would trust holds what is in the file: no
\* process goes on with a config that another process has replaced, however
\* coarse the file's times are and whatever happened between two stamps.
CacheIsHonest ==
    \A p \in cfgUp :
        IsFresh(cfgCache[p], StampOf(cfgFile)) =>
            /\ cfgFile.content # Torn
            /\ cfgCache[p].value = Parsed(cfgFile.content)

\* What the file stands for: a half-written file still for the old text.
Committed ==
    IF \E t \in CfgThreads : HalfWritten(t)
    THEN cfgSeen[CHOOSE t \in CfgThreads : HalfWritten(t)].before
    ELSE Parsed(cfgFile.content)

Store == INSTANCE ConfigStore
    WITH StoreCalls <- CfgCalls, StoreInitial <- {Parsed(c) : c \in CfgInitial},
         object <- Committed, lost <- cfgLost

\* Through all the steps of a read, a truncation and a write, by threads and
\* processes in any order, the file behaves as one object that calls change
\* atomically: every write applies its call to the text before it, so no update
\* is lost; only a fault in the middle of a write can lose the object.
ImplementsStore == Store!StoreSpec

\* Every server token that was ever handed out is the same one, whatever
\* snapshots of a half-written file the callers met, unless a fault hit the
\* file in the middle of a write.
TokenIsStable == cfgLost \/ Cardinality(cfgTokens) <= 1
=============================================================================
