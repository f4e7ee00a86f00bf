------------------------------ MODULE EnvStore ------------------------------
(***************************************************************************)
(* The environment store of one process: an in-memory map of variables     *)
(* (a namespace and a key each), seeded at startup from the system         *)
(* environment and from the config, and written by set-env, which also     *)
(* writes variables marked as persisted through to the config.             *)
(*                                                                         *)
(* The config write is one atomic step (ConfigStore); the marks and the    *)
(* memory each have a lock of their own.                                   *)
(***************************************************************************)
EXTENDS ConfigObject

CONSTANTS
    EnvThreads,      \* callers of set-env
    EnvNames,        \* variables
    EnvValues,
    EnvMapped,       \* variables that env_mappings finds in the system environment
    MaxEnvCalls,     \* bound on calls
    MaxEnvRestarts   \* bound on restarts

ASSUME EnvAssumption ==
    /\ DOMAIN EnvMapped \subseteq EnvNames
    /\ BadType \notin EnvValues
    /\ \A S \in SUBSET EnvNames : BadType \notin [S -> EnvValues]
    /\ MaxEnvCalls \in Nat /\ MaxEnvRestarts \in Nat

VARIABLES
    envConfig,    \* the config object
    envStore,     \* the variables in memory
    envMarks,     \* the variables known to be persisted
    envPc,        \* thread -> step
    envCall,      \* thread -> [var, value, persist]
    envCalls,     \* calls so far
    envRestarts,  \* restarts so far
    envRaced      \* variables that two calls ever wrote at once

envVars == <<envConfig, envStore, envMarks, envPc, envCall, envCalls, envRestarts, envRaced>>

Persisted == Field(envConfig, EnvVars, EmptyObject)

\* init_env_mappings, then init_persisted_env: a persisted value wins.
Seed ==
    /\ envStore' = Over(Persisted, EnvMapped)
    /\ envMarks' = DOMAIN Persisted

NoCall == [var |-> Null, value |-> Null, persist |-> FALSE]

EnvInit ==
    /\ envConfig = EmptyObject
    /\ envStore = EnvMapped
    /\ envMarks = {}
    /\ envPc = [t \in EnvThreads |-> "idle"]
    /\ envCall = [t \in EnvThreads |-> NoCall]
    /\ envCalls = 0
    /\ envRestarts = 0
    /\ envRaced = {}

\* What would break it: a call without `persist` changes the memory only.
SetEnvUnmarked(t, var, value, persist) ==
    /\ envPc[t] = "idle"
    /\ envCalls < MaxEnvCalls
    /\ envCalls' = envCalls + 1
    /\ envCall' = [envCall EXCEPT ![t] = [var |-> var, value |-> value, persist |-> persist]]
    /\ envPc' = [envPc EXCEPT ![t] = IF persist THEN "persist" ELSE "store"]
    /\ UNCHANGED <<envConfig, envStore, envMarks, envRestarts, envRaced>>

\* A call begins: it persists if asked to, or if the variable already is.
SetEnv(t, var, value, persist) ==
    /\ envPc[t] = "idle"
    /\ envCalls < MaxEnvCalls
    /\ envCalls' = envCalls + 1
    /\ LET sticky == persist \/ var \in envMarks
       IN  /\ envCall' = [envCall EXCEPT ![t] = [var |-> var, value |-> value, persist |-> sticky]]
           /\ envPc' = [envPc EXCEPT ![t] = IF sticky THEN "persist" ELSE "store"]
    /\ envRaced' = IF \E s \in EnvThreads : envPc[s] # "idle" /\ envCall[s].var = var
                   THEN envRaced \cup {var} ELSE envRaced
    /\ UNCHANGED <<envConfig, envStore, envMarks, envRestarts>>

\* The config first ...
PersistVar(t) ==
    /\ envPc[t] = "persist"
    /\ envPc' = [envPc EXCEPT ![t] = "mark"]
    /\ envConfig' = SetEnvVar(envConfig, envCall[t].var, envCall[t].value)
    /\ UNCHANGED <<envStore, envMarks, envCall, envCalls, envRestarts, envRaced>>

\* ... and if that fails the call ends there.
PersistFails(t) ==
    /\ envPc[t] = "persist"
    /\ envPc' = [envPc EXCEPT ![t] = "idle"]
    /\ envCall' = [envCall EXCEPT ![t] = NoCall]
    /\ UNCHANGED <<envConfig, envStore, envMarks, envCalls, envRestarts, envRaced>>

MarkVar(t) ==
    /\ envPc[t] = "mark"
    /\ envPc' = [envPc EXCEPT ![t] = "store"]
    /\ envMarks' = envMarks \cup {envCall[t].var}
    /\ UNCHANGED <<envConfig, envStore, envCall, envCalls, envRestarts, envRaced>>

StoreVar(t) ==
    /\ envPc[t] = "store"
    /\ envPc' = [envPc EXCEPT ![t] = "idle"]
    /\ envStore' = Insert(envStore, envCall[t].var, envCall[t].value)
    /\ envCall' = [envCall EXCEPT ![t] = NoCall]
    /\ UNCHANGED <<envConfig, envMarks, envCalls, envRestarts, envRaced>>

\* The process ends, in the middle of calls or not, and a new one starts.
EnvRestart ==
    /\ envRestarts < MaxEnvRestarts
    /\ envRestarts' = envRestarts + 1
    /\ Seed
    /\ envPc' = [t \in EnvThreads |-> "idle"]
    /\ envCall' = [t \in EnvThreads |-> NoCall]
    /\ UNCHANGED <<envConfig, envCalls, envRaced>>

EnvNext ==
    \/ \E t \in EnvThreads :
          \/ \E var \in EnvNames, value \in EnvValues, persist \in BOOLEAN :
                SetEnv(t, var, value, persist)
          \/ PersistVar(t) \/ PersistFails(t) \/ MarkVar(t) \/ StoreVar(t)
    \/ EnvRestart

EnvSpec == EnvInit /\ [][EnvNext]_envVars

-----------------------------------------------------------------------------

EnvTypeOK ==
    /\ DOMAIN envStore \subseteq EnvNames
    /\ envMarks \cup envRaced \subseteq EnvNames
    /\ envPc \in [EnvThreads -> {"idle", "persist", "mark", "store"}]

\* get-env of a variable, as the entry it finds.
GetEnv(var) == Field(envStore, var, Null)

InFlight(var) == \E t \in EnvThreads : envPc[t] # "idle" /\ envCall[t].var = var

\* Persistence is sticky and survives restarts and failed config writes: while
\* no call of it is in flight, what get-env answers for a variable that the
\* config has is the config's value, unless two of its calls ever ran at once.
StickyPersistence ==
    \A var \in DOMAIN Persisted \ envRaced :
        InFlight(var) \/ GetEnv(var) = Persisted[var]
=============================================================================
