------------------------------ MODULE Packages ------------------------------
(***************************************************************************)
(* Installing and uninstalling packages, by several CLI processes on one   *)
(* config.  Every call that changes the config is one atomic step          *)
(* (ConfigStore); between them the scripts of the package run, and any     *)
(* step may fail or be the last one of its process, which leaves what was  *)
(* done so far.  The list of packages is read without the lock: while      *)
(* another process, a host say, is between truncating the file and writing *)
(* a change of its own, which concerns no package, it reads as empty.  (A  *)
(* text half written does not parse and leaves the list read before: the   *)
(* same one, for an operation begins when its process opens the config.)   *)
(***************************************************************************)
EXTENDS ConfigObject

CONSTANTS
    Clis,           \* CLI processes
    PkgNames,       \* names of packages
    Manifests,      \* what the package directories may declare, as records
                    \* [name, commands (key -> definition), urls]
    MaxPkgOps,      \* bound on operations
    MaxPkgFaults    \* bound on failures

\* The record of a package that declares m.
Recorded(m) == [name |-> m.name, commands |-> DOMAIN m.commands, urls |-> m.urls]

\* What a package grants, of all kinds; a value of a wrong type is none of it.
PkgKeys == UNION {DOMAIN m.commands : m \in Manifests}
PkgDefs == UNION {{m.commands[k] : k \in DOMAIN m.commands} : m \in Manifests}
PkgUrls == UNION {m.urls : m \in Manifests}

ASSUME PackagesAssumption ==
    /\ \A m \in Manifests : m.name \in PkgNames
    /\ \A m, n \in Manifests : DOMAIN m.commands \cap n.urls = {}
    /\ Null \notin Manifests
    /\ \A set \in SUBSET {Recorded(m) : m \in Manifests} : set # BadType
    /\ \A set \in SUBSET PkgUrls : set # BadType
    /\ \A K \in SUBSET PkgKeys : BadType \notin [K -> PkgDefs]
    /\ MaxPkgOps \in Nat /\ MaxPkgFaults \in Nat

VARIABLES
    pkgConfig,     \* the config object
    pkgPc,         \* process -> step
    pkgJob,        \* process -> what it installs or uninstalls
    pkgOps,        \* operations so far
    pkgFaults,     \* failures so far
    pkgOverlap,    \* two operations ever ran at once
    pkgRewriting,  \* another process has truncated the file to write it anew
    pkgLost,       \* shared grants that an uninstall took for unshared, its
                   \* list of the other packages having been empty
    pkgHalf        \* names whose last operation did not finish, and what an
                   \* unfinished or replaced install may have left behind

pkgVars == <<pkgConfig, pkgPc, pkgJob, pkgOps, pkgFaults, pkgOverlap,
             pkgRewriting, pkgLost, pkgHalf>>

\* The config's packages, commands and prefixes.
Installed == Field(pkgConfig, Packages, {})
Granted == DOMAIN Field(pkgConfig, Commands, EmptyObject) \cup ReadBaseUrls(pkgConfig)
GrantsOf(pkg) == pkg.commands \cup pkg.urls

NoJob == [name |-> Null, manifest |-> Null, others |-> {}, commands |-> {}, urls |-> {}]

Others(name) == {p \in Installed : p.name # name}

\* list_packages, of the others: what raw_snapshot finds.
Listed(name) == IF pkgRewriting THEN {} ELSE Others(name)

PkgInit ==
    /\ pkgConfig = EmptyObject
    /\ pkgPc = [c \in Clis |-> "idle"]
    /\ pkgJob = [c \in Clis |-> NoJob]
    /\ pkgOps = 0
    /\ pkgFaults = 0
    /\ pkgOverlap = FALSE
    /\ pkgRewriting = FALSE
    /\ pkgLost = {}
    /\ pkgHalf = [names |-> {}, grants |-> {}]

-----------------------------------------------------------------------------

PkgGo(c, from, to) == pkgPc[c] = from /\ pkgPc' = [pkgPc EXCEPT ![c] = to]

PkgStart(c, step, job) ==
    /\ PkgGo(c, "idle", step)
    /\ pkgOps < MaxPkgOps
    /\ pkgOps' = pkgOps + 1
    /\ pkgJob' = [pkgJob EXCEPT ![c] = job]
    /\ pkgOverlap' = (pkgOverlap \/ \E d \in Clis \ {c} : pkgPc[d] # "idle")
    /\ pkgHalf' = [pkgHalf EXCEPT !.names = @ \cup {job.name}]
    /\ UNCHANGED <<pkgConfig, pkgFaults, pkgRewriting, pkgLost>>

\* One config call of c, under the lock, and the part of its job it settles.
PkgWrite(c, object, job) ==
    /\ ~pkgRewriting
    /\ pkgConfig' = object
    /\ pkgJob' = [pkgJob EXCEPT ![c] = job]
    /\ UNCHANGED <<pkgOps, pkgFaults, pkgOverlap, pkgRewriting>>

\* install_package reads the manifest and the packages already there ...
InstallBegin(c, m) ==
    PkgStart(c, "grant", [name |-> m.name, manifest |-> m, others |-> Listed(m.name),
                          commands |-> DOMAIN m.commands, urls |-> m.urls])

\* ... grants each command and each prefix with a call of its own ...
GrantCommand(c) ==
    /\ PkgGo(c, "grant", "grant")
    /\ \E key \in pkgJob[c].commands :
          PkgWrite(c, RegisterCommand(pkgConfig, key, pkgJob[c].manifest.commands[key]),
                   [pkgJob[c] EXCEPT !.commands = @ \ {key}])
    /\ UNCHANGED <<pkgLost, pkgHalf>>

GrantUrl(c) ==
    /\ PkgGo(c, "grant", "grant")
    /\ pkgJob[c].commands = {}
    /\ \E prefix \in pkgJob[c].urls :
          PkgWrite(c, AddAllowedBaseUrl(pkgConfig, prefix),
                   [pkgJob[c] EXCEPT !.urls = @ \ {prefix}])
    /\ UNCHANGED <<pkgLost, pkgHalf>>

\* ... runs install.solx, and records the package with what it granted.
InstallScript(c) ==
    /\ PkgGo(c, "grant", "register")
    /\ pkgJob[c].commands = {} /\ pkgJob[c].urls = {}
    /\ UNCHANGED <<pkgConfig, pkgJob, pkgOps, pkgFaults, pkgOverlap,
                   pkgRewriting, pkgLost, pkgHalf>>

Register(c) ==
    LET m == pkgJob[c].manifest
        replaced == {p \in Installed : p.name = m.name}
    IN  /\ PkgGo(c, "register", "idle")
        /\ PkgWrite(c, RegisterPackage(pkgConfig, Recorded(m)), NoJob)
        /\ pkgLost' = pkgLost \ GrantsOf(Recorded(m))
        /\ pkgHalf' = [names |-> pkgHalf.names \ {m.name},
                       grants |-> pkgHalf.grants \cup UNION {GrantsOf(p) : p \in replaced}]

\* uninstall_package finds the record, runs uninstall.solx ...
UninstallBegin(c, pkg) ==
    ~pkgRewriting /\ PkgStart(c, "unscript", [name |-> pkg.name, manifest |-> Null, others |-> {},
                             commands |-> pkg.commands, urls |-> pkg.urls])

\* What would break it: an uninstall that revokes what others share.
UninstallScriptAll(c) ==
    /\ PkgGo(c, "unscript", "revoke")
    /\ UNCHANGED <<pkgConfig, pkgJob, pkgOps, pkgFaults, pkgOverlap,
                   pkgRewriting, pkgLost, pkgHalf>>

\* ... lists the other packages, and keeps what one of them has granted too ...
UninstallScript(c) ==
    LET job == pkgJob[c]
        others == Listed(job.name)
        shared == UNION {GrantsOf(p) : p \in others}
    IN  /\ PkgGo(c, "unscript", "revoke")
        /\ pkgJob' = [pkgJob EXCEPT ![c].others = others,
                                    ![c].commands = @ \ shared,
                                    ![c].urls = @ \ shared]
        /\ pkgLost' = IF pkgRewriting
                      THEN pkgLost \cup {g \in job.commands \cup job.urls :
                                            \E p \in Others(job.name) : g \in GrantsOf(p)}
                      ELSE pkgLost
        /\ UNCHANGED <<pkgConfig, pkgOps, pkgFaults, pkgOverlap, pkgRewriting, pkgHalf>>

\* ... revokes the rest one by one, and drops the record.
RevokeCommand(c) ==
    /\ PkgGo(c, "revoke", "revoke")
    /\ \E key \in pkgJob[c].commands :
          PkgWrite(c, DeregisterCommand(pkgConfig, key),
                   [pkgJob[c] EXCEPT !.commands = @ \ {key}])
    /\ UNCHANGED <<pkgLost, pkgHalf>>

RevokeUrl(c) ==
    /\ PkgGo(c, "revoke", "revoke")
    /\ pkgJob[c].commands = {}
    /\ \E prefix \in pkgJob[c].urls :
          PkgWrite(c, RemoveAllowedBaseUrl(pkgConfig, prefix),
                   [pkgJob[c] EXCEPT !.urls = @ \ {prefix}])
    /\ UNCHANGED <<pkgLost, pkgHalf>>

Unregister(c) ==
    /\ PkgGo(c, "revoke", "idle")
    /\ pkgJob[c].commands = {} /\ pkgJob[c].urls = {}
    /\ PkgWrite(c, UnregisterPackage(pkgConfig, pkgJob[c].name), NoJob)
    /\ pkgHalf' = [pkgHalf EXCEPT !.names = @ \ {pkgJob[c].name}]
    /\ UNCHANGED pkgLost

\* A script or a config call fails, or the process dies.
PkgFails(c) ==
    /\ pkgPc[c] # "idle"
    /\ pkgFaults < MaxPkgFaults
    /\ pkgFaults' = pkgFaults + 1
    /\ pkgPc' = [pkgPc EXCEPT ![c] = "idle"]
    /\ pkgJob' = [pkgJob EXCEPT ![c] = NoJob]
    /\ pkgHalf' = IF pkgJob[c].manifest = Null THEN pkgHalf
                  ELSE [pkgHalf EXCEPT !.grants = @ \cup GrantsOf(Recorded(pkgJob[c].manifest))]
    /\ UNCHANGED <<pkgConfig, pkgOps, pkgOverlap, pkgRewriting, pkgLost>>

\* The other process truncates the file, or has written it again.
PkgRewrite ==
    /\ pkgRewriting' = ~pkgRewriting
    /\ UNCHANGED <<pkgConfig, pkgPc, pkgJob, pkgOps, pkgFaults, pkgOverlap, pkgLost, pkgHalf>>

PkgNext ==
  \/ PkgRewrite
  \/ \E c \in Clis :
        \/ \E m \in Manifests : InstallBegin(c, m)
        \/ \E pkg \in Installed : UninstallBegin(c, pkg)
        \/ GrantCommand(c) \/ GrantUrl(c) \/ InstallScript(c) \/ Register(c)
        \/ UninstallScript(c) \/ RevokeCommand(c) \/ RevokeUrl(c) \/ Unregister(c)
        \/ PkgFails(c)

PkgSpec == PkgInit /\ [][PkgNext]_pkgVars

-----------------------------------------------------------------------------

PkgTypeOK ==
    /\ pkgPc \in [Clis -> {"idle", "grant", "register", "unscript", "revoke"}]
    /\ \A p \in Installed : p.name \in PkgNames
    /\ pkgHalf.names \subseteq PkgNames

\* Of two records at most one bears a name, and while operations come one at a
\* time the allowlists follow the records, through failures too: an installed
\* package whose last operation finished has all it was granted, also what it
\* shares with one that went, unless that one's uninstall read the list of the
\* others from a truncated file (pkgLost: the code promises that it stays, and
\* does not keep that); and what is granted is some package's, or left by an
\* install that failed, is running or was installed over.
GrantsFollowPackages ==
    /\ \A p, q \in Installed : p.name = q.name => p = q
    /\ ~pkgOverlap =>
         /\ \A p \in Installed :
               p.name \in pkgHalf.names \/ GrantsOf(p) \subseteq Granted \cup pkgLost
         /\ Granted \subseteq
              (UNION {GrantsOf(p) : p \in Installed})
                \cup pkgHalf.grants
                \cup (UNION {GrantsOf(Recorded(pkgJob[c].manifest)) :
                               c \in {d \in Clis : pkgJob[d].manifest # Null}})
=============================================================================
