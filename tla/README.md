# TLA+ models of solx-core

solx-core is a Rust workspace: an action manager (scripts, WASM modules, commands,
webhooks and built-in actions, addressed by a ref such as `/tools/chat`), the stores
beside it (documents, types, files, packages, configuration, console, invocations),
and front ends (CLI, HTTP server, MCP server, Tauri plugin). Several processes may
run on one set of SQLite databases and one config file.

This directory models what lies below the front ends. Parts whose correctness depends on
interleaving, failure and order are state machines; parts that compute (the script
language, masking, paths, policies, tool names) are operators, checked against a
reference over all small inputs. What the state machines promise is also proved, for
every number of callers and every value of their bounds.

## Files

| file | what it is |
|---|---|
| `Console.tla`, `ConsoleLog.tla` | the console store, one action per SQL statement or transaction; the append-only log it implements |
| `Invocations.tla` | start, task, stop, open, crash and restart over the `invocations` table |
| `Stores.tla`, `Actors.tla` | the stores, and the concurrent parts of `solx-actions`, side by side: what they promise alike |
| `ConsoleProofs.tla`, `ConsoleLogProofs.tla`, `InvocationsProofs.tla`, `ConfigProofs.tla`, `StoresProofs.tla`, `TransportProofs.tla`, `ExecutionProofs.tla` | TLAPS proofs; `TransportProofs` is about streams, commands and logins, `ExecutionProofs` about dispatch and authentication |
| `NaturalOrder.tla` | facts about the naturals that proofs need: a least and a greatest member, induction, iteration |
| `ConfigObject.tla`, `Config.tla`, `ConfigStore.tla` | operations on the config object; the file, the locks and the cached snapshots; the atomic object they implement |
| `EnvStore.tla`, `Packages.tla`, `DocStore.tla`, `ActionStore.tla`, `SecretStore.tla`, `TypeStore.tla`, `Files.tla` | one store each |
| `Command.tla`, `HttpStream.tla`, `OAuthLoopback.tla`, `Auth.tla`, `Dispatch.tla` | one concurrent part of `solx-actions` each |
| `ScriptText.tla`, `ScriptLex.tla`, `ScriptExpr.tla`, `Script.tla` | the script language: scanners, lexer, expressions, blocks and interpreter |
| `Masking.tla`, `DocFields.tla`, `Listing.tla`, `Paths.tla`, `Policy.tla`, `Params.tla`, `Mcp.tla`, `ConsoleActions.tla` | pure parts and the laws they obey |
| `MCConsole.tla`, `MCInvocations.tla`, `MCStores.tla`, `MCLaws.tla`, `MCActors.tla`, `MCHttpStream.tla`, `*.cfg` | instances for TLC |
| `PROJECT.json` | components, runs, mutants, map from definitions to source lines, findings, hazards, theorems |

To check a run: `tlc -config Stores.cfg MCStores`. To check proofs:
`tlapm ConsoleLogProofs.tla`.

## Inventory

Paths are below `src/`, the root of the repository.

### Console store — `solx-console/src/console.rs`

*State.* Table `consoles` (per action ref: `next_seq`, `first_seq`, `dropped`, last
write) and table `console_entries` (primary key `(action_ref, seq)`).
*Operations.* `print` (claim a seq by an upsert, insert, evict if over the cap),
`read`/`tail` (a page from a cursor), `copy` (a page of one invocation's entries,
appended as a block to another console in one transaction, then evict), `clear`
(delete below a cutoff, raise `first_seq`), `sweep_expired` (delete consoles whose last
write is too old), `list`, `current_next_seq`.
*Interaction.* Every process opens the same database file. The sweep runs when an
action manager is opened. Children print through the loopback's HTTP endpoint.
*Hard.* Every statement commits by itself unless a transaction, or a row cursor
that is not read to its end, holds it; evictions and clears work on counters read
earlier; an operation may fail or its process may die between two statements.
*Correct means.* No seq is handed out twice; nothing retained is below `first_seq`;
a reader with a saved cursor misses nothing retained; retention ends at the cap;
`dropped` does not understate; a drained child's entries arrive once and in order.

### Detached invocations — `solx-console/src/invocations.rs`, `solx-actions/src/invocation.rs`, `solx-actions/src/lib.rs`

*State.* Table `invocations` (status, cancel flag, last write), the map `running` from
id to abort handle in each process, the tasks, the stop calls and grace watchers.
*Operations.* `start_invocation` (create the row, spawn, store the handle), the task
(execute, write the outcome, forget the handle), `stop_invocation` (request a cancel;
with `force` at once, else from a watcher after the grace period, abort and mark),
`mark_orphans` and `sweep_expired` on open, `poll`, `list`, `get`.
*Interaction.* The child sees the cancel flag in poll and exits by itself. Several
processes share the table, but not handles or tasks.
*Hard.* Four writers race for the outcome of a row; a host dies at any step; the
handle is stored after the task was spawned; another process's orphan pass meets live
rows; writes fail and the error is ignored.
*Correct means.* An outcome is final; a live row does not vanish, and has something
that will settle it; behind a cancelled row the task was told to abort; behind an
interrupted row there is no task.

### The stores

| component | state, operations, hard behaviour | correct means | modules |
|---|---|---|---|
| configuration (`solx-config`) | a file, a snapshot with the file's stamp, a lock file; reads through the snapshot, `mutate` (lock, read, change, truncate, write, unlock, stamp) by several processes | no update lost; no stale read; a crash never makes half a file pass for a config | `ConfigObject`, `Config`, `ConfigStore` |
| environment variables (`internal/env.rs`) | memory and config of one process; `set-env` writes both under different locks | what the config has is what `get-env` answers | `EnvStore` |
| packages (`solx-packages`) | records and grants in the config; `install`, `uninstall`, many steps, each of which may fail; grants shared; a list of packages read without the lock | grants follow the records | `Packages` |
| document store (`solx-docs`) | documents, references, full-text rows; `save`, `delete`, `reindex` in separate statements; field edits | contents fit the type; index and references follow the document | `DocStore`, `DocFields`, `Listing` |
| action store, masking, secrets (`store.rs`, `mask.rs`, `secrets.rs`, `internal/entity.rs`) | `actions` rows, keyring entries; saves that echo redacted rows; the guard of `entity-save-action`; `get` deletes by name what it could not decrypt | no secret replaced by its mask; guarded rows stay; secrets stay | `ActionStore`, `Masking`, `SecretStore` |
| type store (`solx-types`) | rows; seeding at every open | seeding undoes nothing | `TypeStore` |
| file store (`solx-files`) | a tree; `put` makes directories, `delete` prunes empty ones | pruning takes no file with it | `Files` |

### Execution

| component | state, operations, hard behaviour | correct means | modules |
|---|---|---|---|
| dispatch (`dispatch.rs`, `exec.rs`, `net.rs`, `wasm/`) | a stack of nested calls; identities, allowed URLs read for the URL and again for its redirects, timeouts | secrets are those of the nearest caller; neither a request nor its redirects leave the lists of their time | `Dispatch`, `Params` |
| commands and their loopback (`exec.rs`, `loopback.rs`, `actions.rs` of `solx-console`) | a child, its pipes, its token; prints and cancel queries of a child | parent and child never wait for each other; a handler keeps to its caller | `Command`, `ConsoleActions` |
| HTTP streams (`internal/http_stream.rs`) | a buffer of lines; reader task, polls, close, idle end | each line accounted for; an abandoned stream ends | `HttpStream` |
| OAuth loopback (`loopback/oauth.rs`, `internal/oauth.rs`) | listeners, a registry, one-shot channels; start, callback, await with timeout, stop | a login can be finished; its port comes back | `OAuthLoopback` |
| authentication (`auth.rs`) | token cache, refresh token in one of three places; overlapping refreshes at an endpoint that rotates | no rotation lost; no dead token handed out | `Auth` |
| scripts (`solx-scripts`) | variables of a run | what is written is what runs | `ScriptText`, `ScriptLex`, `ScriptExpr`, `Script` |
| MCP server (`solx-mcp`) | none of its own | names lead to their actions; progress repeats and skips nothing | `Mcp` |
| surface (`solx-surface`) | none | references, lists and policies mean what they say | `Paths`, `Listing`, `Policy` |

## Console

### How the model corresponds to the code

`row` and `entries` are the two tables. An entry keeps what the properties tell apart:
its seq, its invocation and, for a copied one, the seq it had. A client runs one
operation at a time: `pc` names the statement it runs next, `loc` holds its local
variables (the counters it read, the batch it selected). `row[r].fresh` abstracts the
time of the last write: `TtlPasses` makes it old, a claim makes it new.

| code | actions |
|---|---|
| `print` | `PrintTx`, or `PrintClaim`, `PrintInsert` and the eviction |
| `evict_if_over_cap` | `EvictMeta`, `EvictDelete`, `EvictUpdate` |
| `copy` | `CopySelect`, `CopyTx` (the transaction), then the eviction; `Return` saves the caller's cursor in `drain` |
| `clear` | `ClearMeta`, `ClearTx` and `ClearPartial`, or `ClearDelete`, `ClearUpdate` |
| `sweep_expired` | `SweepSelect`, `SweepEntries`, `SweepRow` |
| `read`, `tail` | `Read` |
| an error or a crash between two statements | `Abort`, `PrintTx` with `done < 4`, `ClearPartial` |

`HeldCursor`. `print` does not read its `RETURNING` cursor to the end and keeps it in
scope (`rows`, console.rs:171). SQLite commits a statement's implicit transaction only
when no other write statement is active, so insert and eviction run in the transaction
of the claim: `PrintTx` is one step, and `done` says how many of its statements took
effect. `clear` keeps its COUNT cursor (`count_rows`, console.rs:451): that is a read,
so its DELETE commits, but the shared lock it holds keeps other writers from committing
(rollback journal; db.rs sets no WAL) until the UPDATE, which may itself fail with
"busy" (`ClearPartial`). `HeldCursor = FALSE` models a driver that reads cursors ahead.
Properties that need the transaction say `HeldCursor =>`; those about claimed seqs are
checked and proved for both.

`SweepAlone`. The sweep runs while `LocalActionManager::open` runs, before the process
serves anything. With one process on the database it has the store for itself
(`TRUE`); with two it meets the operations of the other (`FALSE`).

Left out: levels, texts, `list` and `current_next_seq` (they only read), and the
counters that `read` returns beside a page (`first_seq`, `dropped`): they come from a
statement of their own, may be older than the page, and no code decides by them.

### Runs

| run | instance | what it shows |
|---|---|---|
| `Console_each` | 3 clients, each statement by itself, sweep alone, cap 1, 3 seqs, 1 fault | `ClaimsAreFresh`, `SeqNeverReused`, `SweepDropsOnlyExpired` |
| `Console_copy` | 2 clients, 2 invocations, print and copy, cap 2, page 2, 5 seqs | `CopyOnceInOrder`, `BoundedRetention`, `DroppedNeverUndercounts` |
| `Console_tail` | 2 clients that print, clear and fail once, 1 fair reader, cap 2, 5 seqs | `TypeOK`, `RetainedAboveFirst`, `TailMissesNothing`, `TailDelivers`, and the refinement `ImplementsLog` |
| `Console_reuse` | 2 processes, print and sweep | violates `SeqNeverReused` (below) |

*Bounds.* `MaxSeq` bounds the seqs claimed and `MaxFaults` the failures. With a cap of
1 or 2, 3 to 5 seqs evict repeatedly, a block of 2 overshoots the cap, and two clients
can each hold stale counters over the other's eviction. Three printers are needed for
two claims to be outstanding while a third is made. Two refs are what one copy joins.
No run has a copy beside a clear, which is too many states at these bounds; the theorems
below have both.
Clients are interchangeable and used as a symmetry set in runs without liveness.
Deadlock is not checked: an instance stops when its seqs are used up.

*Fairness.* Only `WF_vars(Read(q))`, for `TailDelivers`: a tailing client polls at
`TAIL_POLL_INTERVAL`. Nothing is assumed of writers.

### Theorems

For all sets of refs, clients and readers, every cap, page size and bound:

| theorem | assumes | states |
|---|---|---|
| `ConsoleTypeOK` | – | `Spec => []TypeOK` |
| `ConsoleClaimsAreFresh` | a sweep, if any, is alone | `Spec => []ClaimsAreFresh` |
| `ConsoleSeqNeverReused` | the same | `Spec => SeqNeverReused` |
| `ConsoleRetainedAboveFirst` | the same (the property says `HeldCursor`) | `Spec => []RetainedAboveFirst` |
| `ConsoleTailMissesNothing` | no sweep | `Spec => []TailMissesNothing` |
| `ConsoleImplementsLog` | `HeldCursor`, no sweep | `Spec => ImplementsLog` |
| `ConsoleTailGoesOn` | the same | an entry not given to a reader is on its next page, or the page moves the cursor towards it |
| `ConsoleCopyOnceInOrder` | a sweep, if any, is alone | `Spec => []CopyOnceInOrder` |
| `ConsoleBoundedRetention` | the same | `Spec => []BoundedRetention` |
| `ConsoleDroppedNeverUndercounts` | the same | `Spec => []DroppedNeverUndercounts` |
| `ConsoleSweepDropsOnlyExpired` | the same | `Spec => SweepDropsOnlyExpired` |
| `HandlersKeepToCaller` | – | `ScopeLaw`, for every handler, parameters and caller |

*Argument.* The invariant is built in layers.

1. `TypeInv`: types, logs and batches are finite (`Cardinality` is a number), and an
   eviction moves the first seq that it read forward.
2. `ClaimsInv` adds `RowsStay`, `SweepIsAlone` and `ClaimsAreFresh`. `Grows(r)` says in
   one place what a step may do to a console: keep its claims and add only entries that
   lie in what it has just claimed. `StoreStep` proves it for every step other than
   print's insert and the end of a sweep, which are treated by themselves.
3. `HeldInv` is needed because `RetainedAboveFirst` is not inductive: an eviction writes
   a `first_seq` it computed earlier. `ForgetsClaimed` says that this seq had been
   claimed (so nothing inserted later is below it) and that after its DELETE nothing
   below is left. `FirstMoves` shows that a step either leaves `first_seq` alone or
   sets it to a claimed seq with nothing below.
4. `TailInv`: a cursor does not run ahead of the claims, so what is added is never
   behind it; within a page, `PageIsPrefix` (ranks follow seqs) shows that the cursor
   skips nothing.
5. The refinement maps `next` to the next claim and `kept` to the retained seqs. A
   copied block fills exactly the seqs it claims because `LogsUnique` makes the
   renumbering injective into an interval of the same size (`RenumberFills`).
6. `CopiesInTurn`, for `CopyOnceInOrder`: a copy holds its invocation's drain alone, what
   it will insert lies from the caller's cursor on, and what it has inserted lies before
   the cursor it is about to return. Entries keep the order of their origin because a
   block is renumbered by rank, and ranks follow seqs.
7. `EvictionsKeepUp`, for the cap and the count. A console is within the cap, or some
   client is still on its way to an eviction that will take it there: each eviction that
   works from stale counters was overtaken by one that did not. What evictions deleted
   has been counted, or is owed by one between its DELETE and its UPDATE. The sum over
   overlapping evictions is the cardinality of a set of pairs (`Owed`), so that one
   client's debt comes and goes as one interval and no sum needs induction.
8. `SweepsExpired`: while a sweep runs alone, what it selected stays expired.

*Model-checked only.* `TailDelivers` (liveness). `ConsoleTailGoesOn` is the part of it that
steps decide: while something retained was not given to a reader, its page is not empty, and
a read gives that entry or moves the cursor up, never past it. That the reads happen is
fairness, and so stays with TLC.

## Invocations

### How the model corresponds to the code

`row` is the table, with `old` for "last written before the TTL". `start`, `task`,
`running`, `aborted` and `stop` are in the memory of processes; `Crash(p)` loses those
of `p`. `proc` is how far a process has got in `open`. An abort takes effect when the
task next yields, so `TaskDropped` is a later step than `ForceAbort`, and an aborted
task may still finish.

| code | actions |
|---|---|
| `start_invocation` | `StartCreate`, `StartSpawn`, `StartInsert` |
| the spawned task | `TaskExec`, `TaskFinish` or `TaskFinishFails`, `TaskRemove`; `TaskPanics`, `TaskDropped` |
| `stop_invocation`, `force_abort`, the grace watcher | `StopRequest`, `ForceAbort`, `MarkAborted` or `MarkAbortedFails` |
| `open`: `mark_orphans`, `sweep_expired` | `Open`, `MarkOrphansSelect`, `MarkOrphan`, `SweepSelect`, `SweepDelete`, `Opened`, `PassFails` |
| the conditional UPDATE of `finish` | `Finish` |

With and without `force` a stop runs the same steps, at once or after the grace period;
since the model lets any time pass between steps, one set of actions stands for both.
`Hosts` are the processes that called `set_long_lived_host(true)`: others refuse to
start. `IdsFromConsole` says how a client learns an id: from the return of
`action-start` (`FALSE`), or also from the console entries that carry it while the run
goes on (`TRUE`).

Left out: arguments, results and errors of actions; the status `timeout`, which is
declared but never written; a weak self reference that cannot be upgraded.
`console_seq_start`, read before the row is created, belongs to the composition with
`Console` in the plan. A handle stored after its task ended stays in `running` until
the process exits; that costs memory and changes nothing else, and the model has it.

### Runs

| run | instance | what it shows |
|---|---|---|
| `Invocations_two` | 1 run, a host and a second process, 2 stops, 3 opens, 1 fault | `TypeOK`, `CancelFlagMatchesStatus`, `NoZombie`, `TerminalIsFinal`, `LiveRowStays`, `RunSettles`, `StopSettles` |
| `Invocations_one` | 2 runs, 1 process, 2 stops, 3 opens, 1 fault | `CancelledIsAborted`, `InterruptedHasNoTask` |
| `Invocations_orphans` | 2 processes | violates `InterruptedHasNoTask` (below) |
| `Invocations_early` | ids from console entries | violates `CancelledIsAborted` (below) |

*Bounds.* `MaxOpens` bounds opens, so with 3 a host can crash twice, or crash while the
other process is up; `MaxFaults` bounds failed writes and panics. Rows do not interact
except through the two passes of `open`, which 2 runs exercise; two stops are what it
takes for one to abort what the other is about to mark. Deadlock is not checked: when
the opens are used up and every run is over, the system stops.

*Fairness.* Weak fairness of a start's, a task's and a stop's own next steps: the
runtime polls ready tasks and the grace timer fires. Nothing says that an action
returns, that anyone calls stop, or that a crashed process is opened again; so
`RunSettles` and `StopSettles` are promised only while the process stays up and no
write has failed.

### Theorems

For all sets of invocations, processes, hosts and stop calls:

| theorem | assumes | states |
|---|---|---|
| `InvocationsTypeOK` | – | `Spec => []TypeOK` |
| `CancelFlagIsRight` | – | `Spec => []CancelFlagMatchesStatus` |
| `NoZombieRuns` | – | `Spec => []NoZombie` |
| `TerminalStatusIsFinal` | – | `Spec => TerminalIsFinal` |
| `LiveRowsStay` | – | `Spec => LiveRowStays` |
| `InterruptedRunsAreOver` | one process | `Spec => []InterruptedHasNoTask` |
| `CancelledRunsAreAborted` | one process, ids only from `action-start` | `Spec => []CancelledIsAborted` |
| `StopsGoThrough` | – | no step loses a stop in progress: it ends with a settled row, unless its process dies or its UPDATE fails; a settled row stays so |

*Argument.* `IInv` is `Bookkeeping /\ LiveHasSettler`. `Bookkeeping` ties memory to the
table: an unused id has no row and no task, a handle exists only for a start that
returned, a stop in progress has set the flag or its row is gone, and what a sweep
selected stays settled. The last conjunct is why a delete by id, selected earlier, hits
no live row. `LiveHasSettler` strengthens `NoZombie`: a live row has a start, a task or
a marking stop in its own host, or its host is down or in its orphan pass with the row
still to do. The two theorems about a single process add `DownHasNoTask` and
`InterruptedIsOver`, and `ReturnedHasHandle` and `StopsAreReturned`; the runs
`Invocations_orphans` and `Invocations_early` show that their assumptions are needed.

*Model-checked only.* `RunSettles` and `StopSettles` (liveness under fairness). What steps
decide of them is proved: `NoZombieRuns`, that a live run has something that can settle it,
and `StopsGoThrough`, that a stop only goes forward.

## The stores (runs `Stores` and `Secrets_heal`)

The stores share nothing but the config, which the others see as one atomic object: that
is what `ImplementsStore` shows of writes. A read takes no lock and can also meet the
file truncated and take it for an empty config: `Config` has that read (`CfgReread`), and
`Packages` has it again where it matters (`Listed`, `PkgRewrite`). One run, of `MCStores`,
holds all the stores: `part`, chosen at the start, says which one a behaviour is about.
Deadlock is not checked, because each part has a budget of calls; nothing in this run
depends on fairness.

| code | model | what is left out |
|---|---|---|
| `ConfigService::snapshot`, `mutate` | `CfgOpen`, `CfgStat`, `CfgUseCache`, `CfgStale`, `CfgRestat`, `CfgReread`, `CfgInstall`; `CfgBegin`, `CfgChange`, `CfgTruncate`, `CfgFillPart`, `CfgFill`, `CfgInstallWritten`; `CfgWriteFails`, `CfgCrash` | JSON text: a file is an object, `Blank` or `Torn`, with a length |
| `AppConfig`, `update`, `ensure_token`, … | `ConfigObject`, one operator per method, `Apply` for all | fields that are only carried along |
| `set_env`, start of a process | `SetEnv`, `PersistVar`, `MarkVar`, `StoreVar`, `EnvRestart` | values |
| `install`, `uninstall` | `InstallBegin`, `GrantCommand`, `GrantUrl`, `InstallScript`, `Register`; `UninstallBegin`, `UninstallScript`, `RevokeCommand`, `RevokeUrl`, `Unregister`; `PkgFails`; `PkgRewrite`, another process that writes the config | copying files; what a script does |
| `save`, `delete`, `reindex` of documents | `SaveDoc`, `WriteDoc`, `DropRefs`, `InsertRef`; `DeleteDoc`; `ReindexAll`, `ReindexDoc` | fields that merge like the title |
| `save`, `delete`, guard and seeding of actions | `SaveAction`, `WriteAction`, `GuardSave`, `SaveGuarded`, `DeleteAction`, `SeedAction` | schemas; fields that merge like the caption |
| `set_secret`, `get_secret`, `delete_secret` | `SetSecret`, `GetSecret`, `HealSecret`, `DeleteSecret` | ciphers: a value opens with the key it was sealed with |
| the type store | `OpenTypes`, `SeedType`, `SaveType`, `WriteType`, `DeleteType` | JSON-schema validation, a library's |
| `put`, `delete` of files | `FilPut`, `FilMkdir`, `FilTruncate`, `FilFill`; `FilDelete`, `FilRemove`, `FilLook`, `FilPrune`; `FilCrash` | bytes: a file has contents or is torn |

| property | what it says | how it could be wrong |
|---|---|---|
| `CacheIsHonest` | a snapshot the next read would trust is the file's | a stamp that did not change, or taken after another's write |
| `ImplementsStore` | `Config` refines `ConfigStore`: writes apply, whole, to what was there (reads are not part of it) | a lost update; a torn file read as empty and written back |
| `TokenIsStable` | a server token, once handed out, is the only one | two processes that each make one |
| `StickyPersistence` | a variable the config has is what `get-env` answers | a failed write or a restart between the steps of `set-env` |
| `GrantsFollowPackages` | an installed package has its grants, no other grant is left | failures between steps; an uninstall that revokes what others share |
| `DocsConsistent` | contents fit the type stored with them; index and references follow the document | saves that validate long before they write; statements that interleave |
| `SecretsSurviveEcho` | a mask is never stored, an echoed secret is kept | a save whose row changed after it was read |
| `GuardHolds` | no executable action through `entity-save-action`, by a call whose row nobody hit meanwhile | a guard that looks at the input alone |
| `KeptUntilDeleted` | seeding and pruning undo no caller's write, nor does a get of a secret, except as below | `SeedType` over an edit; a get with a malformed key; `FilPrune` over a `put` |
| `HealsOnlyDeadEntries` (violated) | a get clears what its key does not open | `HealSecret` over a `set` |

What these properties except is what the code does not promise, and each is a variable or
a phrase of the property: variables that two calls of `set-env` wrote at once
(`EnvStore`); grants while two command lines overlap, or named only by an earlier
manifest (`Packages`, where an operation begins when its process opens the config); links
and index that overlapping writes spoiled, until a save or reindex alone (`DocStore`); a row
hit between a save's read and its write, or between a guard's look and its save
(`ActionStore`). Two more are promised by the docs and not kept (see the disagreements below):
shared grants that an uninstall took for unshared, its list of the others read from a
truncated file (`pkgLost`), and a secret that was set while a get was about to clear the name
(`met`, run `Secrets_heal`).

*Bounds.* Two threads or processes everywhere, since each hazard is between two; a config
of one legacy list, four kinds of calls, 2 per process, 1 fault, a clock of 2 ticks with
file times and the racy window of 1 tick each, so that two writes can share a time;
4 package operations over 3 manifests that share a command, 1 failure; 3 operations for
each of documents, actions, secrets, types and files, which is a save, another one
between its steps, and a deletion or seeding; two files in one nested directory.
`MaxPause = 0` is an assumption of the code: a thread is not held up, between its read
and the stamp of what it read, for as long as the racy window. With a longer pause the
cache can be wrong (below).

### Theorems

For all sets of processes, threads, keys, values and calls, and all bounds:

| theorem | assumes | states |
|---|---|---|
| `CfgInvariant` | `MarksAreNoObjects`, `CallsAreKnown` | `CfgSpec => []CfgBasics` |
| `CfgImplements` | the same | `CfgSpec => ImplementsStore` |
| `CfgCacheHonest` | the same, `WindowCovers` | `CfgSpec => []CacheIsHonest` |
| `CfgTokenStable` | the same without it, `OnlyEnsureWritesToken` | `CfgSpec => []TokenIsStable` |
| `GlobLawHolds` | – | `GlobLaw`, for every pattern and text |
| `PolicyLawHolds` | texts are sequences, fields have their kinds | `PolicyLaw`, for every set of rules and action |
| `EnvSticks` | – | `EnvSpec => [](EnvTypeOK /\ StickyPersistence)` |
| `PkgInvariant` | – | `PkgSpec => [](PkgTypeOK /\ GrantsFollowPackages)` |
| `DocInvariant`, `DocsStayConsistent` | – | `DocSpec => []DocInv`, `DocSpec => []DocsConsistent` |
| `FieldLawHolds` | the values are a set of JSON values | `FieldLaw`, for every document, path and value |
| `ActInvariant`, `EchoesSurvive`, `GuardSurvives` | – | `ActSpec => [](ActTypeOK /\ NoMaskStored)`, `=> SecretsSurviveEcho`, `=> GuardHolds` |
| `RedactionReturns` | paths are sequences | `RoundTrip` and `MaskHides`, for configs of any shape |
| `SecInvariant`, `TypInvariant`, `FilInvariant`, `StoresKeep` | – | each store's part of `KeptUntilDeleted`, and the whole |
| `StoresKeepTypes` | as `CfgInvariant` | all the specifications together `=> []TypesOK` |

*Assumptions.* `MarksAreNoObjects`: the marks for a missing, empty or torn file and for
an error are no JSON objects; in the code they are no texts at all. `CallsAreKnown`: only
the mutators of `ConfigService` write. `WindowCovers`: the racy window is at least the
coarseness of file times plus the pause of a thread, which is what the comment on
`RACY_WINDOW` asks of it (solx-config/src/lib.rs:123-131). `OnlyEnsureWritesToken`: no
caller writes the token's key by hand; `set` and `patch` would let one, and then the
property is not meant. The `ASSUME`s of the modules say no more than that the constants
have their kinds and that a mark (`BadType`, `Absent`, `Omitted`, `Nobody`, the root of
the files) is none of the values it stands beside.

*Configuration.* `CfgBasics` says which thread holds which lock at which step, and that
what a thread is about to write is its call applied to the object that was in the file
when it took the lock; from that the refinement follows step by step: reads, stats and
truncations stutter, the write commits, and only a fault inside a write loses the object.
`CfgTiming` adds, for the cache, that a snapshot stamped at a time vouches for the file
only if the file is older than that by a granule and a pause; every write makes the file
too young to be vouched for by any earlier stamp. `CfgTokens` adds that every value in
hand, cached or read, has the committed object's token or none.

*Policy.* A glob is matched by a loop over two pointers that goes back to the last star. A
pattern stands for a text if the text can be cut into pieces, one for each character of the
pattern (`Cuts`); the model's loop is a function of the number of turns. `GlobRuns` says
that a set of states that the loop starts in and no turn leaves holds the state it ends in,
and that it does end: with each turn a measure goes down (`GlobGoesDown`). `GlobSound`
keeps a cut of what was passed. `GlobComplete` keeps, for a cut of the whole text, that the
last star does not end before the mark (`OnTheWay`), so that going back never gives a match
away (`StarEndsLater`).

*Documents.* `DocInv` needs three things that the property does not say: an id belongs to
one key (`DocIdsApart`), a write that is marked as alone is (`AloneIsAlone`), and such a
write has done exactly the statements before its next one (`DocOnCourse`).

*Fields of documents.* A walk along a path (`Reached`, `MadeWay`) is a function of the number
of segments, and `PutBack` goes the same way back. `IsJson` says of a set of values that the
items of its arrays and the fields of its objects are in it, and all arrays and objects of
its members; it has no depth. What is put back at the end of a path is read there
(`ReadBack`), because each step down finds what the step back put there (`ReadsNew`). A
path that leads elsewhere leaves the walk at some segment: up to there it meets the new
values, and from there on the ones that were (`OthersStay`). Making room takes no child away
(`RoomKeeps`). Two paths lead to one place also if they spell an index differently, as `0`
and `00` do (`SameSegment`), and the law takes them for one.

*Packages.* The grants left over are those of the job in progress, of one that failed, or
of an earlier record; `PkgBasics` says which, for each step of an install and uninstall. The
grants missing are in `pkgLost`, where only an uninstall that read an empty list puts any,
and which an install takes its own from.

*Files.* `FilKeeps`: nothing is known of a file while somebody is about to write or remove
it. `FilParents`: what is there has its parent, so a directory with a kept file below it
is never found empty. `FilTended`: an empty one is on some thread's way up or down.

*Environment variables, actions, types, secrets.* What a call holds between two
statements is related to what is stored: for variables, the config is ahead of memory by
the calls in flight; for actions, the row a save will write has no mask in it, and every
mask of its input has been replaced from the row it read, unless that row was hit since.

## Scripts and other pure parts (`MCLaws`, in the run `Stores`)

`ScriptText` is the scanners of `lib.rs` and `block.rs` (comments, statements, stages,
arguments), `ScriptLex` the lexer and `ScriptExpr` the parser and evaluator of `expr.rs`,
`Script` the block parser and the interpreter. A text is a sequence of characters in which
a word counts as one. `ScriptsRunAsWritten` compares the tree that the block parser
builds, as the interpreter runs it, with a machine that runs the flat list by jumps, for
all lists of 5 statements over 11 kinds.

`LawsHold` holds on every input `MCLaws` enumerates, one initial state each:

| law | inputs | says |
|---|---|---|
| `ExprLaw` | expressions of depth 2 | a tree is written and parsed back; `!`, `&&`, `\|\|` obey logic |
| `LexLaw` | strings of 2 characters of 10 kinds, references, numbers, signs, in every way to quote them | the tokens are those meant, and the scanners leave the text whole |
| `QuotesAgree` | all texts of 5 quotes, backslashes and separators | where the lexer ends a string, so do the scanners |
| `StatementsAreFound`, `ArgumentsAreFound` | two statements, two stages, with separators in their quotes | they come apart as they were put together |
| `FieldLaw` (also proved) | documents of depth 2, paths of 3, an index in two spellings | a field is set where it is read, and nothing else changes |
| `GlobLaw`, `PolicyLaw` (also proved) | patterns and texts of 3; two rules | a pattern matches what it denotes, at least in a text without a `*`; rules only add marks, and no edit takes one off |
| `PagesLaw` | 3 rows, all options | pages are the rows asked for, each once; a search without hidden rows shows none and misses none its plain page has |
| `ParamsLaw` | two keys of 3 | a value is found under either spelling, none is replaced, a second pass changes nothing, for plain keys |
| `PathLaw` | texts of 4 | a reference comes apart as it was joined; a path is its own normal form, unless a segment has blanks at an edge |
| `RoundTrip`, `MaskHides` (also proved) | configs of 3 leaves | an echo undoes the mask; the mask hides what is protected |
| `ToolNameLaw` | paths of 2 segments, underscores anywhere | a name leads back to its action: always in base 32, in the readable form where segments are plain |
| `RouterLaw`, `ProgressLaw` | 3 rows; 3 polls | cursors meet every visible action once, and a tool shown runs that action; a caller is told each entry once, in order, if the rest fits one read |
| `ScopeLaw` (also proved) | every handler and kind of parameters | no parameter prints on a console, or asks of an invocation, that is not the caller's |

## Execution (runs `Actors` and `Stream_cap`)

As above, in `MCActors` `part` chooses one of five machines that share nothing here.

| code | model | what is left out |
|---|---|---|
| `run_command`; loopback handlers | `CmdStart`, `CmdFeed`, `CmdDrain`, `CmdEnds`, `CmdTimeout`, `CmdAborted`; the child's `ChildReads`, `ChildWrites`, `ChildForks`, `ChildExits`; `ChildPosts`, `Handle` | what is printed; a pipe is a number |
| `start_stream`, `read_stream`, `push_line`, `poll`, `close` | `StrStart`, `StrCheck`, `StrNext`, `StrBytes`, `StrPush`, `StrEnd`, `StrFinish`; `StrFind`, `StrRead`; `StrClose` | bytes: a line has a size as it came and one as it is kept |
| `oauth_start`, `oauth_await`, callback, `stop_listener` | `OauReclaim`, `OauSupersede`, `OauBind`, `OauInboxPut`, `OauRegister`; `OauAwait`, `OauTake`, `OauTimesOut`, `OauCancelled`, `OauRelease`; `OauCallback`, `OauShutdown`, `OauExpire`; `OauStop` | HTML, PKCE |
| `resolve_auth`, `exchange_refresh_token`, `persist_rotated_refresh_token` | `AuthBegin`, `AuthCached`, `AuthMiss`, `AuthPost`, `AuthPersist`, `AuthPut`, `AuthUse`, `AuthSign` | the JWT |
| `exec_as_with_inner`, host calls, `script-exec`, redirects | `DspEnter`, `DspCheck`, `DspPolicy`, `DspToken`, `DspSend`, `DspRedirect`, `DspReturn`, `DspTimeout`, `DspEdit`, `DspLook` | bodies; the WASM engine |

| property | what it says | how it could be wrong |
|---|---|---|
| `StreamAccounted` | lines in order, none twice, what is missing counted, the end after the last | an eviction between two polls; the end pushed while a poll reads |
| `AbandonedStreamEnds` | a stream nobody polls ends | a reader that waits for bytes alone |
| `CommandSettles` | a run whose child leaves nothing behind ends | stdin written to the end before stdout is read |
| `LoginReachable` | while a listener serves, someone can have its result | a receiver dropped by a timeout or a cancelled call |
| `PortGivenBack` | a listener nobody needs closes | the guard not run on one of the ways out |
| `RefreshSound` | `RotationKept` and `HandedIsLive` | overlapping refreshes; a lifetime counted from the wrong moment |
| `CallsStayInBounds` | `SecretsOfNearest` and `HopsAllowed` | an inner script with its caller's keys; a redirect off the lists; an edit in the middle |

*The gate.* A request's URL is checked by one reading of the allowlist (`DspCheck`), and its
redirects are held to the copy that `redirect_policy` takes by a second one (`DspPolicy`). A
reading gives the list in force, or an empty one, or, from a file half written, the list the
process had read last (`DspReads`). `lists` keeps the lists of a frame's time: those in force
since it began and the one last read by then. `HopsAllowed` says that the URL was on one of
them and all redirects on one of them. It does not say that these are the same, and they need
not be. What a webhook posts to its token endpoint passes no gate (`DspToken`), and nothing
here bounds it. The docs promise more on both counts (see the disagreements). An OAuth code
exchange goes to the checked URL by the checked client and is a `DspSend`.

*Fairness.* `WF` of the stream's reader and clock: the runtime wakes the reader at its
tick at the latest, and time goes on. `WF` of the parent and of the child: both are
scheduled; neither a timeout nor an abort is counted on, nor the exit of a process left
behind. `WF` of the server task and of a call's guard being dropped: the runtime runs
them. No caller, browser or endpoint is assumed to do anything.

*Bounds.* One poller and 3 lines over a buffer that holds two, so that every
line can be evicted or read in part; pipes of one unit and params of two, so that each
side can block; two calls of auth and three tokens, a clock of 2, lifetimes of 2 and 3
with a skew of 2, so that a token may be dead when cached; two flows and two awaits on
one port; calls 3 deep, 1 edit or reading by another request, 2 redirects.

### Theorems

For all sets of callers, flows, actions, URLs, programs and sizes, and all bounds:

| theorem | assumes | states |
|---|---|---|
| `StrInvariant`, `StrAccounted` | – | `StrSpec => [](StrTypeOK /\ StrIInv)`, `=> []StreamAccounted` |
| `OauInvariant`, `OauLoginReachable` | – | `OauSpec => [](OauTypeOK /\ OauIInv)`, `=> []LoginReachable` |
| `StrWindsDown` | – | once nobody polled for `idle_ttl`, each step of the reader is one of a few it has left |
| `OauWindsDown` | – | a listener whose result was taken or that was stopped is on its way out and stays so |
| `CmdInvariant` | – | `CmdSpec => []CmdInv` |
| `CmdWindsDown` | – | while a run is on, each step of parent or child leaves less to do |
| `CmdNeverStuck` | – | while a run is on and no process is left behind, the parent can feed, drain or end, or the child can go on |
| `CmdTokenEndsWithRun` | – | after a run its result stands and no request is let in |
| `DspInvariant`, `DspCallsStayInBounds` | – | `DspSpec => []CallsStayInBounds`, and the types; token endpoints are outside of it |
| `AuthKeepsTypes` | – | `AuthSpec => []AuthTypeOK` |
| `AuthInvariant`, `AuthRefreshSound` | `OnePlace`, `CachedInTime` | `AuthSpec => [](AuthTypeOK /\ AuthIInv)`, `=> []RefreshSound` |
| `ActorsKeepTypes` | – | all the specifications together `=> []TypesOK` |

*Assumptions.* `OnePlace`: a config names one place for its refresh token; with two the
property is false (below). `CachedInTime`: an answer is cached before the safety margin is
over (the 60 s that `cache_put` takes off, solx-actions/src/auth.rs:95-97) and before the
token it brought expires.

*Streams.* `LinesInPlace`: the buffer is the last lines pushed, numbered from `base`, and
what is not in it has been dropped or not yet pushed; `ReaderInPlace` says what the reader
has split off. `CallerTold` follows for each caller by its cursor: what it was handed and
what it was told it missed fill the lines before it. *Logins.* `OneOwner` and `Reachable`:
the receiver of a flow is in the inbox or in the hands of one call, and a served flow that
nobody stopped has both its handle and its receiver. *Authentication.* `OneWriter`: the
token honoured is the stored one, or exactly one call has it and will store it, and then
no other call holds it, sends it or has a config with it. *Dispatch.* `FrameInBounds` says of
each frame at which stage its request is and from which of the lists of its time its URL and
its policy came; the list last read is one of them too, or empty. What a caller is depends on
the frames below, so that a call or a return changes it at the top only. *Commands.* The argument is about guards, not about time: if the child
cannot write, the parent can drain that pipe; if it cannot read, the parent can feed.

*Winding down.* Each of the three liveness properties has a part that steps decide, and that
part is proved. A run has only so much work: `CmdWork` weighs the child's steps and the
payload that is not written yet against what is in the pipes, so that a step that fills a
pipe still counts less than the one it follows from. A reader past its `idle_ttl` has
`StrLeft` steps to take, and what arrives does not add to them. A listener that `OauWinds`
has a closed server, a signal, or a call that is about to send one, and no other call takes
these away.

*Model-checked only.* `AbandonedStreamEnds`, `CommandSettles`, `PortGivenBack` (liveness).

## Disagreements between the code and what it says

1. **Seqs are reused after a sweep** (`Console_reuse`). The module doc says seq is
   "monotonic per console, never reused even across eviction" (console.rs:27-29).
   `sweep_expired` deletes a console's entries and then its row, in two statements
   (console.rs:541-553). A print by another process in between keeps its entry while
   the counters go; the console starts again at 1 and in time claims the seq of the
   entry that is there, and that print fails on the primary key.
2. **A second process interrupts live runs** (`Invocations_orphans`). `open` marks every
   non-terminal row as having "no task behind it anymore" (solx-actions/src/lib.rs:136-141).
   A CLI opened beside a running server marks the server's runs, whose own outcome is
   then discarded because the row is terminal.
3. **A forced stop may miss the task** (`Invocations_early`). `force_abort` is to "abort
   the task behind `invocation_id` if it is still running, and mark the row `cancelled`"
   (solx-actions/src/invocation.rs:164-165). The task is spawned before its handle is
   stored (:79-95), and its console entries carry the id; a stop in that window marks
   the row while the task runs to its end.
4. **A stream's buffer outgrows its cap** (`Stream_cap`). The module doc promises "a
   max-buffered-bytes cap (oldest chunks are dropped on overflow, counted in `dropped`)"
   (solx-actions/src/internal/http_stream.rs:23-24). `push_line` adds the size a line came
   in and takes off, when it evicts, the size its JSON text has (:272-278). A line that is
   no JSON is kept in a longer form, so the count falls behind what is held.
5. **A get may clear a live secret** (`Secrets_heal`). An entry is to be cleared "if one
   exists but can't be decrypted" (solx-actions/src/secrets.rs:255-256). The deletion is by
   name, after the read (:263-271), and takes a secret that was set in between.

Others met while reading, which no run checks; of the first three the model has the steps,
and `CallsStayInBounds` and `GrantsFollowPackages` claim no more than the code keeps:

- *Redirects.* The doc speaks of a policy "that holds every hop to the same allowlist as the
  original request" (solx-actions/src/net.rs:67-68). `run_webhook` reads the list at
  exec.rs:267, awaits a console write, and reads it again at :273 (`DspCheck`, `DspPolicy`);
  an edit in between, or a config read half written, meets the redirects alone.
- *Token endpoints.* The module doc speaks of "One check, shared by every path that can make
  solx reach the network on a caller's behalf" (solx-actions/src/net.rs:3-4). A refresh or a
  service account's exchange posts to its `token_uri` without it
  (solx-actions/src/auth.rs:465, 662; `DspToken`).
- *Shared grants.* Uninstall is to revoke what a package granted "unless another installed
  package still declares the same key/prefix" (solx-packages/src/lib.rs:210-212). The others
  are listed without the lock (:234); in the moment another process has truncated the config
  to rewrite it, the list is empty and what they share is revoked (`Listed`, `pkgLost`).
- *Configuration.* A thread held up between the read and its stamp, longer than the racy
  window, can pair its snapshot with another's stamp (solx-config/src/lib.rs:123-131,
  289-293); `MaxPause` states the assumption.
- *Authentication.* A refresh token is read inline or from the keyring before the secret
  store, but a rotated one is written to the secret store first, so a config that names
  both goes on reading the spent one. A rotation saved over a config read before an edit or
  a login undoes it. The token cache is keyed by path and name, so after an edit of the
  configuration the old token is served until it expires; `clear_auth_cache` is called by
  tests only.
- *Documents.* `set-field-at-path` with `create` fails on a path through a missing array.
  Deletion says "no separate cleanup needed" of references, but an overlapping save can
  insert them after it.
- *Masking.* "Every string under auth": items of arrays and a bare string stay readable.
- *Files and paths.* `normalize_rel` is documented to reject absolute paths and drops a
  leading `/`. `normalize_path` is not canonical for `a /`. Prefixes of listings go to `LIKE`
  unescaped, so `_` and `%` are wildcards and case is ignored.
- *Parameters.* `normalize_params` is called idempotent and is not for keys such as `a__b`.
- *OAuth.* After a timeout the receiver is put back though its server may be gone; two
  starts on one port at once: the second bind fails; the browser is told "Sign-in complete"
  for an unknown state.
- *Scripts.* `$a == 1;` as a statement parses as an assignment. `${x}` in a quoted
  argument of a stage is not filled. The second half of a surrogate pair is not checked
  (solx-scripts/src/expr.rs:338-345). `scan_bracketed` escapes anything in quotes, the other
  scanners only the quote. A wait of NaN is one of 300 s.
- *Policy.* A literal `*` in the text matches a `*` of the pattern without going back.
- *Listing.* A search without hidden rows fetches in batches that can repeat rows, and its
  total counts them.
- *Streams and commands.* An ended stream stays registered until closed. A late print of a
  child lands after its run settled. A WASM timeout is an `Ok` with `success = false`.
  Detached webhooks inherit the 300 s default.
- *MCP.* Segments with underscores at an edge collide (`/a_`, `b` and `/a`, `_b`) though the
  doc claims no collisions (solx-mcp/src/tools.rs:37-40); a first segment that starts with
  the marker is taken as opaque. The last console read of a call is one page, so a call
  that prints more loses the rest though "nothing printed … is lost" is promised; the
  catalogue's cursor is a position in a list that changes.

## Not modelled

- *Front ends* (CLI, HTTP server, client, Tauri plugin, WASM bindings): they translate
  requests into calls of the managers and keep no state of their own.
- *Wiring*: construction order, traits of `solx-surface`, error types, the catalogues of
  built-in actions and types (data).
- *Libraries*: the WASM engine, JSON-schema validation, ciphers, HTTP, SQLite beyond
  what a statement and a transaction guarantee, the MCP protocol.
- *Execution*: built-in handlers that only pass parameters on; the arguments of an exec
  stage and the messages of the script runner.
- *Listing*: the order of rank in which a text search gives its rows (SQLite's), and the cap
  of 1000 on a fetch that makes up for hidden rows, which is beyond the inputs of `PagesLaw`.
- *Composition of* `Console` *and* `Invocations`: see the plan.

## Limits of the method here

Liveness under fairness is checked by TLC only: `TailDelivers`, `RunSettles`,
`StopSettles`, `AbandonedStreamEnds`, `CommandSettles`, `PortGivenBack`. For each of them a
theorem states the part that steps decide, that what is promised can still happen and that
no step puts it off (`ConsoleTailGoesOn`, `NoZombieRuns`, `StopsGoThrough`,
`StrWindsDown`, `CmdNeverStuck` and `CmdWindsDown`, `OauWindsDown`); that the steps are
taken is what the fairness conditions say, and no theorem uses them.

`ScriptsRunAsWritten` and the laws of `ScriptText`, `ScriptLex`, `ScriptExpr`, `Script`,
`Paths` and `Mcp` are checked by TLC only, because they use recursive
operators that the provers cannot take; so are those of `Params` and `Listing`, which rest
on folds and sorting of the library (`FlattenSeq`, `SetToSortSeq`): what these compute for
every input needs an induction over data. Induction over the naturals, on a property
written as a set, is within reach and is in `NaturalOrder`, as is the fact that a step can
be iterated (`Iteration`, `IterationAlong`), which gives a recursive function on the
naturals its values; `GlobLaw` and `FieldLaw` are proved with both. `RoundTrip`, `MaskHides` and `ScopeLaw`, laws without
recursion, are proved directly.

One fact about the prover matters here. Its translation for the SMT solver (tlapm 1.4.5)
gives every value with a length the domain `1 .. Len(s)`, also a value that is no sequence,
so a leaf with a `Len` beside a function on `0 .. n` has contradictory hypotheses and proves
anything. All proofs, those of `GlobLaw` and `FieldLaw` above all, where such leaves occur,
were therefore also checked with that axiom cut down to what holds: whatever has the
domain `1 .. n` has the length `n`. To repeat it, run `tlapm --solver` with a script that
replaces the equivalence of `DOMAIN s = 1 .. n` and `Len(s) = n` in its input by the
implication from left to right and passes it on to `z3`.

The proofs rest on the `ASSUME`s of the modules, which TLC evaluates in every run, on the
assumptions stated with each theorem, and on the library theorems about finite sets and
sequences. They are about each component by itself, as the runs are; `StoresKeep`,
`StoresKeepTypes` and `ActorsKeepTypes` put them side by side.

## Plan

1. Laws of `Paths`, with recursive functions in place of operators.
2. **InvocationConsole**: the composition of `Console` and `Invocations` with the
   loopback's tokens: `console_seq_start`, late prints, orchestrators that drain a child.
