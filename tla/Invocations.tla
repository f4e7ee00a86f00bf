---------------------------- MODULE Invocations ----------------------------
(***************************************************************************)
(* Detached invocations: `action-start` writes a row of the `invocations`  *)
(* table and spawns a task that runs the action, writes its outcome and    *)
(* forgets its abort handle; `action-stop` requests a cancel and, after a  *)
(* grace period, aborts the task through that handle and marks the row.    *)
(* Every process that opens an action manager first marks the rows left    *)
(* behind by crashed processes and sweeps the expired ones.                *)
(*                                                                         *)
(* The table is shared by all processes; abort handles and tasks are in    *)
(* the memory of the process that started them.  A SQL statement is atomic.*)
(***************************************************************************)
EXTENDS Integers, FiniteSets

CONSTANTS
  Invs,            \* invocation ids (v4 UUIDs: each is started at most once)
  Procs,           \* processes that open the action manager
  Hosts,           \* those that called set_long_lived_host(true)
  Stoppers,        \* bound: `action-stop` calls and grace watchers in flight
  IdsFromConsole,  \* TRUE: a client may learn an id from the run's console
                   \* entries, before `action-start` has returned it
  MaxOpens,        \* bound: how often a process is opened
  MaxFaults        \* bound: database errors and panics

ASSUME InvocationsAssumption ==
  /\ Invs # {} /\ Procs # {} /\ Hosts \subseteq Procs
  /\ IdsFromConsole \in BOOLEAN
  /\ MaxOpens \in Nat /\ MaxFaults \in Nat

VARIABLES
  row,      \* table `invocations`
  start,    \* progress of start_invocation, and the process it runs in
  task,     \* the spawned task of each invocation
  aborted,  \* tasks on which AbortHandle::abort was called
  running,  \* per process, the ids that have a handle in `running`
  proc,     \* per process, how far LocalActionManager::open has got
  stop,     \* stop_invocation calls and their watchers
  opens, faults

vars == <<row, start, task, aborted, running, proc, stop, opens, faults>>

----------------------------------------------------------------------------
Live == {"running", "cancelling"}
Terminal == {"ok", "failed", "cancelled", "interrupted"}  \* is_terminal
NoRow == [st |-> "absent", cancel |-> FALSE, old |-> FALSE]
Alive == {"exec", "finish_ok", "finish_failed", "remove"}

Row == [st: {"absent"} \union Live \union Terminal, cancel: BOOLEAN, old: BOOLEAN]
Start == [pc: {"unused", "spawn", "insert", "returned", "lost"}, proc: Procs]
Opening == [pc: {"down", "orphans", "finish", "delete", "up"}, todo: SUBSET Invs]
Stop == [pc: {"idle", "abort", "mark"}, proc: Procs, inv: Invs]

TypeOK ==
  /\ row \in [Invs -> Row]
  /\ start \in [Invs -> Start]
  /\ task \in [Invs -> {"none", "done", "gone"} \union Alive]
  /\ aborted \in SUBSET Invs
  /\ running \in [Procs -> SUBSET Invs]
  /\ proc \in [Procs -> Opening]
  /\ stop \in [Stoppers -> Stop]
  /\ opens \in Nat
  /\ faults \in Nat

NoStop == [pc |-> "idle", proc |-> CHOOSE p \in Procs : TRUE,
           inv |-> CHOOSE i \in Invs : TRUE]

Init ==
  /\ row = [i \in Invs |-> NoRow]
  /\ start = [i \in Invs |-> [pc |-> "unused", proc |-> CHOOSE p \in Procs : TRUE]]
  /\ task = [i \in Invs |-> "none"]
  /\ aborted = {}
  /\ running = [p \in Procs |-> {}]
  /\ proc = [p \in Procs |-> [pc |-> "down", todo |-> {}]]
  /\ stop = [c \in Stoppers |-> NoStop]
  /\ opens = 0
  /\ faults = 0

UpEarly(p) == proc[p].pc # "down"  \* mutant: open returns before its passes
Up(p) == proc[p].pc = "up"
Host(i) == start[i].proc
Fault == faults < MaxFaults /\ faults' = faults + 1

\* Mutants of finish: no status test in the WHERE; only 'running' in it.
FinishAlways(i, st) == row' = [row EXCEPT ![i].st = st, ![i].old = FALSE]
FinishRunning(i, st) ==
  row' = IF row[i].st = "running"
           THEN [row EXCEPT ![i].st = st, ![i].old = FALSE] ELSE row

\* finish: UPDATE .. WHERE invocation_id = i AND status IN (running, cancelling).
Finish(i, st) ==
  row' = IF row[i].st \in Live
           THEN [row EXCEPT ![i].st = st, ![i].old = FALSE] ELSE row

----------------------------------------------------------------------------
(* start_invocation: create the row, spawn the task, then store its handle. *)

StartCreate(p, i) ==
  /\ p \in Hosts /\ Up(p)
  /\ start[i].pc = "unused"
  /\ row' = [row EXCEPT ![i] = [st |-> "running", cancel |-> FALSE, old |-> FALSE]]
  /\ start' = [start EXCEPT ![i] = [pc |-> "spawn", proc |-> p]]
  /\ UNCHANGED <<task, aborted, running, proc, stop, opens, faults>>

StartSpawn(i) ==
  /\ start[i].pc = "spawn"
  /\ start' = [start EXCEPT ![i].pc = "insert"]
  /\ task' = [task EXCEPT ![i] = "exec"]
  /\ UNCHANGED <<row, aborted, running, proc, stop, opens, faults>>

StartInsert(i) ==
  /\ start[i].pc = "insert"
  /\ start' = [start EXCEPT ![i].pc = "returned"]
  /\ running' = [running EXCEPT ![Host(i)] = @ \union {i}]
  /\ UNCHANGED <<row, task, aborted, proc, stop, opens, faults>>

----------------------------------------------------------------------------
(* The spawned task.  Abort takes effect when the task next yields, so an    *)
(* aborted task may still take steps before it is dropped.                   *)

\* exec_as_with returned: success, or a failed result or error.  A child that
\* sees the cancel flag exits by itself, which is one of these two.
TaskExec(i, outcome) ==
  /\ task[i] = "exec"
  /\ task' = [task EXCEPT ![i] = IF outcome = "ok" THEN "finish_ok" ELSE "finish_failed"]
  /\ UNCHANGED <<row, start, aborted, running, proc, stop, opens, faults>>

TaskFinish(i) ==
  /\ \/ task[i] = "finish_ok" /\ Finish(i, "ok")
     \/ task[i] = "finish_failed" /\ Finish(i, "failed")
  /\ task' = [task EXCEPT ![i] = "remove"]
  /\ UNCHANGED <<start, aborted, running, proc, stop, opens, faults>>

\* `let _ = finish(..)`: the error is ignored.
TaskFinishFails(i) ==
  /\ task[i] \in {"finish_ok", "finish_failed"}
  /\ task' = [task EXCEPT ![i] = "remove"]
  /\ Fault
  /\ UNCHANGED <<row, start, aborted, running, proc, stop, opens>>

TaskRemove(i) ==
  /\ task[i] = "remove"
  /\ task' = [task EXCEPT ![i] = "done"]
  /\ running' = [running EXCEPT ![Host(i)] = @ \ {i}]
  /\ UNCHANGED <<row, start, aborted, proc, stop, opens, faults>>

TaskDropped(i) ==
  /\ i \in aborted /\ task[i] \in Alive
  /\ task' = [task EXCEPT ![i] = "gone"]
  /\ UNCHANGED <<row, start, aborted, running, proc, stop, opens, faults>>

\* A panic unwinds the task: neither the row nor the handle is touched.
TaskPanics(i) ==
  /\ task[i] = "exec"
  /\ task' = [task EXCEPT ![i] = "gone"]
  /\ Fault
  /\ UNCHANGED <<row, start, aborted, running, proc, stop, opens>>

----------------------------------------------------------------------------
(* stop_invocation.  With `force` the abort follows at once, without it a     *)
(* watcher does the same after the grace period; the two differ in time only. *)

Known(i) ==
  \/ start[i].pc = "returned"
  \/ IdsFromConsole /\ task[i] # "none"

\* Mutants: the status keeps saying 'running' until the task is aborted; a
\* status no reader knows.
RequestCancelTypo(R) ==
  [R EXCEPT !.cancel = TRUE, !.st = IF @ = "running" THEN "canceling" ELSE @]
RequestCancelFlag(R) == [R EXCEPT !.cancel = TRUE, !.old = FALSE]
RequestCancel(R) ==
  [R EXCEPT !.cancel = TRUE, !.old = FALSE,
            !.st = IF @ = "running" THEN "cancelling" ELSE @]

\* A terminal row is a no-op that reports its status; an absent one NotFound.
StopRequest(c, p, i) ==
  /\ stop[c].pc = "idle" /\ Up(p)
  /\ Known(i) /\ row[i].st # "absent"
  /\ row' = [row EXCEPT ![i] = RequestCancel(@)]
  /\ stop' = IF row[i].st \in Live
               THEN [stop EXCEPT ![c] = [pc |-> "abort", proc |-> p, inv |-> i]]
               ELSE stop
  /\ UNCHANGED <<start, task, aborted, running, proc, opens, faults>>

\* Mutant: the handle is dropped from the map without being aborted.
ForceAbortDetach(c) ==
  LET s == stop[c] IN
  /\ s.pc = "abort"
  /\ running' = [running EXCEPT ![s.proc] = @ \ {s.inv}]
  /\ stop' = [stop EXCEPT ![c].pc = "mark"]
  /\ UNCHANGED <<row, start, task, aborted, proc, opens, faults>>

\* force_abort: take the handle out of this process's map, if it is there.
ForceAbort(c) ==
  LET s == stop[c] IN
  /\ s.pc = "abort"
  /\ IF s.inv \in running[s.proc]
       THEN /\ running' = [running EXCEPT ![s.proc] = @ \ {s.inv}]
            /\ aborted' = aborted \union {s.inv}
       ELSE UNCHANGED <<running, aborted>>
  /\ stop' = [stop EXCEPT ![c].pc = "mark"]
  /\ UNCHANGED <<row, start, task, proc, opens, faults>>

MarkAborted(c) ==
  /\ stop[c].pc = "mark"
  /\ Finish(stop[c].inv, "cancelled")
  /\ stop' = [stop EXCEPT ![c] = NoStop]
  /\ UNCHANGED <<start, task, aborted, running, proc, opens, faults>>

\* The UPDATE fails: the task is aborted and the row is not marked.
MarkAbortedFails(c) ==
  /\ stop[c].pc = "mark"
  /\ stop' = [stop EXCEPT ![c] = NoStop]
  /\ Fault
  /\ UNCHANGED <<row, start, task, aborted, running, proc, opens>>

----------------------------------------------------------------------------
(* LocalActionManager::open: mark_orphans, then sweep_expired.               *)

Open(p) ==
  /\ proc[p].pc = "down"
  /\ opens < MaxOpens
  /\ opens' = opens + 1
  /\ proc' = [proc EXCEPT ![p].pc = "orphans"]
  /\ UNCHANGED <<row, start, task, aborted, running, stop, faults>>

OrphansRunning == {i \in Invs : row[i].st = "running"}  \* mutant: not 'cancelling'
Orphans == {i \in Invs : row[i].st \in Live}

MarkOrphansSelect(p) ==
  /\ proc[p].pc = "orphans"
  /\ proc' = [proc EXCEPT ![p] = [pc |-> "finish", todo |-> Orphans]]
  /\ UNCHANGED <<row, start, task, aborted, running, stop, opens, faults>>

MarkOrphan(p, i) ==
  /\ proc[p].pc = "finish" /\ i \in proc[p].todo
  /\ Finish(i, "interrupted")
  /\ proc' = [proc EXCEPT ![p].todo = @ \ {i}]
  /\ UNCHANGED <<start, task, aborted, running, stop, opens, faults>>

ExpiredAny == {i \in Invs : row[i].st # "absent"}  \* mutant: no test at all
Expired == {i \in Invs : row[i].st \in Terminal /\ row[i].old}

SweepSelect(p) ==
  /\ proc[p].pc = "finish" /\ proc[p].todo = {}
  /\ proc' = [proc EXCEPT ![p] = [pc |-> "delete", todo |-> Expired]]
  /\ UNCHANGED <<row, start, task, aborted, running, stop, opens, faults>>

SweepDelete(p, i) ==
  /\ proc[p].pc = "delete" /\ i \in proc[p].todo
  /\ row' = [row EXCEPT ![i] = NoRow]
  /\ proc' = [proc EXCEPT ![p].todo = @ \ {i}]
  /\ UNCHANGED <<start, task, aborted, running, stop, opens, faults>>

Opened(p) ==
  /\ proc[p].pc = "delete" /\ proc[p].todo = {}
  /\ proc' = [proc EXCEPT ![p].pc = "up"]
  /\ UNCHANGED <<row, start, task, aborted, running, stop, opens, faults>>

\* A failing pass is logged and abandoned; it does not block startup.
PassFails(p) ==
  /\ proc[p].pc \in {"orphans", "finish", "delete"}
  /\ proc' = [proc EXCEPT ![p] =
                [pc |-> IF @.pc = "orphans" THEN "finish" ELSE @.pc, todo |-> {}]]
  /\ Fault
  /\ UNCHANGED <<row, start, task, aborted, running, stop, opens>>

\* The process exits or is killed: what is in its memory is gone.
Crash(p) ==
  /\ proc[p].pc # "down"
  /\ proc' = [proc EXCEPT ![p] = [pc |-> "down", todo |-> {}]]
  /\ running' = [running EXCEPT ![p] = {}]
  /\ task' = [i \in Invs |-> IF Host(i) = p /\ task[i] \in Alive THEN "gone" ELSE task[i]]
  /\ start' = [i \in Invs |-> IF Host(i) = p /\ start[i].pc \in {"spawn", "insert"}
                                THEN [start[i] EXCEPT !.pc = "lost"] ELSE start[i]]
  /\ stop' = [c \in Stoppers |-> IF stop[c].proc = p THEN NoStop ELSE stop[c]]
  /\ UNCHANGED <<row, aborted, opens, faults>>

\* Time: a terminal row gets older than invocation_ttl_days.
TtlPasses(i) ==
  /\ row[i].st \in Terminal /\ ~row[i].old
  /\ row' = [row EXCEPT ![i].old = TRUE]
  /\ UNCHANGED <<start, task, aborted, running, proc, stop, opens, faults>>

----------------------------------------------------------------------------
StartNext(i) == StartSpawn(i) \/ StartInsert(i)
TaskNext(i) == TaskFinish(i) \/ TaskRemove(i) \/ TaskDropped(i)
StopNext(c) == ForceAbort(c) \/ MarkAborted(c)
OpenNext(p) ==
  \/ MarkOrphansSelect(p) \/ SweepSelect(p) \/ Opened(p)
  \/ \E i \in Invs : MarkOrphan(p, i) \/ SweepDelete(p, i)

Next ==
  \/ \E p \in Procs, i \in Invs : StartCreate(p, i)
  \/ \E i \in Invs : StartNext(i) \/ TaskNext(i)
  \/ \E i \in Invs, outcome \in {"ok", "failed"} : TaskExec(i, outcome)
  \/ \E i \in Invs : TaskFinishFails(i) \/ TaskPanics(i)
  \/ \E c \in Stoppers, p \in Procs, i \in Invs : StopRequest(c, p, i)
  \/ \E c \in Stoppers : StopNext(c) \/ MarkAbortedFails(c)
  \/ \E p \in Procs : Open(p) \/ OpenNext(p) \/ PassFails(p) \/ Crash(p)
  \/ \E i \in Invs : TtlPasses(i)

Spec == Init /\ [][Next]_vars

\* The runtime polls every ready task and the grace timer fires: the steps of
\* a start, of a task that has its outcome and of a stop are not postponed for
\* ever.  Nothing says that an action ever returns, that a process is ever
\* opened again, or that anyone ever calls stop.
FairSpec ==
  /\ Spec
  /\ \A i \in Invs : WF_vars(StartNext(i)) /\ WF_vars(TaskNext(i))
  /\ \A c \in Stoppers : WF_vars(StopNext(c))

----------------------------------------------------------------------------
(* Properties.                                                               *)

\* is_terminal is "`true` once a status can never change again"
\* (invocations.rs:56), and finish lets "whichever of a natural finish or a
\* forced abort reaches the row first" win (:192-197): a terminal row keeps
\* its status until the TTL sweep deletes it, whatever task finish, grace
\* watcher, second stop and restarted process do in whatever order.
TerminalIsFinal ==
  [][\A i \in Invs : row[i].st \in Terminal => row'[i].st \in {row[i].st, "absent"}]_vars

\* The sweep selects terminal rows and deletes them by id later
\* (invocations.rs:288-309): a run still going never vanishes from the table.
LiveRowStays ==
  [][\A i \in Invs : row[i].st \in Live => row'[i].st # "absent"]_vars

\* What a poller sees and what the child sees agree: a row is cancelling or
\* cancelled only after a stop, and after a stop it no longer says running.
CancelFlagMatchesStatus ==
  \A i \in Invs :
    /\ row[i].st \in {"cancelling", "cancelled"} => row[i].cancel
    /\ row[i].cancel => row[i].st # "running"

\* A row that says the run goes on, in a table whose host process is up, has
\* something that will settle it: a start about to spawn, a task not yet
\* finished, or a stop about to mark it.  mark_orphans exists for the rest
\* (invocations.rs:262-265).  While no write failed and no task panicked.
NoZombie ==
  faults = 0 =>
    \A i \in Invs : row[i].st \in Live /\ Up(Host(i)) =>
      \/ start[i].pc = "spawn"
      \/ task[i] \in {"exec", "finish_ok", "finish_failed"} /\ i \notin aborted
      \/ \E c \in Stoppers : stop[c].pc = "mark" /\ stop[c].inv = i

\* force_abort aborts "the task behind invocation_id if it is still running"
\* and marks the row (invocation.rs:164-165): behind a cancelled row no task
\* is left running that was not told to abort.
CancelledIsAborted ==
  \A i \in Invs : row[i].st = "cancelled" /\ task[i] = "exec" => i \in aborted

\* open marks rows that have "no task behind [them] anymore"
\* (solx-actions/src/lib.rs:138-141): behind an interrupted row no task of
\* the run is left.
InterruptedHasNoTask ==
  \A i \in Invs : row[i].st = "interrupted" => task[i] \notin Alive

\* A run whose task is no longer executing reaches a terminal status, unless
\* its host is down (a later open marks it) or a write failed.
RunSettles ==
  \A i \in Invs :
    row[i].st \in Live /\ task[i] # "exec" /\ Up(Host(i))
      ~> (row[i].st \notin Live \/ task[i] = "exec" \/ ~Up(Host(i)) \/ faults > 0)

\* A stop settles the row after the grace period even if the action never
\* reacts, as long as the process that was asked stays up and can write.
StopSettles ==
  \A c \in Stoppers, p \in Procs, i \in Invs :
    stop[c] = [pc |-> "abort", proc |-> p, inv |-> i]
      ~> (row[i].st \notin Live \/ ~Up(p) \/ faults > 0)

----------------------------------------------------------------------------
(* The inductive invariant behind the safety properties.                     *)

UnusedHasNothing ==
  \A i \in Invs :
    /\ start[i].pc = "unused" => row[i] = NoRow
    /\ start[i].pc \in {"unused", "spawn"} => task[i] = "none"

HandlesAreReturned ==
  \A p \in Procs : \A i \in running[p] : Host(i) = p /\ start[i].pc = "returned"

AbortedAreReturned == \A i \in aborted : start[i].pc = "returned"

StopsAreRequested ==
  \A c \in Stoppers : stop[c].pc # "idle" =>
    /\ start[stop[c].inv].pc # "unused"
    /\ row[stop[c].inv].cancel \/ row[stop[c].inv].st = "absent"

SweepsAreSettled ==
  \A p \in Procs : proc[p].pc = "delete" =>
    \A i \in proc[p].todo : row[i].st \notin Live /\ start[i].pc # "unused"

\* Who settles a live row: its start, its task, the stop that aborted its
\* task from the same process, or the next open of its host.
HasSettler(i) ==
  \/ start[i].pc = "spawn"
  \/ task[i] \in {"exec", "finish_ok", "finish_failed"} /\ i \notin aborted
  \/ \E c \in Stoppers : stop[c] = [pc |-> "mark", proc |-> Host(i), inv |-> i]
OrphanOfOpen(i) ==
  LET P == proc[Host(i)] IN
  \/ P.pc \in {"down", "orphans"}
  \/ P.pc = "finish" /\ i \in P.todo
LiveHasSettler ==
  faults = 0 => \A i \in Invs : row[i].st \in Live => HasSettler(i) \/ OrphanOfOpen(i)

Bookkeeping ==
  /\ UnusedHasNothing
  /\ HandlesAreReturned
  /\ AbortedAreReturned
  /\ StopsAreRequested
  /\ SweepsAreSettled
  /\ CancelFlagMatchesStatus

IInv == Bookkeeping /\ LiveHasSettler

(* With one process on the database, and ids that only `action-start` hands  *)
(* out, a stop always finds the handle and an open never meets a live task.  *)

OneProcess == \A p, q \in Procs : p = q

DownHasNoTask ==
  \A i \in Invs : ~Up(Host(i)) => task[i] \notin Alive /\ start[i].pc \notin {"spawn", "insert"}

InterruptedIsOver ==
  \A i \in Invs : row[i].st = "interrupted" => task[i] \notin Alive /\ start[i].pc # "spawn"

ReturnedHasHandle ==
  \A i \in Invs : start[i].pc = "returned" /\ task[i] = "exec" =>
    i \in running[Host(i)] \/ i \in aborted

StopsAreReturned ==
  /\ \A c \in Stoppers : stop[c].pc # "idle" => start[stop[c].inv].pc = "returned"
  /\ \A c \in Stoppers : stop[c].pc = "mark" /\ task[stop[c].inv] = "exec" =>
       stop[c].inv \in aborted
  /\ \A i \in Invs : row[i].st = "cancelled" => start[i].pc = "returned"
=============================================================================
