------------------------------ MODULE Console ------------------------------
(***************************************************************************)
(* The console store of solx-console: one append-only, cursor-addressed    *)
(* log per action ref, kept in a SQLite database that every task of every  *)
(* solx process (CLI, server, MCP) opens.  Each operation is a sequence of *)
(* SQL statements; a statement is atomic, and the statements of different  *)
(* operations interleave.                                                  *)
(*                                                                         *)
(* Two operations keep a row cursor they have not read to the end in scope *)
(* until they return: `print` its RETURNING cursor (`rows`, console.rs:171)*)
(* and `clear` its COUNT cursor (`count_rows`, console.rs:451).  SQLite    *)
(* ends a statement's transaction only when the statement is finished or   *)
(* reset, so such a cursor holds the transaction of everything after it.   *)
(* HeldCursor = TRUE models that; HeldCursor = FALSE models a library that *)
(* reads the cursor ahead, so that every statement commits by itself.      *)
(***************************************************************************)
EXTENDS Integers, FiniteSets

CONSTANTS
  Refs,        \* action refs; each has at most one console
  Invs,        \* invocation ids entries are stamped with
  Clients,     \* tasks running one store operation at a time
  Readers,     \* clients that tail a console with a saved cursor
  Ops,         \* the operations the clients of an instance use
  Tailed,      \* the ref the readers tail
  CopyFrom,    \* source and
  CopyTo,      \* destination of `copy`: a child's console and its caller's
  Cap,         \* console_max_entries
  Limit,       \* the page size of `read` and `copy`
  HeldCursor,  \* see above
  SweepAlone,  \* TRUE: one process; it sweeps before it serves any operation
  MaxSeq,      \* bound: highest seq the runs claim
  MaxFaults    \* bound: how many operations fail or crash part-way

ASSUME ConsoleAssumption ==
  /\ Tailed \in Refs /\ CopyFrom \in Refs /\ CopyTo \in Refs
  /\ "copy" \in Ops => CopyFrom # CopyTo
  /\ Cap \in Nat \ {0} /\ Limit \in Nat \ {0}
  /\ HeldCursor \in BOOLEAN /\ SweepAlone \in BOOLEAN
  /\ MaxSeq \in Nat /\ MaxFaults \in Nat
  /\ Invs # {}
  /\ Ops \subseteq {"print", "copy", "clear", "sweep"}

VARIABLES
  row,      \* table `consoles`: counters and age of each console
  entries,  \* table `console_entries`
  pc,       \* the statement a client runs next
  loc,      \* the local variables of the operation in progress
  rd,       \* the readers
  drain,    \* per invocation, the cursor its caller saved from the last `copy`
  evicted,  \* history: entries deleted by eviction
  faults    \* operations that have failed part-way so far

store == <<row, entries>>
vars == <<row, entries, pc, loc, rd, drain, evicted, faults>>

----------------------------------------------------------------------------
(* Rows and entries.  `meta` reads an absent row as zeros.                  *)

NoRow == [next |-> 0, first |-> 0, dropped |-> 0, fresh |-> FALSE]
Row == [next: Nat, first: Nat, dropped: Nat, fresh: BOOLEAN]
Entry == [seq: Nat, inv: Invs, org: Nat]  \* org: seq it was copied from, or 0

Seqs(E) == {e.seq : e \in E}
Below(E, s) == {e \in E : e.seq < s}
From(E, s) == {e \in E : e.seq >= s}
Rank(e, E) == Cardinality(Below(E, e.seq))
Page(E) == {e \in E : Rank(e, E) < Limit}
IsLast(e, E) == e \in E /\ \A f \in E : f.seq <= e.seq
AfterSame(e) == e.seq           \* mutant: the last entry again
AfterTip(e) == row[Tailed].next \* mutant: the tip instead of the page's end
After(e) == e.seq + 1  \* the next_cursor of a page whose last entry is e

\* Mutant of ClaimRow: a new row keeps the column default next_seq = 1.
ClaimRowDefault(R, n) ==
  IF R = NoRow THEN [next |-> 1, first |-> 1, dropped |-> 0, fresh |-> TRUE]
               ELSE [R EXCEPT !.next = @ + n, !.fresh = TRUE]

\* The upsert that claims n seqs: its first seq and the row it leaves.
Claimed(R) == IF R = NoRow THEN 1 ELSE R.next
ClaimRow(R, n) ==
  IF R = NoRow THEN [next |-> 1 + n, first |-> 1, dropped |-> 0, fresh |-> TRUE]
               ELSE [R EXCEPT !.next = @ + n, !.fresh = TRUE]
CanClaim(r, n) == Claimed(row[r]) + n <= MaxSeq + 1

\* evict_if_over_cap: at least a tenth of the cap, at least the overflow.
MinOf(a, b) == IF a <= b THEN a ELSE b
MaxOf(a, b) == IF a >= b THEN a ELSE b
OverCapLate(first, next) == next - first > Cap + 1  \* mutant: off by one
OverCap(first, next) == next - first > Cap
NewFirstTenth(first, next) ==  \* mutant: a tenth of the cap, whatever the overflow
  MinOf(first + (Cap + 9) \div 10, next)
NewFirst(first, next) ==
  MinOf(first + MaxOf(next - first - Cap, (Cap + 9) \div 10), next)
\* Mutants: one batch counted as one entry, the DELETE's bound overshot, a swap.
EvictRowOne(R, first, to) == [R EXCEPT !.first = to, !.dropped = @ + 1]
EvictRowPast(R, first, to) == [R EXCEPT !.first = to + 1, !.dropped = @ + (to - first)]
EvictRowSwap(R, first, to) == [R EXCEPT !.first = to, !.dropped = @ + (first - to)]
EvictRow(R, first, to) == [R EXCEPT !.first = to, !.dropped = @ + (to - first)]

NoLoc == [ref |-> Tailed, inv |-> CHOOSE i \in Invs : TRUE, seq |-> 0,
          first |-> 0, to |-> 0, batch |-> {}, todo |-> {}, copying |-> FALSE]

Labels == {"idle", "print_insert", "copy_tx", "evict_meta", "evict_delete",
           "evict_update", "clear_delete", "clear_update", "sweep_entries", "sweep_row"}
Loc == [ref: Refs, inv: Invs, seq: Nat, first: Nat, to: Nat, batch: SUBSET Entry,
        todo: SUBSET Refs, copying: BOOLEAN]
Reader == [cursor: Nat, seen: SUBSET Nat]

TypeOK ==
  /\ row \in [Refs -> Row]
  /\ entries \in [Refs -> SUBSET Entry]
  /\ pc \in [Clients -> Labels]
  /\ loc \in [Clients -> Loc]
  /\ rd \in [Readers -> Reader]
  /\ drain \in [Invs -> Nat]
  /\ evicted \in [Refs -> Nat]
  /\ faults \in Nat

Init ==
  /\ row = [r \in Refs |-> NoRow]
  /\ entries = [r \in Refs |-> {}]
  /\ pc = [c \in Clients |-> "idle"]
  /\ loc = [c \in Clients |-> NoLoc]
  /\ rd = [q \in Readers |-> [cursor |-> 0, seen |-> {}]]
  /\ drain = [i \in Invs |-> 0]
  /\ evicted = [r \in Refs |-> 0]
  /\ faults = 0

At(c, label) == pc[c] = label
Goto(c, label, l) ==
  /\ pc' = [pc EXCEPT ![c] = label]
  /\ loc' = [loc EXCEPT ![c] = l]

\* The sweep runs while a process opens the store: with one process on the
\* database, nothing else is in progress then and nothing else starts.
Sweeping(c) == pc[c] \in {"sweep_entries", "sweep_row"}
MayStart(c) == At(c, "idle") /\ (SweepAlone => \A d \in Clients : ~Sweeping(d))

\* The operation returns Ok: the caller of `copy` saves `next_cursor`.
Return(c) ==
  /\ Goto(c, "idle", NoLoc)
  /\ drain' = IF loc[c].copying THEN [drain EXCEPT ![loc[c].inv] = loc[c].seq]
                                ELSE drain
\* The operation returns Err, or its process is gone.
Fail(c) == Goto(c, "idle", NoLoc) /\ UNCHANGED drain
Fault == faults < MaxFaults /\ faults' = faults + 1

----------------------------------------------------------------------------
(* print, when every statement commits by itself.                           *)

PrintClaim(c, r, i) ==
  /\ "print" \in Ops /\ ~HeldCursor
  /\ MayStart(c) /\ CanClaim(r, 1)
  /\ row' = [row EXCEPT ![r] = ClaimRow(@, 1)]
  /\ Goto(c, "print_insert",
          [NoLoc EXCEPT !.ref = r, !.inv = i, !.seq = Claimed(row[r])])
  /\ UNCHANGED <<entries, rd, drain, evicted, faults>>

\* PRIMARY KEY(action_ref, seq): a seq already present makes print fail.
PrintInsert(c) ==
  LET l == loc[c] IN
  /\ At(c, "print_insert")
  /\ IF l.seq \in Seqs(entries[l.ref])
       THEN Fail(c) /\ UNCHANGED entries
       ELSE /\ entries' = [entries EXCEPT ![l.ref] =
                             @ \union {[seq |-> l.seq, inv |-> l.inv, org |-> 0]}]
            /\ Goto(c, "evict_meta", l)
            /\ UNCHANGED drain
  /\ UNCHANGED <<row, rd, evicted, faults>>

(* print, when its cursor holds one transaction: `done` statements of        *)
(* claim, insert, DELETE, UPDATE take effect; fewer than four is a failure.   *)
PrintTx(c, r, i, done) ==
  LET s    == Claimed(row[r])
      R    == ClaimRow(row[r], 1)
      dup  == s \in Seqs(entries[r])
      ins  == entries[r] \union {[seq |-> s, inv |-> i, org |-> 0]}
      over == OverCap(R.first, R.next)
      to   == NewFirst(R.first, R.next)
  IN
  /\ "print" \in Ops /\ HeldCursor
  /\ MayStart(c) /\ CanClaim(r, 1)
  /\ done = 3 => over
  /\ CASE dup \/ done = 1 ->
            /\ row' = [row EXCEPT ![r] = R]
            /\ UNCHANGED <<entries, evicted>>
       [] ~dup /\ done > 1 /\ (~over \/ done = 2) ->
            /\ row' = [row EXCEPT ![r] = R]
            /\ entries' = [entries EXCEPT ![r] = ins]
            /\ UNCHANGED evicted
       [] ~dup /\ done > 2 /\ over ->
            /\ row' = [row EXCEPT ![r] = IF done = 3 THEN R ELSE EvictRow(R, R.first, to)]
            /\ entries' = [entries EXCEPT ![r] = From(ins, to)]
            /\ evicted' = [evicted EXCEPT ![r] = @ + Cardinality(Below(ins, to))]
  /\ IF done = 4 THEN UNCHANGED faults ELSE Fault
  /\ UNCHANGED <<pc, loc, rd, drain>>

----------------------------------------------------------------------------
(* copy: a snapshot of one invocation's entries, then one transaction on the *)
(* destination, then eviction there.                                         *)

Draining(i) == \E c \in Clients : loc[c].copying /\ loc[c].inv = i

\* An empty selection returns at once and changes nothing.
CopySelect(c, i) ==
  LET found == Page({e \in From(entries[CopyFrom], drain[i]) : e.inv = i}) IN
  /\ "copy" \in Ops
  /\ MayStart(c) /\ ~Draining(i)
  /\ \E last \in found :
       /\ IsLast(last, found)
       /\ Goto(c, "copy_tx", [NoLoc EXCEPT !.ref = CopyTo, !.inv = i, !.batch = found,
                                           !.seq = After(last), !.copying = TRUE])
  /\ UNCHANGED <<row, entries, rd, drain, evicted, faults>>

Renumber(B, start) ==
  {[seq |-> start + Rank(e, B), inv |-> e.inv, org |-> e.seq] : e \in B}

CopyTx(c) ==
  LET B   == loc[c].batch
      new == Renumber(B, Claimed(row[CopyTo]))
  IN
  /\ At(c, "copy_tx") /\ CanClaim(CopyTo, Cardinality(B))
  /\ IF Seqs(new) \intersect Seqs(entries[CopyTo]) # {}
       THEN Fail(c) /\ UNCHANGED store      \* the transaction rolls back
       ELSE /\ row' = [row EXCEPT ![CopyTo] = ClaimRow(@, Cardinality(B))]
            /\ entries' = [entries EXCEPT ![CopyTo] = @ \union new]
            /\ Goto(c, "evict_meta", [loc[c] EXCEPT !.batch = {}])
            /\ UNCHANGED drain
  /\ UNCHANGED <<rd, evicted, faults>>

----------------------------------------------------------------------------
(* evict_if_over_cap, statement by statement, on the counters it read.       *)

EvictMeta(c) ==
  LET l == loc[c]
      R == row[l.ref]
  IN
  /\ At(c, "evict_meta")
  /\ IF OverCap(R.first, R.next)
       THEN /\ Goto(c, "evict_delete",
                    [l EXCEPT !.first = R.first, !.to = NewFirst(R.first, R.next)])
            /\ UNCHANGED drain
       ELSE Return(c)
  /\ UNCHANGED <<row, entries, rd, evicted, faults>>

EvictDelete(c) ==
  LET l == loc[c] IN
  /\ At(c, "evict_delete")
  /\ entries' = [entries EXCEPT ![l.ref] = From(@, l.to)]
  /\ evicted' = [evicted EXCEPT ![l.ref] = @ + Cardinality(Below(entries[l.ref], l.to))]
  /\ Goto(c, "evict_update", l)
  /\ UNCHANGED <<row, rd, drain, faults>>

EvictUpdate(c) ==
  LET l == loc[c] IN
  /\ At(c, "evict_update")
  /\ row' = IF row[l.ref] = NoRow THEN row
            ELSE [row EXCEPT ![l.ref] = EvictRow(@, l.first, l.to)]
  /\ Return(c)
  /\ UNCHANGED <<entries, rd, evicted, faults>>

----------------------------------------------------------------------------
(* clear: the cutoff comes from counters read first.                         *)

ClearCutoff(before, next) == MinOf(before, next)

\* `before` past the end is the default, "everything currently present".
ClearMeta(c, r, before) ==
  LET R   == row[r]
      cut == ClearCutoff(before, R.next)
  IN
  /\ "clear" \in Ops
  /\ MayStart(c)
  /\ cut > R.first
  /\ Goto(c, "clear_delete", [NoLoc EXCEPT !.ref = r, !.to = cut])
  /\ UNCHANGED <<row, entries, rd, drain, evicted, faults>>

SetFirst(R, to) == IF R = NoRow THEN R ELSE [R EXCEPT !.first = to]

\* The held COUNT cursor lets no one commit between the DELETE and the UPDATE.
ClearTx(c) ==
  LET l == loc[c] IN
  /\ At(c, "clear_delete") /\ HeldCursor
  /\ entries' = [entries EXCEPT ![l.ref] = From(@, l.to)]
  /\ row' = [row EXCEPT ![l.ref] = SetFirst(@, l.to)]
  /\ Return(c)
  /\ UNCHANGED <<rd, evicted, faults>>

ClearDelete(c) ==
  LET l == loc[c] IN
  /\ At(c, "clear_delete") /\ ~HeldCursor
  /\ entries' = [entries EXCEPT ![l.ref] = From(@, l.to)]
  /\ Goto(c, "clear_update", l)
  /\ UNCHANGED <<row, rd, drain, evicted, faults>>

ClearUpdate(c) ==
  LET l == loc[c] IN
  /\ At(c, "clear_update")
  /\ row' = [row EXCEPT ![l.ref] = SetFirst(@, l.to)]
  /\ Return(c)
  /\ UNCHANGED <<entries, rd, evicted, faults>>

\* The UPDATE finds the database locked by another writer: Err, DELETE kept.
ClearPartial(c) ==
  LET l == loc[c] IN
  /\ At(c, "clear_delete") /\ HeldCursor
  /\ entries' = [entries EXCEPT ![l.ref] = From(@, l.to)]
  /\ Fail(c) /\ Fault
  /\ UNCHANGED <<row, rd, evicted>>

----------------------------------------------------------------------------
(* sweep_expired: runs when a process opens its action manager.  TtlPasses is *)
(* time: the console's last write falls behind console_ttl_days.             *)

TtlPasses(r) ==
  /\ "sweep" \in Ops
  /\ row[r].fresh
  /\ row' = [row EXCEPT ![r].fresh = FALSE]
  /\ UNCHANGED <<entries, pc, loc, rd, drain, evicted, faults>>

ExpiredAny == {r \in Refs : row[r] # NoRow}  \* mutant: no TTL test
Expired == {r \in Refs : row[r] # NoRow /\ ~row[r].fresh}

SweepSelect(c) ==
  /\ "sweep" \in Ops
  /\ MayStart(c) /\ (SweepAlone => \A d \in Clients : At(d, "idle"))
  /\ Expired # {}
  /\ Goto(c, "sweep_entries", [NoLoc EXCEPT !.todo = Expired])
  /\ UNCHANGED <<row, entries, rd, drain, evicted, faults>>

\* Mutant: the console's row goes, its entries stay.
SweepRowOnly(c, r) ==
  /\ At(c, "sweep_entries") /\ r \in loc[c].todo
  /\ Goto(c, "sweep_row", [loc[c] EXCEPT !.ref = r, !.todo = @ \ {r}])
  /\ UNCHANGED <<row, entries, rd, drain, evicted, faults>>

SweepEntries(c, r) ==
  /\ At(c, "sweep_entries") /\ r \in loc[c].todo
  /\ entries' = [entries EXCEPT ![r] = {}]
  /\ Goto(c, "sweep_row", [loc[c] EXCEPT !.ref = r, !.todo = @ \ {r}])
  /\ UNCHANGED <<row, rd, drain, evicted, faults>>

SweepRow(c) ==
  LET l == loc[c] IN
  /\ At(c, "sweep_row")
  /\ row' = [row EXCEPT ![l.ref] = NoRow]
  /\ evicted' = [evicted EXCEPT ![l.ref] = 0]  \* a later print starts a new console
  /\ IF l.todo = {} THEN Return(c) ELSE Goto(c, "sweep_entries", l) /\ UNCHANGED drain
  /\ UNCHANGED <<entries, rd, faults>>

----------------------------------------------------------------------------
(* An operation in progress fails at its next statement, or its process dies. *)
Abort(c) ==
  /\ pc[c] # "idle"
  /\ Fail(c) /\ Fault
  /\ UNCHANGED <<row, entries, rd, evicted>>

(* tail: `read` in a loop; a client passes next_cursor back as its cursor.    *)
(* An empty page leaves it as it is.  The counters that `read` also returns,  *)
(* from a statement of their own, are for display.                            *)
ReadPageAfter(q) ==  \* mutant: an exclusive cursor
  Page(From(entries[Tailed], rd[q].cursor + 1))
ReadPage(q) == Page(From(entries[Tailed], rd[q].cursor))

Read(q) ==
  /\ \E last \in ReadPage(q) :
       /\ IsLast(last, ReadPage(q))
       /\ rd' = [rd EXCEPT ![q].cursor = After(last), ![q].seen = @ \union Seqs(ReadPage(q))]
  /\ UNCHANGED <<row, entries, pc, loc, drain, evicted, faults>>

----------------------------------------------------------------------------
ClientNext(c) ==
  \/ \E r \in Refs, i \in Invs : PrintClaim(c, r, i)
  \/ \E r \in Refs, i \in Invs, done \in 1 .. 4 : PrintTx(c, r, i, done)
  \/ PrintInsert(c)
  \/ \E i \in Invs : CopySelect(c, i)
  \/ CopyTx(c)
  \/ EvictMeta(c) \/ EvictDelete(c) \/ EvictUpdate(c)
  \/ \E r \in Refs, before \in 1 .. (MaxSeq + 1) : ClearMeta(c, r, before)
  \/ ClearTx(c) \/ ClearDelete(c) \/ ClearUpdate(c) \/ ClearPartial(c)
  \/ SweepSelect(c)
  \/ \E r \in Refs : SweepEntries(c, r)
  \/ SweepRow(c)
  \/ Abort(c)

Next ==
  \/ \E c \in Clients : ClientNext(c)
  \/ \E q \in Readers : Read(q)
  \/ \E r \in Refs : TtlPasses(r)

Spec == Init /\ [][Next]_vars

\* A tailing client keeps polling (TAIL_POLL_INTERVAL); nothing else is fair.
FairSpec == Spec /\ \A q \in Readers : WF_vars(Read(q))

----------------------------------------------------------------------------
(* Properties.                                                               *)

Quiescent == \A c \in Clients : At(c, "idle")

\* `print` claims its seq in one upsert so that concurrent printers never get
\* the same one (console.rs:171-188): a claim still to be inserted is below
\* next_seq, unused, and no other printer holds it; and nothing retained
\* carries a seq that is still to be claimed.  (With one process, or without
\* the TTL sweep.)
ClaimsAreFresh ==
  /\ \A r \in Refs : \A e \in entries[r] : e.seq < Claimed(row[r])
  /\ \A c \in Clients : At(c, "print_insert") =>
       /\ loc[c].seq < Claimed(row[loc[c].ref])
       /\ loc[c].seq \notin Seqs(entries[loc[c].ref])
       /\ \A d \in Clients \ {c} :
            At(d, "print_insert") /\ loc[d].ref = loc[c].ref => loc[d].seq # loc[c].seq

\* first_seq is "the oldest seq still retained; entries before this were
\* evicted" (console.rs:101): whatever stale counters evictions and clears
\* work from, no retained entry lies below it.
RetainedAboveFirst ==
  HeldCursor => \A r \in Refs : \A e \in entries[r] : row[r].first <= e.seq

\* `tail` is "replayable, and safe for more than one concurrent reader"
\* (console.rs:27-29): an entry that appears behind a reader's cursor would
\* never be returned to it, so everything retained below it was delivered.
TailMissesNothing ==
  HeldCursor => \A q \in Readers : \A e \in entries[Tailed] :
    e.seq < rd[q].cursor => e.seq \in rd[q].seen

\* evict_if_over_cap bounds the table (console.rs:594-618): when every
\* operation has run to its end, no console holds more than the cap, however
\* the evictions of prints and block copies interleaved.
BoundedRetention ==
  HeldCursor /\ Quiescent /\ faults = 0 =>
    \A r \in Refs : Cardinality(entries[r]) <= Cap

\* `dropped` lets a reader see that it lost data (console.rs:103): it never
\* says fewer than were evicted.
DroppedNeverUndercounts ==
  HeldCursor /\ Quiescent /\ faults = 0 =>
    \A r \in Refs : evicted[r] <= row[r].dropped

\* An orchestrator that drains a child's console with the returned
\* next_cursor (console.rs:217-225, 286) gets the entries of that invocation
\* in their order and none twice, while no call fails.
CopyOnceInOrder ==
  faults = 0 => \A e, f \in entries[CopyTo] :
    e.inv = f.inv /\ 0 < e.org /\ 0 < f.org /\ e.seq < f.seq => e.org < f.org

\* A tailing reader is eventually given every entry that stays retained.
TailDelivers ==
  \A q \in Readers, s \in 1 .. MaxSeq :
    s \in Seqs(entries[Tailed]) ~> (s \in rd[q].seen \/ s \notin Seqs(entries[Tailed]))

\* console.rs:522: the sweep drops "every console whose most recent write is
\* older than the configured TTL".
SweepDropsOnlyExpired ==
  [][\A r \in Refs : row[r] # NoRow /\ row'[r] = NoRow => ~row[r].fresh]_vars

\* console.rs:27: seq is "monotonic per console, never reused".  A claim never
\* hands out a seq that an entry of the console already has.
SeqNeverReused ==
  [][\A r \in Refs : row'[r] # NoRow /\ row'[r].next # row[r].next =>
       Seqs(entries[r]) \intersect (Claimed(row[r]) .. (row'[r].next - 1)) = {}]_vars

\* The tailed console implements the log that the module doc promises.
Log == INSTANCE ConsoleLog WITH next <- Claimed(row[Tailed]),
                                kept <- Seqs(entries[Tailed])
ImplementsLog == Log!Spec

----------------------------------------------------------------------------
(* The inductive invariant behind the safety properties.                     *)

FiniteLogs ==
  /\ \A r \in Refs : IsFiniteSet(entries[r])
  /\ \A c \in Clients : IsFiniteSet(loc[c].batch)

\* An eviction raises the first seq that it read.
EvictsForward ==
  \A c \in Clients : pc[c] \in {"evict_delete", "evict_update"} => loc[c].first <= loc[c].to

TypeInv == TypeOK /\ FiniteLogs /\ EvictsForward

\* A console that exists has claimed something.
RowsStay == \A r \in Refs : row[r] # NoRow => 1 <= row[r].next

\* A sweep that has the store for itself: it removes only empty consoles.
SweepIsAlone ==
  \A c \in Clients : Sweeping(c) =>
    /\ SweepAlone
    /\ \A d \in Clients \ {c} : At(d, "idle")
    /\ At(c, "sweep_row") => entries[loc[c].ref] = {}

\* What an eviction or a clear is about to forget has been claimed; once it
\* has deleted, nothing below its new first seq is left or will come back.
ForgetsClaimed ==
  /\ \A c \in Clients :
       pc[c] \in {"evict_delete", "evict_update", "clear_delete"} =>
         loc[c].to <= Claimed(row[loc[c].ref])
  /\ \A c \in Clients : pc[c] = "evict_update" =>
       \A e \in entries[loc[c].ref] : loc[c].to <= e.seq

\* A cursor never runs ahead of the seqs that have been claimed.
CursorsAreClaimed == \A q \in Readers : rd[q].cursor <= Claimed(row[Tailed])

\* With held cursors, no client is between the statements of a print or clear.
NothingHalfDone == \A c \in Clients : pc[c] \notin {"print_insert", "clear_update"}

\* first_seq has been claimed, or is the next to be; seqs count from 1.
FirstIsClaimed ==
  \A r \in Refs : row[r].first <= Claimed(row[r]) /\ \A e \in entries[r] : 1 <= e.seq

ClaimsInv == TypeInv /\ RowsStay /\ SweepIsAlone /\ ClaimsAreFresh
HeldInv == NothingHalfDone /\ ForgetsClaimed /\ FirstIsClaimed /\ RetainedAboveFirst
TailInv == CursorsAreClaimed /\ TailMissesNothing

\* A sweep must be alone; readers do not outlive it.
IInv ==
  /\ ("sweep" \in Ops => SweepAlone) => ClaimsInv /\ (HeldCursor => HeldInv)
  /\ HeldCursor /\ "sweep" \notin Ops => TailInv
=============================================================================
