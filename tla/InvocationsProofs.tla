------------------------- MODULE InvocationsProofs -------------------------
(* Theorems about Invocations, for every set of invocations, processes and  *)
(* stop calls and every value of the bounds.                                *)
EXTENDS Invocations, TLAPS

\* `finish` leaves a well-formed table.
LEMMA FinishTypes ==
  ASSUME row \in [Invs -> Row], NEW i \in Invs, NEW st \in Terminal, Finish(i, st)
  PROVE  row' \in [Invs -> Row]
<1>1. [row[i] EXCEPT !.st = st, !.old = FALSE] \in Row
  BY DEF Row
<1> QED
  BY <1>1 DEF Finish

\* The record of a stop call that is not in progress is well formed.
LEMMA NoStopType == NoStop \in Stop
BY InvocationsAssumption DEF NoStop, Stop

\* The variables keep their types, whatever the interleaving (TypeOK).
THEOREM InvocationsTypeOK == Spec => []TypeOK
<1>1. Init => TypeOK
  <2> SUFFICES ASSUME Init PROVE TypeOK
    OBVIOUS
  <2>1. NoRow \in Row
    BY DEF NoRow, Row
  <2>2. [pc |-> "unused", proc |-> CHOOSE p \in Procs : TRUE] \in Start
    BY InvocationsAssumption DEF Start
  <2>3. [pc |-> "down", todo |-> {}] \in Opening
    BY DEF Opening
  <2> QED
    BY <2>1, <2>2, <2>3, NoStopType DEF Init, TypeOK
<1>2. TypeOK /\ [Next]_vars => TypeOK'
  <2> SUFFICES ASSUME TypeOK, [Next]_vars
               PROVE  TypeOK'
    OBVIOUS
  <2> USE DEF TypeOK
  <2>1. ASSUME NEW p \in Procs, NEW i \in Invs, StartCreate(p, i) PROVE TypeOK'
    <3>1. [st |-> "running", cancel |-> FALSE, old |-> FALSE] \in Row
      BY DEF Row, Live
    <3>2. [pc |-> "spawn", proc |-> p] \in Start
      BY DEF Start
    <3> QED
      BY <2>1, <3>1, <3>2 DEF StartCreate
  <2>2. ASSUME NEW i \in Invs, StartSpawn(i) PROVE TypeOK'
    <3>1. [start[i] EXCEPT !.pc = "insert"] \in Start
      BY DEF Start
    <3> QED
      BY <2>2, <3>1 DEF StartSpawn, Alive
  <2>3. ASSUME NEW i \in Invs, StartInsert(i) PROVE TypeOK'
    <3>1. [start[i] EXCEPT !.pc = "returned"] \in Start
      BY DEF Start
    <3> QED
      BY <2>3, <3>1 DEF StartInsert
  <2>4. ASSUME NEW i \in Invs, NEW outcome \in {"ok", "failed"}, TaskExec(i, outcome)
        PROVE TypeOK'
    BY <2>4 DEF TaskExec, Alive
  <2>5. ASSUME NEW i \in Invs, TaskFinish(i) PROVE TypeOK'
    <3>1. row' \in [Invs -> Row]
      BY <2>5, FinishTypes DEF TaskFinish, Terminal
    <3> QED
      BY <2>5, <3>1 DEF TaskFinish, Alive
  <2>6. ASSUME NEW i \in Invs, TaskFinishFails(i) PROVE TypeOK'
    BY <2>6 DEF TaskFinishFails, Fault, Alive
  <2>7. ASSUME NEW i \in Invs, TaskRemove(i) PROVE TypeOK'
    BY <2>7 DEF TaskRemove
  <2>8. ASSUME NEW i \in Invs, TaskDropped(i) PROVE TypeOK'
    BY <2>8 DEF TaskDropped
  <2>9. ASSUME NEW i \in Invs, TaskPanics(i) PROVE TypeOK'
    BY <2>9 DEF TaskPanics, Fault
  <2>10. ASSUME NEW c \in Stoppers, NEW p \in Procs, NEW i \in Invs, StopRequest(c, p, i)
         PROVE TypeOK'
    <3>1. RequestCancel(row[i]) \in Row
      BY DEF RequestCancel, Row, Live
    <3>2. [pc |-> "abort", proc |-> p, inv |-> i] \in Stop
      BY DEF Stop
    <3> QED
      BY <2>10, <3>1, <3>2 DEF StopRequest
  <2>11. ASSUME NEW c \in Stoppers, ForceAbort(c) PROVE TypeOK'
    <3>1. [stop[c] EXCEPT !.pc = "mark"] \in Stop /\ stop[c].inv \in Invs
      BY DEF Stop
    <3>2. stop' \in [Stoppers -> Stop]
      BY <2>11, <3>1 DEF ForceAbort
    <3>3. running' \in [Procs -> SUBSET Invs] /\ aborted' \in SUBSET Invs
      BY <2>11, <3>1 DEF ForceAbort
    <3> QED
      BY <2>11, <3>2, <3>3 DEF ForceAbort
  <2>12. ASSUME NEW c \in Stoppers, MarkAborted(c) PROVE TypeOK'
    <3>1. stop[c].inv \in Invs
      BY DEF Stop
    <3>2. row' \in [Invs -> Row]
      BY <2>12, <3>1, FinishTypes DEF MarkAborted, Terminal
    <3> QED
      BY <2>12, <3>2, NoStopType DEF MarkAborted
  <2>13. ASSUME NEW c \in Stoppers, MarkAbortedFails(c) PROVE TypeOK'
    BY <2>13, NoStopType DEF MarkAbortedFails, Fault
  <2>14. ASSUME NEW p \in Procs, Open(p) PROVE TypeOK'
    <3>1. [proc[p] EXCEPT !.pc = "orphans"] \in Opening
      BY DEF Opening
    <3> QED
      BY <2>14, <3>1 DEF Open
  <2>15. ASSUME NEW p \in Procs, MarkOrphansSelect(p) PROVE TypeOK'
    <3>1. [pc |-> "finish", todo |-> Orphans] \in Opening
      BY DEF Opening, Orphans
    <3> QED
      BY <2>15, <3>1 DEF MarkOrphansSelect
  <2>16. ASSUME NEW p \in Procs, NEW i \in Invs, MarkOrphan(p, i) PROVE TypeOK'
    <3>1. [proc[p] EXCEPT !.todo = @ \ {i}] \in Opening
      BY DEF Opening
    <3>2. row' \in [Invs -> Row]
      BY <2>16, FinishTypes DEF MarkOrphan, Terminal
    <3> QED
      BY <2>16, <3>1, <3>2 DEF MarkOrphan
  <2>17. ASSUME NEW p \in Procs, SweepSelect(p) PROVE TypeOK'
    <3>1. [pc |-> "delete", todo |-> Expired] \in Opening
      BY DEF Opening, Expired
    <3> QED
      BY <2>17, <3>1 DEF SweepSelect
  <2>18. ASSUME NEW p \in Procs, NEW i \in Invs, SweepDelete(p, i) PROVE TypeOK'
    <3>1. [proc[p] EXCEPT !.todo = @ \ {i}] \in Opening
      BY DEF Opening
    <3>2. NoRow \in Row
      BY DEF NoRow, Row
    <3> QED
      BY <2>18, <3>1, <3>2 DEF SweepDelete
  <2>19. ASSUME NEW p \in Procs, Opened(p) PROVE TypeOK'
    <3>1. [proc[p] EXCEPT !.pc = "up"] \in Opening
      BY DEF Opening
    <3> QED
      BY <2>19, <3>1 DEF Opened
  <2>20. ASSUME NEW p \in Procs, PassFails(p) PROVE TypeOK'
    <3>1. [pc |-> IF proc[p].pc = "orphans" THEN "finish" ELSE proc[p].pc, todo |-> {}]
            \in Opening
      BY DEF Opening
    <3> QED
      BY <2>20, <3>1 DEF PassFails, Fault
  <2>21. ASSUME NEW p \in Procs, Crash(p) PROVE TypeOK'
    <3>1. [pc |-> "down", todo |-> {}] \in Opening
      BY DEF Opening
    <3>2. start' \in [Invs -> Start]
      <4>1. ASSUME NEW i \in Invs PROVE [start[i] EXCEPT !.pc = "lost"] \in Start
        BY DEF Start
      <4> QED
        BY <2>21, <4>1 DEF Crash
    <3>3. stop' \in [Stoppers -> Stop]
      BY <2>21, NoStopType DEF Crash
    <3>4. task' \in [Invs -> {"none", "done", "gone"} \union Alive]
      BY <2>21 DEF Crash
    <3> QED
      BY <2>21, <3>1, <3>2, <3>3, <3>4 DEF Crash
  <2>22. ASSUME NEW i \in Invs, TtlPasses(i) PROVE TypeOK'
    <3>1. [row[i] EXCEPT !.old = TRUE] \in Row
      BY DEF Row
    <3> QED
      BY <2>22, <3>1 DEF TtlPasses
  <2>23. CASE UNCHANGED vars
    BY <2>23 DEF vars
  <2> QED
    BY <2>1, <2>2, <2>3, <2>4, <2>5, <2>6, <2>7, <2>8, <2>9, <2>10, <2>11,
       <2>12, <2>13, <2>14, <2>15, <2>16, <2>17, <2>18, <2>19, <2>20, <2>21,
       <2>22, <2>23
    DEF Next, StartNext, TaskNext, StopNext, OpenNext
<1> QED
  BY <1>1, <1>2, PTL DEF Spec

----------------------------------------------------------------------------
\* What `finish` does to each row: a live one gets the status, nothing else
\* changes.
LEMMA FinishEffect ==
  ASSUME TypeOK, NEW i \in Invs, NEW st \in Terminal, Finish(i, st), NEW j \in Invs
  PROVE  \/ row'[j] = row[j] /\ (j = i => row[j].st \notin Live)
         \/ /\ j = i /\ row[j].st \in Live
            /\ row'[j].st = st /\ row'[j].cancel = row[j].cancel
BY DEF Finish, TypeOK, Row

\* An empty table satisfies the invariant.
LEMMA IInvInit == Init => IInv
BY DEF Init, IInv, Bookkeeping, UnusedHasNothing, HandlesAreReturned,
       AbortedAreReturned, StopsAreRequested, SweepsAreSettled,
       CancelFlagMatchesStatus, LiveHasSettler, NoRow, NoStop, Live

\* Every step keeps the book-keeping part of the invariant.
LEMMA BookkeepingStep ==
  TypeOK /\ TypeOK' /\ Bookkeeping /\ [Next]_vars => Bookkeeping'
<1> SUFFICES ASSUME TypeOK, TypeOK', Bookkeeping, [Next]_vars
             PROVE  Bookkeeping'
  OBVIOUS
<1> USE DEF TypeOK, Row, Start, Stop, Opening, Live, Terminal, NoRow, Host,
            Bookkeeping, UnusedHasNothing, HandlesAreReturned, AbortedAreReturned,
            StopsAreRequested, SweepsAreSettled, CancelFlagMatchesStatus
<1>1. ASSUME NEW p \in Procs, NEW i \in Invs, StartCreate(p, i)
      PROVE  Bookkeeping'
  BY <1>1 DEF StartCreate
<1>2. ASSUME NEW i \in Invs, StartSpawn(i)
      PROVE  Bookkeeping'
  BY <1>2 DEF StartSpawn
<1>3. ASSUME NEW i \in Invs, StartInsert(i)
      PROVE  Bookkeeping'
  BY <1>3 DEF StartInsert
<1>4. ASSUME NEW i \in Invs, NEW outcome \in {"ok", "failed"}, TaskExec(i, outcome)
      PROVE  Bookkeeping'
  BY <1>4 DEF TaskExec
<1>5. ASSUME NEW i \in Invs, TaskFinish(i)
      PROVE  Bookkeeping'
  <2>1. UnusedHasNothing'
    BY <1>5 DEF TaskFinish, Finish
  <2>2. HandlesAreReturned'
    BY <1>5 DEF TaskFinish, Finish
  <2>3. AbortedAreReturned'
    BY <1>5 DEF TaskFinish, Finish
  <2>4. StopsAreRequested'
    <3>1. \A j \in Invs :
            \/ row'[j] = row[j]
            \/ /\ row[j].st \in Live /\ row'[j].st \in Terminal
               /\ row'[j].cancel = row[j].cancel
      BY <1>5, FinishEffect DEF TaskFinish
    <3> QED
      BY SMTT(30), <1>5, <3>1 DEF TaskFinish
  <2>5. SweepsAreSettled'
    <3>1. \A j \in Invs :
            \/ row'[j] = row[j]
            \/ /\ row[j].st \in Live /\ row'[j].st \in Terminal
               /\ row'[j].cancel = row[j].cancel
      BY <1>5, FinishEffect DEF TaskFinish
    <3> QED
      BY <1>5, <3>1 DEF TaskFinish
  <2>6. CancelFlagMatchesStatus'
    BY <1>5 DEF TaskFinish, Finish
  <2> QED
    BY <2>1, <2>2, <2>3, <2>4, <2>5, <2>6
<1>6. ASSUME NEW i \in Invs, TaskFinishFails(i)
      PROVE  Bookkeeping'
  BY <1>6 DEF TaskFinishFails, Fault
<1>7. ASSUME NEW i \in Invs, TaskRemove(i)
      PROVE  Bookkeeping'
  BY <1>7 DEF TaskRemove
<1>8. ASSUME NEW i \in Invs, TaskDropped(i)
      PROVE  Bookkeeping'
  BY <1>8 DEF TaskDropped
<1>9. ASSUME NEW i \in Invs, TaskPanics(i)
      PROVE  Bookkeeping'
  BY <1>9 DEF TaskPanics, Fault
<1>10. ASSUME NEW c \in Stoppers, NEW p \in Procs, NEW i \in Invs, StopRequest(c, p, i)
       PROVE  Bookkeeping'
  <2>1. UnusedHasNothing'
    <3>1. start[i].pc # "unused"
      BY <1>10 DEF StopRequest
    <3> HIDE DEF Row, Start, Stop, Opening, NoRow
    <3> QED
      BY <1>10, <3>1 DEF StopRequest
  <2>2. HandlesAreReturned'
    BY <1>10 DEF StopRequest, RequestCancel, Known
  <2>3. AbortedAreReturned'
    BY <1>10 DEF StopRequest, RequestCancel, Known
  <2>4. StopsAreRequested'
    BY <1>10 DEF StopRequest, RequestCancel, Known
  <2>5. SweepsAreSettled'
    BY <1>10 DEF StopRequest, RequestCancel, Known
  <2>6. CancelFlagMatchesStatus'
    BY <1>10 DEF StopRequest, RequestCancel, Known
  <2> QED
    BY <2>1, <2>2, <2>3, <2>4, <2>5, <2>6
<1>11. ASSUME NEW c \in Stoppers, ForceAbort(c)
       PROVE  Bookkeeping'
  <2>1. UnusedHasNothing'
    BY <1>11 DEF ForceAbort
  <2>2. HandlesAreReturned'
    <3> HIDE DEF Row, Start, Stop, Opening, NoRow
    <3>1. start' = start /\ \A q \in Procs : running'[q] \subseteq running[q]
      BY <1>11 DEF ForceAbort
    <3> QED
      BY <3>1
  <2>3. AbortedAreReturned'
    BY <1>11 DEF ForceAbort
  <2>4. StopsAreRequested'
    BY <1>11 DEF ForceAbort
  <2>5. SweepsAreSettled'
    BY <1>11 DEF ForceAbort
  <2>6. CancelFlagMatchesStatus'
    BY <1>11 DEF ForceAbort
  <2> QED
    BY <2>1, <2>2, <2>3, <2>4, <2>5, <2>6
<1>12. ASSUME NEW c \in Stoppers, MarkAborted(c)
       PROVE  Bookkeeping'
  <2>1. UnusedHasNothing'
    <3>1. \A j \in Invs : row'[j] = row[j] \/ row[j].st \in Live
      BY <1>12, FinishEffect DEF MarkAborted
    <3>2. \A j \in Invs : start[j].pc = "unused" => row[j].st \notin Live
      OBVIOUS
    <3> HIDE DEF Row, Start, Stop, Opening, NoRow
    <3> QED
      BY <1>12, <3>1, <3>2 DEF MarkAborted
  <2>2. HandlesAreReturned'
    BY <1>12 DEF MarkAborted, Finish, NoStop
  <2>3. AbortedAreReturned'
    BY <1>12 DEF MarkAborted, Finish, NoStop
  <2>4. StopsAreRequested'
    BY <1>12 DEF MarkAborted, Finish, NoStop
  <2>5. SweepsAreSettled'
    BY <1>12 DEF MarkAborted, Finish, NoStop
  <2>6. CancelFlagMatchesStatus'
    <3>1. row[stop[c].inv].cancel \/ row[stop[c].inv].st = "absent"
      BY <1>12 DEF MarkAborted
    <3>2. \A j \in Invs : \/ row'[j] = row[j]
                          \/ /\ j = stop[c].inv /\ row[j].st \in Live
                             /\ row'[j].st = "cancelled" /\ row'[j].cancel = row[j].cancel
      BY <1>12, FinishEffect DEF MarkAborted
    <3> QED
      BY <3>1, <3>2
  <2> QED
    BY <2>1, <2>2, <2>3, <2>4, <2>5, <2>6
<1>13. ASSUME NEW c \in Stoppers, MarkAbortedFails(c)
       PROVE  Bookkeeping'
  BY <1>13 DEF MarkAbortedFails, Fault, NoStop
<1>14. ASSUME NEW p \in Procs, Open(p)
       PROVE  Bookkeeping'
  BY <1>14 DEF Open
<1>15. ASSUME NEW p \in Procs, MarkOrphansSelect(p)
       PROVE  Bookkeeping'
  BY <1>15 DEF MarkOrphansSelect, Orphans
<1>16. ASSUME NEW p \in Procs, NEW i \in Invs, MarkOrphan(p, i)
       PROVE  Bookkeeping'
  <2>1. UnusedHasNothing'
    <3>1. \A j \in Invs : row'[j] = row[j] \/ row[j].st \in Live
      BY <1>16, FinishEffect DEF MarkOrphan
    <3>2. \A j \in Invs : start[j].pc = "unused" => row[j].st \notin Live
      OBVIOUS
    <3> HIDE DEF Row, Start, Stop, Opening, NoRow
    <3> QED
      BY <1>16, <3>1, <3>2 DEF MarkOrphan
  <2>2. HandlesAreReturned'
    BY <1>16 DEF MarkOrphan, Finish
  <2>3. AbortedAreReturned'
    BY <1>16 DEF MarkOrphan, Finish
  <2>4. StopsAreRequested'
    BY <1>16 DEF MarkOrphan, Finish
  <2>5. SweepsAreSettled'
    BY <1>16 DEF MarkOrphan, Finish
  <2>6. CancelFlagMatchesStatus'
    BY <1>16 DEF MarkOrphan, Finish
  <2> QED
    BY <2>1, <2>2, <2>3, <2>4, <2>5, <2>6
<1>17. ASSUME NEW p \in Procs, SweepSelect(p)
       PROVE  Bookkeeping'
  BY <1>17 DEF SweepSelect, Expired
<1>18. ASSUME NEW p \in Procs, NEW i \in Invs, SweepDelete(p, i)
       PROVE  Bookkeeping'
  <2>1. UnusedHasNothing'
    <3> HIDE DEF Row, Start, Stop, Opening, NoRow
    <3> QED
      BY <1>18 DEF SweepDelete
  <2>2. HandlesAreReturned'
    BY <1>18 DEF SweepDelete
  <2>3. AbortedAreReturned'
    BY <1>18 DEF SweepDelete
  <2>4. StopsAreRequested'
    BY <1>18 DEF SweepDelete
  <2>5. SweepsAreSettled'
    BY <1>18 DEF SweepDelete
  <2>6. CancelFlagMatchesStatus'
    BY <1>18 DEF SweepDelete
  <2> QED
    BY <2>1, <2>2, <2>3, <2>4, <2>5, <2>6
<1>19. ASSUME NEW p \in Procs, Opened(p)
       PROVE  Bookkeeping'
  BY <1>19 DEF Opened
<1>20. ASSUME NEW p \in Procs, PassFails(p)
       PROVE  Bookkeeping'
  BY <1>20 DEF PassFails, Fault
<1>21. ASSUME NEW p \in Procs, Crash(p)
       PROVE  Bookkeeping'
  <2>1. UnusedHasNothing'
    <3>1. \A j \in Invs : start'[j].pc \in {"unused", "spawn"} =>
            start[j].pc = start'[j].pc /\ task'[j] = task[j] /\ row'[j] = row[j]
      BY <1>21 DEF Crash, Alive
    <3> HIDE DEF Row, Start, Stop, Opening, NoRow
    <3> QED
      BY <3>1 DEF NoRow
  <2>2. HandlesAreReturned'
    BY <1>21 DEF Crash, NoStop
  <2>3. AbortedAreReturned'
    BY <1>21 DEF Crash, NoStop
  <2>4. StopsAreRequested'
    BY <1>21 DEF Crash, NoStop
  <2>5. SweepsAreSettled'
    BY <1>21 DEF Crash, NoStop
  <2>6. CancelFlagMatchesStatus'
    BY <1>21 DEF Crash, NoStop
  <2> QED
    BY <2>1, <2>2, <2>3, <2>4, <2>5, <2>6
<1>22. ASSUME NEW i \in Invs, TtlPasses(i)
       PROVE  Bookkeeping'
  <2>1. UnusedHasNothing'
    <3>1. start[i].pc # "unused"
      BY <1>22 DEF TtlPasses
    <3> HIDE DEF Row, Start, Stop, Opening, NoRow
    <3> QED
      BY <1>22, <3>1 DEF TtlPasses
  <2>2. HandlesAreReturned'
    BY <1>22 DEF TtlPasses
  <2>3. AbortedAreReturned'
    BY <1>22 DEF TtlPasses
  <2>4. StopsAreRequested'
    BY <1>22 DEF TtlPasses
  <2>5. SweepsAreSettled'
    BY <1>22 DEF TtlPasses
  <2>6. CancelFlagMatchesStatus'
    BY <1>22 DEF TtlPasses
  <2> QED
    BY <2>1, <2>2, <2>3, <2>4, <2>5, <2>6
<1>23. CASE UNCHANGED vars
  BY <1>23 DEF vars
<1> HIDE DEF TypeOK, Row, Start, Stop, Opening, Live, Terminal, NoRow, Host,
             Bookkeeping, UnusedHasNothing, HandlesAreReturned, AbortedAreReturned,
             StopsAreRequested, SweepsAreSettled, CancelFlagMatchesStatus
<1> QED
  BY <1>1, <1>2, <1>3, <1>4, <1>5, <1>6, <1>7, <1>8, <1>9, <1>10, <1>11, <1>12, <1>13, <1>14, <1>15, <1>16, <1>17, <1>18, <1>19, <1>20, <1>21, <1>22, <1>23
  DEF Next, StartNext, TaskNext, StopNext, OpenNext

\* Every step leaves every live row to someone.
LEMMA SettlerStep ==
  TypeOK /\ TypeOK' /\ Bookkeeping /\ LiveHasSettler /\ [Next]_vars => LiveHasSettler'
<1> SUFFICES ASSUME TypeOK, TypeOK', Bookkeeping, LiveHasSettler, [Next]_vars,
                    NEW j \in Invs, faults' = 0, row'[j].st \in Live
             PROVE  HasSettler(j)' \/ OrphanOfOpen(j)'
  BY DEF LiveHasSettler
<1> DEFINE Settled == HasSettler(j) \/ OrphanOfOpen(j)
<1> USE DEF HasSettler, OrphanOfOpen, Host, TypeOK, Row, Start, Stop, Opening,
            Live, Alive, Bookkeeping, UnusedHasNothing, HandlesAreReturned,
            AbortedAreReturned
<1>0. ASSUME row[j].st \in Live, faults = 0 PROVE Settled
  BY <1>0 DEF LiveHasSettler
<1>1. ASSUME NEW p \in Procs, NEW i \in Invs, StartCreate(p, i)
      PROVE  Settled'
  BY <1>0, <1>1 DEF StartCreate
<1>2. ASSUME NEW i \in Invs, StartSpawn(i)
      PROVE  Settled'
  BY <1>0, <1>2 DEF StartSpawn
<1>3. ASSUME NEW i \in Invs, StartInsert(i)
      PROVE  Settled'
  BY <1>0, <1>3 DEF StartInsert
<1>4. ASSUME NEW i \in Invs, NEW outcome \in {"ok", "failed"}, TaskExec(i, outcome)
      PROVE  Settled'
  BY <1>0, <1>4 DEF TaskExec
<1>5. ASSUME NEW i \in Invs, TaskFinish(i)
      PROVE  Settled'
  BY <1>0, <1>5 DEF TaskFinish, Finish
<1>6. ASSUME NEW i \in Invs, TaskFinishFails(i)
      PROVE  Settled'
  BY <1>0, <1>6 DEF TaskFinishFails, Fault
<1>7. ASSUME NEW i \in Invs, TaskRemove(i)
      PROVE  Settled'
  BY <1>0, <1>7 DEF TaskRemove
<1>8. ASSUME NEW i \in Invs, TaskDropped(i)
      PROVE  Settled'
  BY <1>0, <1>8 DEF TaskDropped
<1>9. ASSUME NEW i \in Invs, TaskPanics(i)
      PROVE  Settled'
  BY <1>0, <1>9 DEF TaskPanics, Fault
<1>10. ASSUME NEW c \in Stoppers, NEW p \in Procs, NEW i \in Invs, StopRequest(c, p, i)
       PROVE  Settled'
  BY <1>0, <1>10 DEF StopRequest, RequestCancel, Known
<1>11. ASSUME NEW c \in Stoppers, ForceAbort(c)
       PROVE  Settled'
  BY <1>0, <1>11 DEF ForceAbort
<1>12. ASSUME NEW c \in Stoppers, MarkAborted(c)
       PROVE  Settled'
  BY <1>0, <1>12 DEF MarkAborted, Finish, NoStop
<1>13. ASSUME NEW c \in Stoppers, MarkAbortedFails(c)
       PROVE  Settled'
  BY <1>0, <1>13 DEF MarkAbortedFails, Fault, NoStop
<1>14. ASSUME NEW p \in Procs, Open(p)
       PROVE  Settled'
  BY <1>0, <1>14 DEF Open
<1>15. ASSUME NEW p \in Procs, MarkOrphansSelect(p)
       PROVE  Settled'
  BY <1>0, <1>15 DEF MarkOrphansSelect, Orphans
<1>16. ASSUME NEW p \in Procs, NEW i \in Invs, MarkOrphan(p, i)
       PROVE  Settled'
  BY <1>0, <1>16 DEF MarkOrphan, Finish
<1>17. ASSUME NEW p \in Procs, SweepSelect(p)
       PROVE  Settled'
  BY <1>0, <1>17 DEF SweepSelect, Expired
<1>18. ASSUME NEW p \in Procs, NEW i \in Invs, SweepDelete(p, i)
       PROVE  Settled'
  BY <1>0, <1>18 DEF SweepDelete, NoRow
<1>19. ASSUME NEW p \in Procs, Opened(p)
       PROVE  Settled'
  BY <1>0, <1>19 DEF Opened
<1>20. ASSUME NEW p \in Procs, PassFails(p)
       PROVE  Settled'
  BY <1>0, <1>20 DEF PassFails, Fault
<1>21. ASSUME NEW p \in Procs, Crash(p)
       PROVE  Settled'
  BY <1>0, <1>21 DEF Crash, NoStop
<1>22. ASSUME NEW i \in Invs, TtlPasses(i)
       PROVE  Settled'
  BY <1>0, <1>22 DEF TtlPasses
<1>23. CASE UNCHANGED vars
  BY <1>0, <1>23 DEF vars
<1> HIDE DEF HasSettler, OrphanOfOpen, Host, TypeOK, Row, Start, Stop, Opening,
             Live, Alive, Bookkeeping, UnusedHasNothing, HandlesAreReturned,
             AbortedAreReturned
<1> QED
  BY <1>1, <1>2, <1>3, <1>4, <1>5, <1>6, <1>7, <1>8, <1>9, <1>10, <1>11, <1>12, <1>13, <1>14, <1>15, <1>16, <1>17, <1>18, <1>19, <1>20, <1>21, <1>22, <1>23
  DEF Next, StartNext, TaskNext, StopNext, OpenNext

\* IInv is an invariant of the specification.
THEOREM InvocationsIInv == Spec => []IInv
<1>1. TypeOK /\ TypeOK' /\ IInv /\ [Next]_vars => IInv'
  BY BookkeepingStep, SettlerStep DEF IInv
<1> QED
  BY <1>1, IInvInit, InvocationsTypeOK, PTL DEF Spec

\* A cancelling or cancelled row was asked to stop, and a row that was asked
\* to stop never says running.
THEOREM CancelFlagIsRight == Spec => []CancelFlagMatchesStatus
BY InvocationsIInv, PTL DEF IInv, Bookkeeping

\* Without failed writes and panics, every run that the table of an open host
\* shows as going on has something that will settle it.
THEOREM NoZombieRuns == Spec => []NoZombie
<1>1. ASSUME LiveHasSettler, faults = 0, NEW i \in Invs, row[i].st \in Live, Up(Host(i))
      PROVE  \/ start[i].pc = "spawn"
             \/ task[i] \in {"exec", "finish_ok", "finish_failed"} /\ i \notin aborted
             \/ \E c \in Stoppers : stop[c].pc = "mark" /\ stop[c].inv = i
  <2>1. HasSettler(i)
    BY <1>1 DEF LiveHasSettler, OrphanOfOpen, Up
  <2>2. ASSUME NEW c \in Stoppers, stop[c] = [pc |-> "mark", proc |-> Host(i), inv |-> i]
        PROVE  stop[c].pc = "mark" /\ stop[c].inv = i
    BY <2>2
  <2> QED
    BY <2>1, <2>2 DEF HasSettler
<1>2. IInv => NoZombie
  BY <1>1 DEF IInv, NoZombie
<1> QED
  BY <1>2, InvocationsIInv, PTL

\* A terminal status is final until the sweep deletes the row, and a live row
\* is never deleted.
LEMMA RowStep ==
  ASSUME TypeOK, Bookkeeping, [Next]_vars, NEW j \in Invs
  PROVE  /\ row[j].st \in Terminal => row'[j].st \in {row[j].st, "absent"}
         /\ row[j].st \in Live => row'[j].st # "absent"
<1> USE DEF Bookkeeping, UnusedHasNothing, SweepsAreSettled, TypeOK, Row, Opening,
            Live, Terminal, NoRow
<1>1. ASSUME NEW p \in Procs, NEW i \in Invs, StartCreate(p, i)
      PROVE  row[i].st = "absent" /\ (i # j => row'[j] = row[j])
  BY <1>1 DEF StartCreate
<1>2. ASSUME NEW i \in Invs, NEW st \in Terminal, Finish(i, st)
      PROVE  row'[j] = row[j] \/ (row[j].st \in Live /\ row'[j].st = st)
  BY <1>2, FinishEffect
<1>3. ASSUME NEW i \in Invs, TaskFinish(i)
      PROVE  row'[j] = row[j] \/ (row[j].st \in Live /\ row'[j].st \in Terminal)
  BY <1>3, <1>2 DEF TaskFinish
<1>4. ASSUME NEW c \in Stoppers, MarkAborted(c)
      PROVE  row'[j] = row[j] \/ (row[j].st \in Live /\ row'[j].st \in Terminal)
  BY <1>4, <1>2 DEF MarkAborted, Stop
<1>5. ASSUME NEW p \in Procs, NEW i \in Invs, MarkOrphan(p, i)
      PROVE  row'[j] = row[j] \/ (row[j].st \in Live /\ row'[j].st \in Terminal)
  BY <1>5, <1>2 DEF MarkOrphan
<1>6. ASSUME NEW c \in Stoppers, NEW p \in Procs, NEW i \in Invs, StopRequest(c, p, i)
      PROVE  row'[j].st = row[j].st \/ (row[j].st \in Live /\ row'[j].st \in Live)
  BY <1>6 DEF StopRequest, RequestCancel
<1>7. ASSUME NEW p \in Procs, NEW i \in Invs, SweepDelete(p, i)
      PROVE  row[i].st \notin Live /\ row'[i].st = "absent" /\ (i # j => row'[j] = row[j])
  BY <1>7 DEF SweepDelete
<1>8. ASSUME NEW i \in Invs, TtlPasses(i)
      PROVE  row'[j].st = row[j].st
  BY <1>8 DEF TtlPasses
<1>9. \/ row' = row
      \/ \E p \in Procs, i \in Invs :
           StartCreate(p, i) \/ MarkOrphan(p, i) \/ SweepDelete(p, i)
      \/ \E i \in Invs : TaskFinish(i) \/ TtlPasses(i)
      \/ \E c \in Stoppers : MarkAborted(c)
      \/ \E c \in Stoppers, p \in Procs, i \in Invs : StopRequest(c, p, i)
  BY DEF Next, StartNext, TaskNext, StopNext, OpenNext, vars, StartSpawn, StartInsert,
         TaskExec, TaskFinishFails, TaskRemove, TaskDropped, TaskPanics, ForceAbort,
         MarkAbortedFails, Open, MarkOrphansSelect, SweepSelect, Opened, PassFails, Crash
<1> QED
  BY <1>1, <1>3, <1>4, <1>5, <1>6, <1>7, <1>8, <1>9

\* Whoever reaches a row first wins: a terminal status never changes again.
THEOREM TerminalStatusIsFinal == Spec => TerminalIsFinal
<1>1. TypeOK /\ IInv /\ [Next]_vars =>
        [\A i \in Invs : row[i].st \in Terminal => row'[i].st \in {row[i].st, "absent"}]_vars
  BY RowStep DEF IInv
<1> QED
  BY <1>1, InvocationsTypeOK, InvocationsIInv, PTL DEF Spec, TerminalIsFinal

\* A run still going never vanishes from the table.
THEOREM LiveRowsStay == Spec => LiveRowStays
<1>1. TypeOK /\ IInv /\ [Next]_vars =>
        [\A i \in Invs : row[i].st \in Live => row'[i].st # "absent"]_vars
  BY RowStep DEF IInv
<1> QED
  BY <1>1, InvocationsTypeOK, InvocationsIInv, PTL DEF Spec, LiveRowStays

----------------------------------------------------------------------------
\* One process: an open finds no task behind a live row.
LEMMA InterruptedStep ==
  ASSUME OneProcess
  PROVE  TypeOK /\ TypeOK' /\ Bookkeeping /\ DownHasNoTask /\ InterruptedIsOver /\ [Next]_vars
           => DownHasNoTask' /\ InterruptedIsOver'
<1> SUFFICES ASSUME TypeOK, TypeOK', Bookkeeping, DownHasNoTask, InterruptedIsOver, [Next]_vars
             PROVE  DownHasNoTask' /\ InterruptedIsOver'
  OBVIOUS
<1> USE DEF TypeOK, Row, Start, Stop, Opening, Live, Alive, Up, Host, NoRow, OneProcess,
            Bookkeeping, UnusedHasNothing, HandlesAreReturned, DownHasNoTask,
            InterruptedIsOver
<1>1. ASSUME NEW p \in Procs, NEW i \in Invs, StartCreate(p, i)
      PROVE  DownHasNoTask' /\ InterruptedIsOver'
  BY <1>1 DEF StartCreate
<1>2. ASSUME NEW i \in Invs, StartSpawn(i)
      PROVE  DownHasNoTask' /\ InterruptedIsOver'
  BY <1>2 DEF StartSpawn
<1>3. ASSUME NEW i \in Invs, StartInsert(i)
      PROVE  DownHasNoTask' /\ InterruptedIsOver'
  BY <1>3 DEF StartInsert
<1>4. ASSUME NEW i \in Invs, NEW outcome \in {"ok", "failed"}, TaskExec(i, outcome)
      PROVE  DownHasNoTask' /\ InterruptedIsOver'
  BY <1>4 DEF TaskExec
<1>5. ASSUME NEW i \in Invs, TaskFinish(i)
      PROVE  DownHasNoTask' /\ InterruptedIsOver'
  BY <1>5 DEF TaskFinish, Finish
<1>6. ASSUME NEW i \in Invs, TaskFinishFails(i)
      PROVE  DownHasNoTask' /\ InterruptedIsOver'
  BY <1>6 DEF TaskFinishFails, Fault
<1>7. ASSUME NEW i \in Invs, TaskRemove(i)
      PROVE  DownHasNoTask' /\ InterruptedIsOver'
  BY <1>7 DEF TaskRemove
<1>8. ASSUME NEW i \in Invs, TaskDropped(i)
      PROVE  DownHasNoTask' /\ InterruptedIsOver'
  BY <1>8 DEF TaskDropped
<1>9. ASSUME NEW i \in Invs, TaskPanics(i)
      PROVE  DownHasNoTask' /\ InterruptedIsOver'
  BY <1>9 DEF TaskPanics, Fault
<1>10. ASSUME NEW c \in Stoppers, NEW p \in Procs, NEW i \in Invs, StopRequest(c, p, i)
       PROVE  DownHasNoTask' /\ InterruptedIsOver'
  BY <1>10 DEF StopRequest, RequestCancel, Known
<1>11. ASSUME NEW c \in Stoppers, ForceAbort(c)
       PROVE  DownHasNoTask' /\ InterruptedIsOver'
  BY <1>11 DEF ForceAbort
<1>12. ASSUME NEW c \in Stoppers, MarkAborted(c)
       PROVE  DownHasNoTask' /\ InterruptedIsOver'
  BY <1>12 DEF MarkAborted, Finish, NoStop
<1>13. ASSUME NEW c \in Stoppers, MarkAbortedFails(c)
       PROVE  DownHasNoTask' /\ InterruptedIsOver'
  BY <1>13 DEF MarkAbortedFails, Fault, NoStop
<1>14. ASSUME NEW p \in Procs, Open(p)
       PROVE  DownHasNoTask' /\ InterruptedIsOver'
  BY <1>14 DEF Open
<1>15. ASSUME NEW p \in Procs, MarkOrphansSelect(p)
       PROVE  DownHasNoTask' /\ InterruptedIsOver'
  BY <1>15 DEF MarkOrphansSelect, Orphans
<1>16. ASSUME NEW p \in Procs, NEW i \in Invs, MarkOrphan(p, i)
       PROVE  DownHasNoTask' /\ InterruptedIsOver'
  BY <1>16 DEF MarkOrphan, Finish
<1>17. ASSUME NEW p \in Procs, SweepSelect(p)
       PROVE  DownHasNoTask' /\ InterruptedIsOver'
  BY <1>17 DEF SweepSelect, Expired
<1>18. ASSUME NEW p \in Procs, NEW i \in Invs, SweepDelete(p, i)
       PROVE  DownHasNoTask' /\ InterruptedIsOver'
  BY <1>18 DEF SweepDelete
<1>19. ASSUME NEW p \in Procs, Opened(p)
       PROVE  DownHasNoTask' /\ InterruptedIsOver'
  BY <1>19 DEF Opened
<1>20. ASSUME NEW p \in Procs, PassFails(p)
       PROVE  DownHasNoTask' /\ InterruptedIsOver'
  BY <1>20 DEF PassFails, Fault
<1>21. ASSUME NEW p \in Procs, Crash(p)
       PROVE  DownHasNoTask' /\ InterruptedIsOver'
  BY <1>21 DEF Crash, NoStop
<1>22. ASSUME NEW i \in Invs, TtlPasses(i)
       PROVE  DownHasNoTask' /\ InterruptedIsOver'
  BY <1>22 DEF TtlPasses
<1>23. CASE UNCHANGED vars
  BY <1>23 DEF vars
<1> HIDE DEF TypeOK, Row, Start, Stop, Opening, Live, Alive, Up, Host, NoRow, OneProcess,
             Bookkeeping, UnusedHasNothing, HandlesAreReturned, DownHasNoTask,
             InterruptedIsOver
<1> QED
  BY <1>1, <1>2, <1>3, <1>4, <1>5, <1>6, <1>7, <1>8, <1>9, <1>10, <1>11, <1>12, <1>13, <1>14, <1>15, <1>16, <1>17, <1>18, <1>19, <1>20, <1>21, <1>22, <1>23
  DEF Next, StartNext, TaskNext, StopNext, OpenNext

\* One process, ids from action-start: a stop finds the handle of its task.
LEMMA CancelledStep ==
  ASSUME OneProcess, ~IdsFromConsole
  PROVE  TypeOK /\ TypeOK' /\ Bookkeeping /\ ReturnedHasHandle /\ StopsAreReturned
           /\ CancelledIsAborted /\ [Next]_vars
         => ReturnedHasHandle' /\ StopsAreReturned' /\ CancelledIsAborted'
<1> SUFFICES ASSUME TypeOK, TypeOK', Bookkeeping, ReturnedHasHandle, StopsAreReturned,
                    CancelledIsAborted, [Next]_vars
             PROVE  ReturnedHasHandle' /\ StopsAreReturned' /\ CancelledIsAborted'
  OBVIOUS
<1> USE DEF TypeOK, Row, Start, Stop, Opening, Live, Alive, Host, NoRow, OneProcess, Known,
            Bookkeeping, UnusedHasNothing, HandlesAreReturned, ReturnedHasHandle,
            StopsAreReturned, CancelledIsAborted
<1>1. ASSUME NEW p \in Procs, NEW i \in Invs, StartCreate(p, i)
      PROVE  ReturnedHasHandle' /\ StopsAreReturned' /\ CancelledIsAborted'
  BY <1>1 DEF StartCreate
<1>2. ASSUME NEW i \in Invs, StartSpawn(i)
      PROVE  ReturnedHasHandle' /\ StopsAreReturned' /\ CancelledIsAborted'
  <2>1. ReturnedHasHandle'
    BY <1>2 DEF StartSpawn
  <2>2. StopsAreReturned'
    BY <1>2 DEF StartSpawn
  <2>3. CancelledIsAborted'
    BY <1>2 DEF StartSpawn
  <2> QED
    BY <2>1, <2>2, <2>3
<1>3. ASSUME NEW i \in Invs, StartInsert(i)
      PROVE  ReturnedHasHandle' /\ StopsAreReturned' /\ CancelledIsAborted'
  BY <1>3 DEF StartInsert
<1>4. ASSUME NEW i \in Invs, NEW outcome \in {"ok", "failed"}, TaskExec(i, outcome)
      PROVE  ReturnedHasHandle' /\ StopsAreReturned' /\ CancelledIsAborted'
  BY <1>4 DEF TaskExec
<1>5. ASSUME NEW i \in Invs, TaskFinish(i)
      PROVE  ReturnedHasHandle' /\ StopsAreReturned' /\ CancelledIsAborted'
  <2>1. PICK st \in {"ok", "failed"} : Finish(i, st)
    BY <1>5 DEF TaskFinish
  <2> HIDE DEF TypeOK, Bookkeeping, ReturnedHasHandle, StopsAreReturned
  <2>2. \A j \in Invs : row'[j].st = "cancelled" => row[j].st = "cancelled"
    BY <2>1, FinishEffect DEF Terminal
  <2>3. \A j \in Invs : task'[j] = "exec" => task[j] = "exec"
    BY <1>5 DEF TaskFinish, TypeOK
  <2> QED
    BY <1>5, <2>2, <2>3 DEF TaskFinish, TypeOK, ReturnedHasHandle, StopsAreReturned
<1>6. ASSUME NEW i \in Invs, TaskFinishFails(i)
      PROVE  ReturnedHasHandle' /\ StopsAreReturned' /\ CancelledIsAborted'
  BY <1>6 DEF TaskFinishFails, Fault
<1>7. ASSUME NEW i \in Invs, TaskRemove(i)
      PROVE  ReturnedHasHandle' /\ StopsAreReturned' /\ CancelledIsAborted'
  BY <1>7 DEF TaskRemove
<1>8. ASSUME NEW i \in Invs, TaskDropped(i)
      PROVE  ReturnedHasHandle' /\ StopsAreReturned' /\ CancelledIsAborted'
  BY <1>8 DEF TaskDropped
<1>9. ASSUME NEW i \in Invs, TaskPanics(i)
      PROVE  ReturnedHasHandle' /\ StopsAreReturned' /\ CancelledIsAborted'
  BY <1>9 DEF TaskPanics, Fault
<1>10. ASSUME NEW c \in Stoppers, NEW p \in Procs, NEW i \in Invs, StopRequest(c, p, i)
       PROVE  ReturnedHasHandle' /\ StopsAreReturned' /\ CancelledIsAborted'
  BY <1>10 DEF StopRequest, RequestCancel, Known
<1>11. ASSUME NEW c \in Stoppers, ForceAbort(c)
       PROVE  ReturnedHasHandle' /\ StopsAreReturned' /\ CancelledIsAborted'
  BY <1>11 DEF ForceAbort
<1>12. ASSUME NEW c \in Stoppers, MarkAborted(c)
       PROVE  ReturnedHasHandle' /\ StopsAreReturned' /\ CancelledIsAborted'
  BY <1>12 DEF MarkAborted, Finish, NoStop
<1>13. ASSUME NEW c \in Stoppers, MarkAbortedFails(c)
       PROVE  ReturnedHasHandle' /\ StopsAreReturned' /\ CancelledIsAborted'
  BY <1>13 DEF MarkAbortedFails, Fault, NoStop
<1>14. ASSUME NEW p \in Procs, Open(p)
       PROVE  ReturnedHasHandle' /\ StopsAreReturned' /\ CancelledIsAborted'
  BY <1>14 DEF Open
<1>15. ASSUME NEW p \in Procs, MarkOrphansSelect(p)
       PROVE  ReturnedHasHandle' /\ StopsAreReturned' /\ CancelledIsAborted'
  BY <1>15 DEF MarkOrphansSelect, Orphans
<1>16. ASSUME NEW p \in Procs, NEW i \in Invs, MarkOrphan(p, i)
       PROVE  ReturnedHasHandle' /\ StopsAreReturned' /\ CancelledIsAborted'
  BY <1>16 DEF MarkOrphan, Finish
<1>17. ASSUME NEW p \in Procs, SweepSelect(p)
       PROVE  ReturnedHasHandle' /\ StopsAreReturned' /\ CancelledIsAborted'
  BY <1>17 DEF SweepSelect, Expired
<1>18. ASSUME NEW p \in Procs, NEW i \in Invs, SweepDelete(p, i)
       PROVE  ReturnedHasHandle' /\ StopsAreReturned' /\ CancelledIsAborted'
  BY <1>18 DEF SweepDelete
<1>19. ASSUME NEW p \in Procs, Opened(p)
       PROVE  ReturnedHasHandle' /\ StopsAreReturned' /\ CancelledIsAborted'
  BY <1>19 DEF Opened
<1>20. ASSUME NEW p \in Procs, PassFails(p)
       PROVE  ReturnedHasHandle' /\ StopsAreReturned' /\ CancelledIsAborted'
  BY <1>20 DEF PassFails, Fault
<1>21. ASSUME NEW p \in Procs, Crash(p)
       PROVE  ReturnedHasHandle' /\ StopsAreReturned' /\ CancelledIsAborted'
  BY <1>21 DEF Crash, NoStop
<1>22. ASSUME NEW i \in Invs, TtlPasses(i)
       PROVE  ReturnedHasHandle' /\ StopsAreReturned' /\ CancelledIsAborted'
  BY <1>22 DEF TtlPasses
<1>23. CASE UNCHANGED vars
  BY <1>23 DEF vars
<1> HIDE DEF TypeOK, Row, Start, Stop, Opening, Live, Alive, Host, NoRow, OneProcess, Known,
             Bookkeeping, UnusedHasNothing, HandlesAreReturned, ReturnedHasHandle,
             StopsAreReturned, CancelledIsAborted
<1> QED
  BY <1>1, <1>2, <1>3, <1>4, <1>5, <1>6, <1>7, <1>8, <1>9, <1>10, <1>11, <1>12, <1>13, <1>14, <1>15, <1>16, <1>17, <1>18, <1>19, <1>20, <1>21, <1>22, <1>23
  DEF Next, StartNext, TaskNext, StopNext, OpenNext

\* With one process on the database, mark_orphans interrupts no run whose task
\* is alive (solx-actions/src/lib.rs:138-141).
THEOREM InterruptedRunsAreOver ==
  ASSUME OneProcess
  PROVE  Spec => []InterruptedHasNoTask
<1>1. Init => DownHasNoTask /\ InterruptedIsOver
  BY DEF Init, DownHasNoTask, InterruptedIsOver, Alive, NoRow
<1>2. TypeOK /\ TypeOK' /\ IInv /\ DownHasNoTask /\ InterruptedIsOver /\ [Next]_vars
        => DownHasNoTask' /\ InterruptedIsOver'
  BY InterruptedStep DEF IInv
<1>3. InterruptedIsOver => InterruptedHasNoTask
  BY DEF InterruptedIsOver, InterruptedHasNoTask
<1> QED
  BY <1>1, <1>2, <1>3, InvocationsTypeOK, InvocationsIInv, PTL DEF Spec

\* With one process on the database and ids that only action-start hands out,
\* no cancelled run has a task that was not told to abort.
THEOREM CancelledRunsAreAborted ==
  ASSUME OneProcess, ~IdsFromConsole
  PROVE  Spec => []CancelledIsAborted
<1>1. Init => ReturnedHasHandle /\ StopsAreReturned /\ CancelledIsAborted
  BY DEF Init, ReturnedHasHandle, StopsAreReturned, CancelledIsAborted, NoRow, NoStop
<1>2. TypeOK /\ TypeOK' /\ IInv /\ ReturnedHasHandle /\ StopsAreReturned
        /\ CancelledIsAborted /\ [Next]_vars
      => ReturnedHasHandle' /\ StopsAreReturned' /\ CancelledIsAborted'
  BY CancelledStep DEF IInv
<1> QED
  BY <1>1, <1>2, InvocationsTypeOK, InvocationsIInv, PTL DEF Spec

\* What one step may do to a stop that is in progress: the abort takes the
\* handle out of the map, the mark ends the call with a settled row, or the
\* process goes down; it takes a failing UPDATE to end it otherwise.
StopGoesOn(c) ==
  LET s == stop[c] IN
  \/ stop'[c] = s
  \/ s.pc = "abort" /\ stop'[c] = [s EXCEPT !.pc = "mark"] /\ s.inv \notin running'[s.proc]
  \/ s.pc = "mark" /\ stop'[c].pc = "idle" /\ row'[s.inv].st \notin Live
  \/ stop'[c].pc = "idle" /\ proc'[s.proc].pc = "down"
  \/ stop'[c].pc = "idle" /\ faults' = faults + 1

\* No step makes a settled row of a run that was started live again.
LEMMA SettledStays ==
  ASSUME TypeOK, Bookkeeping, [Next]_vars, NEW i \in Invs,
         start[i].pc # "unused", row[i].st \notin Live
  PROVE  row'[i].st \notin Live
<1> USE DEF TypeOK, Row, Live, Terminal, NoRow
<1>1. ASSUME NEW j \in Invs, NEW st \in Terminal, Finish(j, st) PROVE row'[i].st \notin Live
  BY <1>1, FinishEffect
<1>2. ASSUME NEW p \in Procs, NEW j \in Invs, StartCreate(p, j) \/ SweepDelete(p, j) \/ MarkOrphan(p, j)
      PROVE  row'[i].st \notin Live
  BY <1>1, <1>2 DEF StartCreate, SweepDelete, MarkOrphan
<1>3. ASSUME NEW j \in Invs, TaskFinish(j) \/ TtlPasses(j) PROVE row'[i].st \notin Live
  BY <1>1, <1>3 DEF TaskFinish, TtlPasses
<1>4. ASSUME NEW c \in Stoppers, MarkAborted(c) PROVE row'[i].st \notin Live
  BY <1>1, <1>4 DEF MarkAborted, Stop
<1>5. ASSUME NEW c \in Stoppers, NEW p \in Procs, NEW j \in Invs, StopRequest(c, p, j)
      PROVE  row'[i].st \notin Live
  BY <1>5 DEF StopRequest, RequestCancel
<1>6. \/ row' = row
      \/ \E p \in Procs, j \in Invs :
           StartCreate(p, j) \/ MarkOrphan(p, j) \/ SweepDelete(p, j)
      \/ \E j \in Invs : TaskFinish(j) \/ TtlPasses(j)
      \/ \E c \in Stoppers : MarkAborted(c)
      \/ \E c \in Stoppers, p \in Procs, j \in Invs : StopRequest(c, p, j)
  BY DEF Next, StartNext, TaskNext, StopNext, OpenNext, vars, StartSpawn, StartInsert,
         TaskExec, TaskFinishFails, TaskRemove, TaskDropped, TaskPanics, ForceAbort,
         MarkAbortedFails, Open, MarkOrphansSelect, SweepSelect, Opened, PassFails, Crash
<1> QED
  BY <1>2, <1>3, <1>4, <1>5, <1>6

\* Whatever else happens to the run, a stop in progress only goes on.
LEMMA StopStep ==
  ASSUME TypeOK, [Next]_vars, NEW c \in Stoppers, stop[c].pc # "idle"
  PROVE  StopGoesOn(c)
<1>a. /\ stop \in [Stoppers -> Stop] /\ stop[c] \in Stop /\ NoStop.pc = "idle"
      /\ running \in [Procs -> SUBSET Invs] /\ proc \in [Procs -> Opening]
  BY DEF TypeOK, NoStop
<1>b. stop[c].proc \in Procs /\ stop[c].inv \in Invs
  BY <1>a DEF Stop
<1>1. ASSUME ForceAbort(c) PROVE StopGoesOn(c)
  <2>1. stop'[c] = [stop[c] EXCEPT !.pc = "mark"]
    BY <1>1, <1>a DEF ForceAbort
  <2>2. stop[c].inv \notin running'[stop[c].proc]
    BY <1>1, <1>a, <1>b DEF ForceAbort
  <2> QED
    BY <1>1, <2>1, <2>2 DEF StopGoesOn, ForceAbort
<1>2. ASSUME MarkAborted(c) PROVE StopGoesOn(c)
  <2>1. stop'[c] = NoStop /\ stop[c].pc = "mark"
    BY <1>2, <1>a DEF MarkAborted
  <2>2. row'[stop[c].inv].st \notin Live
    BY <1>2, <1>b, FinishEffect DEF MarkAborted, Live, Terminal
  <2> QED
    BY <1>a, <2>1, <2>2 DEF StopGoesOn
<1>3. ASSUME MarkAbortedFails(c) PROVE StopGoesOn(c)
  BY <1>3, <1>a DEF MarkAbortedFails, StopGoesOn, Fault
<1>4. ASSUME NEW p \in Procs, Crash(p) PROVE StopGoesOn(c)
  <2>1. CASE stop[c].proc = p
    <3>1. stop'[c] = NoStop /\ proc'[p].pc = "down"
      BY <1>4, <1>a, <2>1 DEF Crash
    <3> QED
      BY <1>a, <2>1, <3>1 DEF StopGoesOn
  <2>2. CASE stop[c].proc # p
    <3>1. stop'[c] = stop[c]
      BY <1>4, <1>a, <2>2 DEF Crash
    <3> QED
      BY <3>1 DEF StopGoesOn
  <2> QED
    BY <2>1, <2>2
<1>5. ASSUME NEW d \in Stoppers, d # c,
             ForceAbort(d) \/ MarkAborted(d) \/ MarkAbortedFails(d)
      PROVE  StopGoesOn(c)
  <2>1. stop'[c] = stop[c]
    BY <1>5, <1>a DEF ForceAbort, MarkAborted, MarkAbortedFails
  <2> QED
    BY <2>1 DEF StopGoesOn
<1>6. ASSUME NEW d \in Stoppers, NEW p \in Procs, NEW i \in Invs, StopRequest(d, p, i)
      PROVE  StopGoesOn(c)
  <2>1. stop'[c] = stop[c]
    BY <1>6, <1>a DEF StopRequest
  <2> QED
    BY <2>1 DEF StopGoesOn
<1>7. ASSUME stop' = stop PROVE StopGoesOn(c)
  BY <1>7 DEF StopGoesOn
<1>8. \/ stop' = stop
      \/ \E d \in Stoppers : ForceAbort(d) \/ MarkAborted(d) \/ MarkAbortedFails(d)
      \/ \E d \in Stoppers, p \in Procs, i \in Invs : StopRequest(d, p, i)
      \/ \E p \in Procs : Crash(p)
  BY DEF Next, StartNext, TaskNext, StopNext, OpenNext, vars, StartCreate, StartSpawn, StartInsert,
         TaskExec, TaskFinish, TaskFinishFails, TaskRemove, TaskDropped, TaskPanics, TtlPasses,
         Open, MarkOrphansSelect, MarkOrphan, SweepSelect, SweepDelete, Opened, PassFails
<1> QED
  BY <1>1, <1>2, <1>3, <1>4, <1>5, <1>6, <1>7, <1>8

\* A stop in progress is never lost, however the run, other stops and other
\* processes go on: it goes from the abort to the mark and ends with a row
\* that is settled and stays so, unless its process dies or its UPDATE fails
\* (stop_invocation, force_abort). It is what StopSettles says but for
\* fairness.
THEOREM StopsGoThrough ==
  Spec => /\ [][\A c \in Stoppers : stop[c].pc # "idle" => StopGoesOn(c)]_vars
          /\ [][\A i \in Invs : start[i].pc # "unused" /\ row[i].st \notin Live =>
                  row'[i].st \notin Live]_vars
<1>1. TypeOK /\ [Next]_vars => [\A c \in Stoppers : stop[c].pc # "idle" => StopGoesOn(c)]_vars
  BY StopStep
<1>2. TypeOK /\ IInv /\ [Next]_vars =>
        [\A i \in Invs : start[i].pc # "unused" /\ row[i].st \notin Live => row'[i].st \notin Live]_vars
  BY SettledStays DEF IInv
<1> QED
  BY <1>1, <1>2, InvocationsTypeOK, InvocationsIInv, PTL DEF Spec
=============================================================================
