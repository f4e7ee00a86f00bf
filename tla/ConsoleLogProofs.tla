------------------------- MODULE ConsoleLogProofs --------------------------
(* Theorems about Console when cursors are held, as they are in the code:    *)
(* what retention and a tailing reader rely on, that the tailed console      *)
(* implements ConsoleLog, that copies arrive once and in order, and that     *)
(* evictions keep a console within its cap and count what they delete; and   *)
(* that the TTL sweep drops nothing that was written since it expired.       *)
EXTENDS ConsoleProofs, NaturalOrder

\* What the types give the steps below.
WellTyped ==
  /\ \A r \in Refs :
       /\ row[r] \in Row /\ row[r].first \in Nat /\ row[r].next \in Nat
       /\ Claimed(row[r]) \in Nat
       /\ entries[r] \in SUBSET Entry /\ IsFiniteSet(entries[r])
       /\ \A e \in entries[r] : e.seq \in Nat
  /\ \A c \in Clients : /\ loc[c].ref \in Refs /\ loc[c].to \in Nat
                        /\ loc[c].first \in Nat /\ loc[c].seq \in Nat
  /\ row \in [Refs -> Row] /\ entries \in [Refs -> SUBSET Entry]
  /\ pc \in [Clients -> Labels] /\ loc \in [Clients -> Loc]

\* The type invariant gives them.
LEMMA Typed == TypeInv => WellTyped
<1> SUFFICES ASSUME TypeInv PROVE WellTyped
  OBVIOUS
<1>1. /\ row \in [Refs -> Row] /\ entries \in [Refs -> SUBSET Entry]
      /\ pc \in [Clients -> Labels] /\ loc \in [Clients -> Loc]
      /\ \A r \in Refs : IsFiniteSet(entries[r])
  BY DEF TypeInv, TypeOK, FiniteLogs
<1>2. ASSUME NEW r \in Refs
      PROVE  /\ row[r] \in Row /\ row[r].first \in Nat /\ row[r].next \in Nat
             /\ Claimed(row[r]) \in Nat
  <2>1. row[r] \in Row
    BY <1>1
  <2> QED
    BY <2>1, ClaimFacts DEF Row
<1>3. ASSUME NEW r \in Refs, NEW e \in entries[r] PROVE e.seq \in Nat
  BY <1>1 DEF Entry
<1>4. ASSUME NEW c \in Clients
      PROVE  /\ loc[c].ref \in Refs /\ loc[c].to \in Nat
             /\ loc[c].first \in Nat /\ loc[c].seq \in Nat
  BY <1>1 DEF Loc
<1> QED
  BY <1>1, <1>2, <1>3, <1>4 DEF WellTyped

\* With held cursors no client gets between the statements of a print or clear.
LEMMA NothingHalfDoneStep ==
  ASSUME HeldCursor, TypeInv, NothingHalfDone, [Next]_vars
  PROVE  NothingHalfDone'
<1> DEFINE Whole == Labels \ {"print_insert", "clear_update"}
<1>1. ASSUME NEW c \in Clients, ClientNext(c)
      PROVE  NothingHalfDone'
  <2>1. pc' = pc \/ \E label \in Whole : pc' = [pc EXCEPT ![c] = label]
    BY <1>1 DEF ClientNext, At, Goto, Return, Fail, Labels, PrintClaim, PrintTx,
       PrintInsert, CopySelect, CopyTx, EvictMeta, EvictDelete, EvictUpdate, ClearMeta,
       ClearTx, ClearDelete, ClearUpdate, ClearPartial, SweepSelect, SweepEntries,
       SweepRow, Abort
  <2> QED
    BY <2>1 DEF TypeInv, TypeOK, NothingHalfDone
<1>2. ASSUME pc' = pc PROVE NothingHalfDone'
  BY <1>2 DEF NothingHalfDone
<1> QED
  BY <1>1, <1>2 DEF Next, vars, Read, TtlPasses

\* A client about to forget old entries was about to before, or has just read
\* the counters, or has just deleted.
LEMMA WhoForgets ==
  ASSUME HeldCursor, TypeInv, NothingHalfDone, [Next]_vars, NEW c \in Clients,
         pc'[c] \in {"evict_delete", "evict_update", "clear_delete"}
  PROVE  \/ pc'[c] = pc[c] /\ loc'[c] = loc[c]
         \/ EvictMeta(c)
         \/ EvictDelete(c)
         \/ \E r \in Refs, before \in 1 .. (MaxSeq + 1) : ClearMeta(c, r, before)
<1>1. pc \in [Clients -> Labels] /\ loc \in [Clients -> Loc]
  BY DEF TypeInv, TypeOK
<1>2. ASSUME NEW d \in Clients, ClientNext(d),
             ~EvictMeta(c), ~EvictDelete(c),
             \A r \in Refs, before \in 1 .. (MaxSeq + 1) : ~ClearMeta(c, r, before)
      PROVE  pc'[c] = pc[c] /\ loc'[c] = loc[c]
  <2>1. CASE d = c
    <3>1. \/ pc' = pc /\ loc' = loc
          \/ \E label \in Labels \ {"evict_delete", "evict_update", "clear_delete"} :
               pc' = [pc EXCEPT ![c] = label]
      BY <1>2, <2>1 DEF ClientNext, At, Goto, Return, Fail, Labels, PrintClaim, PrintTx,
         PrintInsert, CopySelect, CopyTx, EvictUpdate,
         ClearTx, ClearDelete, ClearUpdate, ClearPartial, SweepSelect, SweepEntries,
         SweepRow, Abort
    <3> QED
      BY <1>1, <3>1
  <2>2. CASE d # c
    <3>1. \/ pc' = pc /\ loc' = loc
          \/ \E label \in Labels : \E l : pc' = [pc EXCEPT ![d] = label] /\ loc' = [loc EXCEPT ![d] = l]
      BY <1>2 DEF ClientNext, At, Goto, Return, Fail, Labels, PrintClaim, PrintInsert, PrintTx,
         CopySelect, CopyTx, EvictMeta, EvictDelete, EvictUpdate, ClearMeta,
         ClearTx, ClearDelete, ClearUpdate, ClearPartial, SweepSelect, SweepEntries,
         SweepRow, Abort
    <3> QED
      BY <1>1, <2>2, <3>1
  <2> QED
    BY <2>1, <2>2
<1>3. ASSUME pc' = pc, loc' = loc PROVE pc'[c] = pc[c] /\ loc'[c] = loc[c]
  BY <1>3
<1> QED
  BY <1>2, <1>3 DEF Next, vars, Read, TtlPasses

\* Every step that is not the end of a sweep lets each console grow; at the end
\* of a sweep no other client is busy.
LEMMA HeldStep ==
  ASSUME HeldCursor, ClaimsInv, NothingHalfDone, [Next]_vars
  PROVE  \/ \A r \in Refs : Grows(r)
         \/ \E d \in Clients :
              /\ SweepRow(d)
              /\ \A c \in Clients : pc'[c] \in {"idle", "sweep_entries"}
<1>1. CASE \E d \in Clients : SweepRow(d)
  <2>1. PICK d \in Clients : SweepRow(d)
    BY <1>1
  <2>2. \A c \in Clients \ {d} : pc[c] = "idle"
    BY <2>1 DEF SweepRow, ClaimsInv, SweepIsAlone, Sweeping, At
  <2>3. \A c \in Clients : pc'[c] \in {"idle", "sweep_entries"}
    BY <2>1, <2>2 DEF SweepRow, Goto, Return, ClaimsInv, TypeInv, TypeOK
  <2> QED
    BY <2>1, <2>3
<1>2. CASE \A d \in Clients : ~SweepRow(d)
  <2>1. \A c \in Clients : ~PrintInsert(c)
    BY DEF NothingHalfDone, PrintInsert, At
  <2> QED
    BY <1>2, <2>1, StoreStep DEF ClaimsInv
<1> QED
  BY <1>1, <1>2

\* A trim or a clear that has just read the counters forgets only claimed seqs.
LEMMA ForgetsWhatIsClaimed ==
  ASSUME WellTyped, NEW c \in Clients,
         pc'[c] \in {"evict_delete", "evict_update", "clear_delete"},
         \/ EvictMeta(c)
         \/ \E r \in Refs, before \in 1 .. (MaxSeq + 1) : ClearMeta(c, r, before)
  PROVE  /\ row' = row /\ pc'[c] # "evict_update"
         /\ loc'[c].ref \in Refs /\ loc'[c].to <= Claimed(row[loc'[c].ref])
<1>a. pc \in [Clients -> Labels] /\ loc \in [Clients -> Loc] /\ loc[c] \in Loc
  BY DEF WellTyped
<1>b. NoRow.next = 0 /\ NoRow.first = 0
  BY DEF NoRow
<1>1. CASE EvictMeta(c)
  <2> DEFINE l == loc[c]
             R == row[l.ref]
             m == [l EXCEPT !.first = R.first, !.to = NewFirst(R.first, R.next)]
  <2>1. ~Return(c)
    BY <1>a DEF Return, Goto
  <2>2. OverCap(R.first, R.next) /\ Goto(c, "evict_delete", m) /\ row' = row
    BY <1>1, <2>1 DEF EvictMeta
  <2>3. m.ref = l.ref /\ m.to = NewFirst(R.first, R.next)
    BY <1>a DEF Loc
  <2>4. l.ref \in Refs /\ R.first \in Nat /\ R.next \in Nat
    BY DEF WellTyped
  <2>5. m.to <= R.next
    BY <2>2, <2>3, <2>4, NewFirstFacts
  <2>6. R # NoRow
    BY <1>b, <2>2, ConsoleAssumption DEF OverCap
  <2>7. pc'[c] = "evict_delete" /\ loc'[c] = m
    BY <1>a, <2>2 DEF Goto
  <2> QED
    BY <2>2, <2>3, <2>4, <2>5, <2>6, <2>7 DEF Claimed
<1>2. ASSUME NEW r \in Refs, NEW before \in 1 .. (MaxSeq + 1), ClearMeta(c, r, before)
      PROVE  /\ row' = row /\ pc'[c] # "evict_update"
             /\ loc'[c].ref \in Refs /\ loc'[c].to <= Claimed(row[loc'[c].ref])
  <2> DEFINE cut == ClearCutoff(before, row[r].next)
             m == [NoLoc EXCEPT !.ref = r, !.to = cut]
  <2>1. m.ref = r /\ m.to = cut
    BY DEF NoLoc
  <2>2. pc'[c] = "clear_delete" /\ loc'[c] = m /\ row' = row /\ cut > row[r].first
    BY <1>2, <1>a DEF ClearMeta, Goto
  <2>3. row[r].first \in Nat /\ row[r].next \in Nat
    BY DEF WellTyped
  <2>4. before \in Nat /\ 1 <= before
    BY ConsoleAssumption
  <2>5. cut <= row[r].next /\ row[r] # NoRow
    BY <1>b, <2>2, <2>3, <2>4 DEF ClearCutoff, MinOf
  <2> QED
    BY <2>1, <2>2, <2>5 DEF Claimed
<1> QED
  BY <1>1, <1>2

\* What is about to be forgotten has been claimed, so no later entry falls
\* below a first seq that an eviction is about to write.
LEMMA ForgetsStep ==
  ASSUME HeldCursor, ClaimsInv, NothingHalfDone, ForgetsClaimed, [Next]_vars
  PROVE  ForgetsClaimed'
<1>a. TypeInv /\ WellTyped /\ WellTyped'
  BY Typed, TypeInvStep, PTL DEF ClaimsInv
<1> DEFINE Busy == {"evict_delete", "evict_update", "clear_delete"}
<1>1. CASE \E d \in Clients : SweepRow(d) /\ \A c \in Clients : pc'[c] \in {"idle", "sweep_entries"}
  BY <1>1 DEF ForgetsClaimed
<1>2. ASSUME \A r \in Refs : Grows(r), NEW c \in Clients, pc'[c] \in Busy
      PROVE  /\ loc'[c].to <= Claimed(row'[loc'[c].ref])
             /\ pc'[c] = "evict_update" => \A e \in entries'[loc'[c].ref] : loc'[c].to <= e.seq
  <2>1. CASE pc'[c] = pc[c] /\ loc'[c] = loc[c]
    <3> DEFINE r == loc[c].ref
    <3>1. r \in Refs /\ loc[c].to \in Nat /\ Claimed(row[r]) \in Nat /\ Claimed(row'[r]) \in Nat
      BY <1>a DEF WellTyped
    <3>2. loc[c].to <= Claimed(row[r]) /\ Claimed(row[r]) <= Claimed(row'[r])
      BY <1>2, <2>1, <3>1 DEF ForgetsClaimed, Grows
    <3>3. ASSUME pc[c] = "evict_update", NEW e \in entries'[r] PROVE loc[c].to <= e.seq
      <4>1. e.seq \in Nat
        BY <1>a, <3>1, <3>3 DEF WellTyped
      <4>2. e \in entries[r] \/ Claimed(row[r]) <= e.seq
        BY <1>2, <3>1, <3>3 DEF Grows
      <4> QED
        BY <3>1, <3>2, <3>3, <4>1, <4>2 DEF ForgetsClaimed
    <3> QED
      BY <2>1, <3>1, <3>2, <3>3
  <2>2. CASE \/ EvictMeta(c)
             \/ \E r \in Refs, before \in 1 .. (MaxSeq + 1) : ClearMeta(c, r, before)
    BY <1>2, <1>a, <2>2, ForgetsWhatIsClaimed
  <2>3. CASE EvictDelete(c)
    <3> DEFINE r == loc[c].ref
    <3>1. r \in Refs /\ loc[c].to \in Nat /\ pc[c] = "evict_delete"
      BY <1>a, <2>3 DEF WellTyped, EvictDelete, At
    <3>2. loc'[c] = loc[c] /\ row' = row /\ entries'[r] = From(entries[r], loc[c].to)
      BY <1>a, <2>3, <3>1 DEF EvictDelete, Goto, WellTyped
    <3>3. loc[c].to <= Claimed(row[r])
      BY <3>1 DEF ForgetsClaimed
    <3>4. \A e \in entries'[r] : e.seq >= loc[c].to /\ e.seq \in Nat
      BY <1>a, <3>1, <3>2 DEF From, WellTyped
    <3> QED
      BY <3>1, <3>2, <3>3, <3>4
  <2> QED
    BY <1>2, <1>a, <2>1, <2>2, <2>3, WhoForgets
<1> QED
  BY <1>1, <1>2, HeldStep DEF ForgetsClaimed

----------------------------------------------------------------------------
(* first_seq: a step leaves it alone (or at the start of a new console), or   *)
(* moves it to a claimed seq that nothing retained is below.                  *)

SameFirst(r) == row'[r].first = row[r].first \/ row'[r].first \in {0, 1}
Trimmed(r) ==
  /\ row'[r].first <= Claimed(row'[r])
  /\ \A e \in entries'[r] : row'[r].first <= e.seq

\* A claim leaves first_seq alone, or starts a console at 1.
LEMMA ClaimKeepsFirst ==
  ASSUME NEW R \in Row, NEW n \in Nat
  PROVE  ClaimRow(R, n).first = R.first \/ ClaimRow(R, n).first = 1
BY DEF ClaimRow, Row

\* A print in one transaction trims in the transaction that claims.
LEMMA PrintTxFirst ==
  ASSUME TypeInv, RowsStay, NEW c, NEW r \in Refs, NEW q \in Refs, NEW i,
         NEW done \in 1 .. 4, PrintTx(c, q, i, done), WellTyped'
  PROVE  SameFirst(r) \/ Trimmed(r)
<1> DEFINE R == PrintRow(r)
           to == PrintTo(r)
<1>a. WellTyped
  BY Typed
<1>1. CASE q # r
  BY <1>1, <1>a, PrintTxEffect DEF SameFirst, WellTyped
<1>2. CASE q = r
  <2>1. /\ R \in Row /\ R # NoRow /\ R.next \in Nat /\ R.first \in Nat
        /\ R.first = row[r].first \/ R.first = 1
    BY <1>a, ClaimOne, ClaimKeepsFirst DEF PrintRow, WellTyped, Row
  <2>2. CASE row'[r] = R
    BY <2>1, <2>2 DEF SameFirst
  <2>3. CASE /\ OverCap(R.first, R.next)
             /\ row'[r] = EvictRow(R, R.first, to)
             /\ entries'[r] = From(PrintLog(r, i), to)
    <3>1. to \in Nat /\ to <= R.next
      BY <2>1, <2>3, NewFirstFacts DEF PrintTo
    <3>2. R # NoRow => 1 <= R.next
      BY <1>a, <2>1, ClaimOne DEF PrintRow, WellTyped
    <3>3. row'[r].first = to /\ Claimed(row'[r]) = R.next
      <4> HIDE DEF R, to
      <4>1. EvictRow(R, R.first, to).first = to /\ Claimed(EvictRow(R, R.first, to)) = Claimed(R)
        BY <2>1, <3>1, <3>2, FirstKeepsClaims
      <4> QED
        BY <2>1, <2>3, <4>1 DEF Claimed
    <3>4. \A e \in entries'[r] : e.seq >= to /\ e.seq \in Nat
      BY <2>3 DEF From, WellTyped
    <3> QED
      BY <3>1, <3>3, <3>4 DEF Trimmed
  <2> QED
    BY <1>2, <1>a, <2>2, <2>3, PrintTxEffect DEF WellTyped
<1> QED
  BY <1>1, <1>2

\* What any step does to first_seq.
LEMMA FirstMoves ==
  ASSUME HeldCursor, ClaimsInv, NothingHalfDone, ForgetsClaimed, [Next]_vars, NEW r \in Refs
  PROVE  SameFirst(r) \/ Trimmed(r)
<1>a. TypeInv /\ WellTyped /\ WellTyped' /\ RowsStay
  BY Typed, TypeInvStep, PTL DEF ClaimsInv
<1>b. /\ row \in [Refs -> Row] /\ row[r] \in Row /\ entries \in [Refs -> SUBSET Entry]
      /\ \A c \in Clients : loc[c].ref \in Refs /\ loc[c].to \in Nat /\ loc[c].first \in Nat
      /\ \A e \in entries'[r] : e.seq \in Nat
  BY <1>a DEF WellTyped
<1>c. row[r] # NoRow => 1 <= row[r].next
  BY <1>a DEF RowsStay
<1>1. CASE row'[r] = row[r]
  BY <1>1 DEF SameFirst
<1>2. ASSUME NEW c \in Clients, CopyTx(c) PROVE SameFirst(r)
  <2> DEFINE n == Cardinality(loc[c].batch)
  <2>1. n \in Nat
    BY <1>a, FS_CardinalityType DEF TypeInv, FiniteLogs
  <2>2. row'[r] = row[r] \/ row'[r] = ClaimRow(row[r], n)
    BY <1>2, <1>b DEF CopyTx, store
  <2> QED
    BY <1>b, <2>1, <2>2, ClaimKeepsFirst DEF SameFirst
<1>3. ASSUME NEW c \in Clients, EvictUpdate(c) PROVE SameFirst(r) \/ Trimmed(r)
  <2>1. entries' = entries /\ pc[c] = "evict_update"
    BY <1>3 DEF EvictUpdate, At
  <2>2. \/ row'[r] = row[r]
        \/ /\ loc[c].ref = r /\ row[r] # NoRow
           /\ row'[r] = EvictRow(row[r], loc[c].first, loc[c].to)
    BY <1>3, <1>b DEF EvictUpdate
  <2>3. CASE /\ loc[c].ref = r /\ row[r] # NoRow
             /\ row'[r] = EvictRow(row[r], loc[c].first, loc[c].to)
    <3>1. row'[r].first = loc[c].to /\ Claimed(row'[r]) = Claimed(row[r])
      BY <1>b, <1>c, <2>3, FirstKeepsClaims
    <3>2. loc[c].to <= Claimed(row[r]) /\ \A e \in entries[r] : loc[c].to <= e.seq
      BY <2>1, <2>3 DEF ForgetsClaimed
    <3> QED
      BY <2>1, <3>1, <3>2 DEF Trimmed
  <2> QED
    BY <2>2, <2>3 DEF SameFirst
<1>4. ASSUME NEW c \in Clients, ClearTx(c) PROVE SameFirst(r) \/ Trimmed(r)
  <2>1. pc[c] = "clear_delete"
    BY <1>4 DEF ClearTx, At
  <2>2. \/ row'[r] = row[r]
        \/ /\ loc[c].ref = r /\ row'[r] = SetFirst(row[r], loc[c].to)
           /\ entries'[r] = From(entries[r], loc[c].to)
    BY <1>4, <1>b DEF ClearTx
  <2>3. CASE /\ loc[c].ref = r /\ row'[r] = SetFirst(row[r], loc[c].to)
             /\ entries'[r] = From(entries[r], loc[c].to)
    <3>1. /\ row'[r].first = loc[c].to \/ row'[r] = NoRow
          /\ Claimed(row'[r]) = Claimed(row[r])
      BY <1>b, <1>c, <2>3, FirstKeepsClaims
    <3>2. loc[c].to <= Claimed(row[r])
      BY <2>1, <2>3 DEF ForgetsClaimed
    <3>3. \A e \in entries'[r] : e.seq >= loc[c].to
      BY <2>3 DEF From
    <3>4. NoRow.first = 0
      BY DEF NoRow
    <3> QED
      BY <1>b, <3>1, <3>2, <3>3, <3>4 DEF Trimmed, SameFirst
  <2> QED
    BY <2>2, <2>3 DEF SameFirst
<1>5. ASSUME NEW c \in Clients, SweepRow(c) PROVE SameFirst(r)
  BY <1>5, <1>b DEF SweepRow, SameFirst, NoRow
<1>6. ASSUME NEW q \in Refs, TtlPasses(q) PROVE SameFirst(r)
  <2>1. [row[r] EXCEPT !.fresh = FALSE].first = row[r].first
    BY <1>b DEF Row
  <2> QED
    BY <1>6, <1>b, <2>1 DEF TtlPasses, SameFirst
<1>7. ASSUME NEW c \in Clients, NEW q \in Refs, NEW i \in Invs, NEW done \in 1 .. 4,
             PrintTx(c, q, i, done)
      PROVE  SameFirst(r) \/ Trimmed(r)
  BY <1>7, <1>a, PrintTxFirst
<1>8. \/ row' = row
      \/ \E q \in Refs : TtlPasses(q)
      \/ \E c \in Clients :
           \/ \E q \in Refs, i \in Invs, done \in 1 .. 4 : PrintTx(c, q, i, done)
           \/ CopyTx(c) \/ EvictUpdate(c) \/ ClearTx(c) \/ SweepRow(c)
  BY DEF Next, ClientNext, vars, CopySelect, EvictMeta, EvictDelete, ClearMeta, SweepSelect,
     SweepEntries, ClearDelete, ClearPartial, Abort, Read, PrintClaim, PrintInsert, ClearUpdate,
     NothingHalfDone, At
<1> QED
  BY <1>1, <1>2, <1>3, <1>4, <1>5, <1>6, <1>7, <1>8

\* So nothing retained is ever below first_seq.
LEMMA FirstStep ==
  ASSUME HeldCursor, "sweep" \in Ops => SweepAlone, ClaimsInv, HeldInv, [Next]_vars
  PROVE  FirstIsClaimed' /\ RetainedAboveFirst'
<1>a. /\ TypeInv /\ WellTyped /\ WellTyped' /\ RowsStay
      /\ NothingHalfDone /\ ForgetsClaimed /\ FirstIsClaimed /\ RetainedAboveFirst
  BY Typed, TypeInvStep, PTL DEF ClaimsInv, HeldInv
<1>b. RowsStay'
  BY ClaimsStep DEF ClaimsInv
<1>1. ASSUME NEW r \in Refs
      PROVE  /\ row'[r].first <= Claimed(row'[r])
             /\ \A e \in entries'[r] : 1 <= e.seq /\ row'[r].first <= e.seq
  <2>1. /\ row[r].first \in Nat /\ Claimed(row[r]) \in Nat /\ \A e \in entries[r] : e.seq \in Nat
        /\ row'[r].first \in Nat /\ Claimed(row'[r]) \in Nat /\ \A e \in entries'[r] : e.seq \in Nat
    BY <1>a DEF WellTyped
  <2>2. 1 <= Claimed(row[r]) /\ 1 <= Claimed(row'[r])
    BY <1>a, <1>b DEF RowsStay, Claimed
  <2>3. \/ Grows(r)
        \/ entries' = entries /\ row'[r] = row[r]
        \/ entries' = entries /\ row'[r] = NoRow
    <3>1. ASSUME NEW d \in Clients, SweepRow(d)
          PROVE  entries' = entries /\ (row'[r] = row[r] \/ row'[r] = NoRow)
      BY <3>1, <1>a DEF SweepRow, WellTyped
    <3> QED
      BY <1>a, <3>1, HeldStep
  <2>4. \A e \in entries'[r] : 1 <= e.seq
    BY <1>a, <2>1, <2>2, <2>3 DEF FirstIsClaimed, Grows
  <2>5. CASE row'[r].first = row[r].first
    <3>1. CASE Grows(r)
      BY <1>a, <2>1, <2>4, <2>5, <3>1 DEF FirstIsClaimed, RetainedAboveFirst, Grows
    <3>2. CASE entries' = entries /\ row'[r] = row[r]
      BY <1>a, <2>1, <2>4, <2>5, <3>2 DEF FirstIsClaimed, RetainedAboveFirst
    <3>3. CASE entries' = entries /\ row'[r] = NoRow
      BY <1>a, <2>1, <2>2, <2>4, <2>5, <3>3 DEF FirstIsClaimed, RetainedAboveFirst, NoRow
    <3> QED
      BY <2>3, <3>1, <3>2, <3>3
  <2>6. CASE row'[r].first \in {0, 1}
    BY <2>1, <2>2, <2>4, <2>6
  <2>7. CASE Trimmed(r)
    BY <2>4, <2>7 DEF Trimmed
  <2> QED
    BY <1>a, <2>5, <2>6, <2>7, FirstMoves DEF SameFirst
<1> QED
  BY <1>1 DEF FirstIsClaimed, RetainedAboveFirst

\* What holds of the logs in every reachable state, when cursors are held and
\* a sweep, if any, is alone.
LEMMA ConsoleHeldInv ==
  ASSUME HeldCursor, "sweep" \in Ops => SweepAlone
  PROVE  Spec => []HeldInv
<1>1. Init => HeldInv
  BY DEF Init, HeldInv, NothingHalfDone, ForgetsClaimed, FirstIsClaimed, RetainedAboveFirst,
     NoRow, Claimed
<1>2. ClaimsInv /\ HeldInv /\ [Next]_vars => HeldInv'
  <2> SUFFICES ASSUME ClaimsInv, HeldInv, [Next]_vars PROVE HeldInv'
    OBVIOUS
  <2>1. NothingHalfDone' /\ ForgetsClaimed'
    BY NothingHalfDoneStep, ForgetsStep DEF ClaimsInv, HeldInv
  <2> QED
    BY <2>1, FirstStep DEF HeldInv
<1> QED
  BY <1>1, <1>2, ConsoleClaimsInv, PTL DEF Spec

\* first_seq is "the oldest seq still retained" (console.rs:101) however the
\* counters an eviction or a clear works from have aged: nothing retained lies
\* below it, with one process on the database or where nothing sweeps.
THEOREM ConsoleRetainedAboveFirst ==
  ASSUME "sweep" \in Ops => SweepAlone
  PROVE  Spec => []RetainedAboveFirst
<1>1. CASE HeldCursor
  BY <1>1, ConsoleHeldInv, PTL DEF HeldInv
<1>2. CASE ~HeldCursor
  <2>1. RetainedAboveFirst
    BY <1>2 DEF RetainedAboveFirst
  <2> QED
    BY <2>1, PTL
<1> QED
  BY <1>1, <1>2

----------------------------------------------------------------------------
(* A tailing reader of a console that nothing sweeps.                         *)

NobodySweeps == \A c \in Clients : ~Sweeping(c)

\* Where no operation sweeps, no client is ever sweeping.
LEMMA NobodySweepsStep ==
  ASSUME "sweep" \notin Ops, TypeInv, NobodySweeps, [Next]_vars
  PROVE  NobodySweeps'
<1>1. pc \in [Clients -> Labels]
  BY DEF TypeInv, TypeOK
<1>2. ASSUME NEW c \in Clients, ClientNext(c) PROVE NobodySweeps'
  <2>1. \/ pc' = pc
        \/ \E label \in Labels \ {"sweep_entries", "sweep_row"} : pc' = [pc EXCEPT ![c] = label]
    BY ZenonT(60), <1>2 DEF ClientNext, At, Goto, Return, Fail, Labels, PrintClaim, PrintTx,
       PrintInsert, CopySelect, CopyTx, EvictMeta, EvictDelete, EvictUpdate, ClearMeta,
       ClearTx, ClearDelete, ClearUpdate, ClearPartial, SweepSelect, SweepEntries,
       SweepRow, Abort, NobodySweeps, Sweeping
  <2> QED
    BY <1>1, <2>1 DEF NobodySweeps, Sweeping
<1>3. ASSUME pc' = pc PROVE NobodySweeps'
  BY <1>3 DEF NobodySweeps, Sweeping
<1> QED
  BY <1>2, <1>3 DEF Next, vars, Read, TtlPasses

\* A page takes an entry with everything before it.
LEMMA PageIsPrefix ==
  ASSUME NEW E \in SUBSET Entry, IsFiniteSet(E), NEW last \in Page(E), NEW e \in E,
         e.seq <= last.seq
  PROVE  e \in Page(E)
<1>1. last \in E /\ Rank(last, E) < Limit
  BY DEF Page
<1>2. Rank(e, E) <= Rank(last, E) /\ Rank(e, E) \in Nat /\ Rank(last, E) \in Nat
  BY <1>1, RankMonotone, RankBound
<1> QED
  BY <1>1, <1>2, ConsoleAssumption DEF Page

\* A read moves the cursor just past the last entry that it returns, and
\* returns everything retained between the two cursors.
LEMMA ReadStep ==
  ASSUME HeldCursor, TypeInv, ClaimsAreFresh, TailInv, NEW q \in Readers, Read(q)
  PROVE  TailInv'
<1> DEFINE log == entries[Tailed]
           todo == From(log, rd[q].cursor)
<1>a. /\ Tailed \in Refs /\ WellTyped /\ rd \in [Readers -> Reader]
      /\ rd[q] \in Reader /\ rd[q].cursor \in Nat
  BY Typed, ConsoleAssumption DEF TypeInv, TypeOK, Reader
<1>b. /\ log \in SUBSET Entry /\ IsFiniteSet(log) /\ \A e \in log : e.seq \in Nat
      /\ Claimed(row[Tailed]) \in Nat
  BY <1>a DEF WellTyped
<1>c. todo \in SUBSET Entry /\ todo \subseteq log /\ IsFiniteSet(todo)
  BY <1>b, PartsAreFinite DEF From
<1>1. PICK last \in Page(todo) :
        rd' = [rd EXCEPT ![q].cursor = After(last), ![q].seen = @ \union Seqs(Page(todo))]
  BY DEF Read, ReadPage
<1>2. row' = row /\ entries' = entries
  BY DEF Read
<1>3. last \in log /\ last.seq < Claimed(row[Tailed])
  <2>1. last \in log
    BY <1>c, PageFacts
  <2> QED
    BY <1>a, <2>1 DEF ClaimsAreFresh
<1>4. /\ rd'[q].cursor = last.seq + 1
      /\ rd'[q].seen = rd[q].seen \union Seqs(Page(todo))
      /\ \A p \in Readers \ {q} : rd'[p] = rd[p]
  BY <1>a, <1>1 DEF After, Reader
<1>5. CursorsAreClaimed'
  BY <1>b, <1>2, <1>3, <1>4 DEF CursorsAreClaimed, TailInv
<1>6. ASSUME NEW e \in log, e.seq < last.seq + 1 PROVE e.seq \in rd'[q].seen
  <2>1. CASE e.seq < rd[q].cursor
    BY <1>4, <2>1 DEF TailInv, TailMissesNothing
  <2>2. CASE e.seq >= rd[q].cursor
    <3>1. e \in todo
      BY <2>2 DEF From
    <3>2. e.seq <= last.seq
      BY <1>b, <1>3, <1>6
    <3> HIDE DEF todo
    <3>3. e \in Page(todo)
      BY <1>c, <3>1, <3>2, PageIsPrefix
    <3> QED
      BY <1>4, <3>3 DEF Seqs
  <2> QED
    BY <1>a, <1>b, <2>1, <2>2
<1>7. TailMissesNothing'
  BY <1>2, <1>4, <1>6 DEF TailInv, TailMissesNothing
<1> QED
  BY <1>5, <1>7 DEF TailInv

\* Nothing a client does puts an entry behind a reader's cursor.
LEMMA TailStep ==
  ASSUME HeldCursor, ClaimsInv, NothingHalfDone, NobodySweeps, TailInv, [Next]_vars
  PROVE  TailInv'
<1>1. CASE \E q \in Readers : Read(q)
  BY <1>1, ReadStep DEF ClaimsInv
<1>2. CASE ~\E q \in Readers : Read(q)
  <2>1. rd' = rd
    <3>1. ASSUME NEW c \in Clients, NEW r \in Refs, NEW i \in Invs, NEW done \in 1 .. 4,
                 PrintTx(c, r, i, done)
          PROVE  rd' = rd
      BY <3>1 DEF PrintTx
    <3>2. ASSUME NEW c \in Clients, ClientNext(c) PROVE rd' = rd
      BY <3>1, <3>2 DEF ClientNext, PrintClaim, PrintInsert, CopySelect, CopyTx,
         EvictMeta, EvictDelete, EvictUpdate, ClearMeta, ClearTx, ClearDelete, ClearUpdate,
         ClearPartial, SweepSelect, SweepEntries, SweepRow, Abort
    <3> QED
      BY <1>2, <3>2 DEF Next, vars, TtlPasses
  <2>2. Grows(Tailed) /\ Tailed \in Refs
    BY HeldStep, ConsoleAssumption DEF NobodySweeps, Sweeping, SweepRow, At
  <2>3. WellTyped /\ WellTyped' /\ rd \in [Readers -> Reader]
    BY Typed, TypeInvStep, PTL DEF ClaimsInv, TypeInv, TypeOK
  <2>4. /\ Claimed(row[Tailed]) \in Nat /\ Claimed(row'[Tailed]) \in Nat
        /\ \A e \in entries'[Tailed] : e.seq \in Nat
        /\ \A q \in Readers : rd[q].cursor \in Nat
    BY <2>2, <2>3 DEF WellTyped, Reader
  <2>5. CursorsAreClaimed'
    BY <2>1, <2>2, <2>4 DEF TailInv, CursorsAreClaimed, Grows
  <2>6. TailMissesNothing'
    BY <2>1, <2>2, <2>4 DEF TailInv, CursorsAreClaimed, TailMissesNothing, Grows
  <2> QED
    BY <2>5, <2>6 DEF TailInv
<1> QED
  BY <1>1, <1>2

\* A reader that tails with its saved cursor misses nothing that is still
\* retained (console.rs:27-29), whatever writers, evictions, clears and other
\* readers do meanwhile, on a console that no sweep removes.
THEOREM ConsoleTailMissesNothing ==
  ASSUME "sweep" \notin Ops
  PROVE  Spec => []TailMissesNothing
<1>1. CASE HeldCursor
  <2>1. Init => NobodySweeps /\ TailInv
    BY ConsoleAssumption DEF Init, NobodySweeps, Sweeping, TailInv, CursorsAreClaimed,
       TailMissesNothing, NoRow, Claimed
  <2>2. ClaimsInv /\ HeldInv /\ NobodySweeps /\ TailInv /\ [Next]_vars => NobodySweeps' /\ TailInv'
    <3> SUFFICES ASSUME ClaimsInv, HeldInv, NobodySweeps, TailInv, [Next]_vars
                 PROVE  NobodySweeps' /\ TailInv'
      OBVIOUS
    <3>1. NobodySweeps'
      BY NobodySweepsStep DEF ClaimsInv
    <3>2. TailInv'
      BY <1>1, TailStep DEF HeldInv
    <3> QED
      BY <3>1, <3>2
  <2>3. Spec => []ClaimsInv /\ []HeldInv
    BY <1>1, ConsoleClaimsInv, ConsoleHeldInv
  <2> QED
    BY <2>1, <2>2, <2>3, PTL DEF Spec, TailInv
<1>2. CASE ~HeldCursor
  <2>1. TailMissesNothing
    BY <1>2 DEF TailMissesNothing
  <2> QED
    BY <2>1, PTL
<1> QED
  BY <1>1, <1>2

----------------------------------------------------------------------------
(* The tailed console implements ConsoleLog.  A copied block fills exactly    *)
(* the seqs that it claims because no two entries of a batch share a seq.     *)

UniqueSeqs(E) == \A e, f \in E : e.seq = f.seq => e = f
LogsUnique ==
  /\ \A r \in Refs : UniqueSeqs(entries[r])
  /\ \A c \in Clients : UniqueSeqs(loc[c].batch)

\* Ranks tell entries with different seqs apart.
LEMMA RankStrict ==
  ASSUME NEW E \in SUBSET Entry, IsFiniteSet(E), NEW e \in E, NEW f \in E, e.seq < f.seq
  PROVE  Rank(e, E) < Rank(f, E)
<1>1. Below(E, e.seq) \in SUBSET Below(E, f.seq) /\ Below(E, e.seq) # Below(E, f.seq)
  <2>1. e \in Below(E, f.seq) /\ e \notin Below(E, e.seq)
    BY DEF Below, Entry
  <2> QED
    BY <2>1 DEF Below, Entry
<1>2. /\ IsFiniteSet(Below(E, f.seq))
      /\ Cardinality(Below(E, f.seq)) \in Nat /\ Cardinality(Below(E, e.seq)) \in Nat
  BY PartsAreFinite
<1> QED
  BY <1>1, <1>2, FS_Subset DEF Rank

\* Renumbering fills the interval of the claimed seqs, one entry for each.
LEMMA RenumberFills ==
  ASSUME NEW B \in SUBSET Entry, IsFiniteSet(B), UniqueSeqs(B), NEW begin \in Nat
  PROVE  /\ Seqs(Renumber(B, begin)) = begin .. (begin + Cardinality(B) - 1)
         /\ UniqueSeqs(Renumber(B, begin))
<1> DEFINE n == Cardinality(B)
           T == begin .. (begin + n - 1)
           num == [e \in B |-> begin + Rank(e, B)]
<1>1. n \in Nat
  BY FS_CardinalityType
<1>2. \A e \in B : Rank(e, B) \in Nat /\ Rank(e, B) < n
  BY RankBound
<1>3. num \in [B -> T]
  <2> SUFFICES ASSUME NEW e \in B PROVE begin + Rank(e, B) \in T
    OBVIOUS
  <2> HIDE DEF n
  <2> QED
    BY <1>1, <1>2
<1>4. ASSUME NEW e \in B, NEW f \in B, begin + Rank(e, B) = begin + Rank(f, B)
      PROVE  e = f
  <2>1. Rank(e, B) = Rank(f, B)
    BY <1>2, <1>4
  <2>2. e.seq \in Nat /\ f.seq \in Nat
    BY DEF Entry
  <2>3. ~(e.seq < f.seq) /\ ~(f.seq < e.seq)
    BY <1>2, <2>1, RankStrict
  <2> QED
    BY <2>2, <2>3 DEF UniqueSeqs
<1>5. num \in Injection(B, T)
  <2>1. \A e, f \in B : num[e] = num[f] => e = f
    BY <1>4
  <2> HIDE DEF num, T
  <2> QED
    BY <1>3, <2>1 DEF Injection, IsInjective
<1>6. IsFiniteSet(T) /\ Cardinality(T) = n
  <2> HIDE DEF n
  <2>1. begin \in Int /\ begin + n - 1 \in Int
    BY <1>1
  <2> QED
    BY <1>1, <2>1, FS_Interval
<1>7. num \in Surjection(B, T)
  <2> HIDE DEF num, T
  <2> QED
    BY <1>5, <1>6, FS_Injection
<1>8. \A s \in T : \E e \in B : s = begin + Rank(e, B)
  BY <1>7 DEF Surjection
<1>9. Seqs(Renumber(B, begin)) = {begin + Rank(e, B) : e \in B}
  <2>1. ASSUME NEW s \in Seqs(Renumber(B, begin)) PROVE s \in {begin + Rank(e, B) : e \in B}
    BY <2>1 DEF Seqs, Renumber
  <2>2. ASSUME NEW e \in B PROVE begin + Rank(e, B) \in Seqs(Renumber(B, begin))
    <3>1. [seq |-> begin + Rank(e, B), inv |-> e.inv, org |-> e.seq] \in Renumber(B, begin)
      BY DEF Renumber
    <3> QED
      BY <3>1 DEF Seqs
  <2> QED
    BY <2>1, <2>2
<1>10. {begin + Rank(e, B) : e \in B} = T
  <2> HIDE DEF T
  <2>1. \A e \in B : begin + Rank(e, B) \in T
    BY <1>3
  <2> QED
    BY <1>8, <2>1
<1>11. UniqueSeqs(Renumber(B, begin))
  BY <1>4 DEF UniqueSeqs, Renumber
<1> QED
  BY <1>9, <1>10, <1>11

\* New entries that all lie above the old ones keep seqs unique.
LEMMA UniqueUnion ==
  ASSUME NEW E, NEW new, NEW s \in Nat, UniqueSeqs(E), UniqueSeqs(new),
         \A e \in E : e.seq \in Nat /\ e.seq < s,
         \A e \in new : e.seq \in Nat /\ s <= e.seq,
         NEW F \in SUBSET (E \union new)
  PROVE  UniqueSeqs(F)
<1>1. ASSUME NEW e \in E, NEW f \in new PROVE e.seq # f.seq
  BY <1>1
<1> QED
  BY <1>1 DEF UniqueSeqs

\* What a client has in its batch, it had before, or it has just selected.
LEMMA BatchComesFrom ==
  ASSUME TypeInv, [Next]_vars, NEW c \in Clients
  PROVE  loc'[c].batch \subseteq loc[c].batch \/ loc'[c].batch \subseteq entries[CopyFrom]
<1>a. loc \in [Clients -> Loc] /\ \A d \in Clients : loc[d] \in Loc
  BY DEF TypeInv, TypeOK
<1>b. NoLoc.batch = {}
  BY DEF NoLoc
<1>1. CASE loc'[c] = loc[c]
  BY <1>1
<1>2. ASSUME NEW l, Goto(c, "idle", l) \/ loc' = [loc EXCEPT ![c] = l],
             l.batch \subseteq loc[c].batch \/ l.batch \subseteq entries[CopyFrom]
      PROVE  loc'[c].batch \subseteq loc[c].batch \/ loc'[c].batch \subseteq entries[CopyFrom]
  BY <1>a, <1>2 DEF Goto
<1>3. ASSUME NEW i \in Invs, CopySelect(c, i)
      PROVE  loc'[c].batch \subseteq entries[CopyFrom]
  <2> DEFINE E == {e \in From(entries[CopyFrom], drain[i]) : e.inv = i}
             found == Page(E)
  <2>1. PICK last \in found :
          loc' = [loc EXCEPT ![c] =
                    [NoLoc EXCEPT !.ref = CopyTo, !.inv = i, !.batch = found,
                                  !.seq = After(last), !.copying = TRUE]]
    BY <1>3 DEF CopySelect, Goto
  <2>2. found \subseteq entries[CopyFrom]
    BY DEF Page, From
  <2> HIDE DEF found
  <2>3. [NoLoc EXCEPT !.ref = CopyTo, !.inv = i, !.batch = found,
                      !.seq = After(last), !.copying = TRUE].batch = found
    BY DEF NoLoc
  <2> QED
    BY <1>a, <2>1, <2>2, <2>3
<1>4. ASSUME CopyTx(c) \/ EvictMeta(c) \/ \E r \in Refs : SweepEntries(c, r)
      PROVE  loc'[c].batch \subseteq loc[c].batch
  <2>1. [loc[c] EXCEPT !.batch = {}].batch = {}
    BY <1>a DEF Loc
  <2>2. \A x, y : [loc[c] EXCEPT !.first = x, !.to = y].batch = loc[c].batch
    BY <1>a DEF Loc
  <2>3. \A x, y : [loc[c] EXCEPT !.ref = x, !.todo = y].batch = loc[c].batch
    BY <1>a DEF Loc
  <2>4. CASE CopyTx(c)
    BY <1>a, <1>b, <2>1, <2>4 DEF CopyTx, Goto, Fail
  <2>5. CASE EvictMeta(c)
    <3> DEFINE R == row[loc[c].ref]
               m == [loc[c] EXCEPT !.first = R.first, !.to = NewFirst(R.first, R.next)]
    <3>1. loc' = [loc EXCEPT ![c] = NoLoc] \/ loc' = [loc EXCEPT ![c] = m]
      BY <2>5 DEF EvictMeta, Goto, Return
    <3>2. m.batch = loc[c].batch
      BY <2>2
    <3> HIDE DEF m
    <3> QED
      BY <1>a, <1>b, <3>1, <3>2
  <2>6. CASE \E r \in Refs : SweepEntries(c, r)
    BY <1>a, <1>b, <2>3, <2>6 DEF SweepEntries, Goto
  <2> QED
    BY <1>4, <2>4, <2>5, <2>6
<1>5. ASSUME \/ \E r \in Refs, i \in Invs : PrintClaim(c, r, i)
             \/ \E r \in Refs, before \in 1 .. (MaxSeq + 1) : ClearMeta(c, r, before)
             \/ SweepSelect(c) \/ Abort(c)
      PROVE  loc'[c].batch \subseteq loc[c].batch
  <2>1. /\ \A x, y, z : [NoLoc EXCEPT !.ref = x, !.inv = y, !.seq = z].batch = {}
        /\ \A x, y : [NoLoc EXCEPT !.ref = x, !.to = y].batch = {}
        /\ \A x : [NoLoc EXCEPT !.todo = x].batch = {}
    BY DEF NoLoc
  <2>2. ASSUME NEW r \in Refs, NEW i \in Invs, PrintClaim(c, r, i)
        PROVE  loc'[c].batch = {}
    BY <1>a, <2>1, <2>2 DEF PrintClaim, Goto
  <2>3. ASSUME NEW r \in Refs, NEW before \in 1 .. (MaxSeq + 1), ClearMeta(c, r, before)
        PROVE  loc'[c].batch = {}
    BY <1>a, <2>1, <2>3 DEF ClearMeta, Goto
  <2>4. ASSUME SweepSelect(c) PROVE loc'[c].batch = {}
    BY <1>a, <2>1, <2>4 DEF SweepSelect, Goto
  <2>5. ASSUME Abort(c) PROVE loc'[c].batch = {}
    BY <1>a, <1>b, <2>5 DEF Abort, Fail, Goto
  <2> QED
    BY <1>5, <2>2, <2>3, <2>4, <2>5
<1>6. ASSUME \/ PrintInsert(c) \/ EvictDelete(c) \/ EvictUpdate(c) \/ ClearTx(c)
             \/ ClearDelete(c) \/ ClearUpdate(c) \/ ClearPartial(c) \/ SweepRow(c)
      PROVE  loc'[c].batch \subseteq loc[c].batch
  <2>1. loc'[c] = loc[c] \/ loc'[c] = NoLoc
    BY <1>6, <1>a DEF PrintInsert, EvictDelete, EvictUpdate, ClearTx, ClearDelete, ClearUpdate,
       ClearPartial, SweepRow, Goto, Return, Fail
  <2> QED
    BY <1>b, <2>1
<1>7. ASSUME NEW d \in Clients \ {c}, ClientNext(d) PROVE loc'[c] = loc[c]
  <2>1. loc' = loc \/ \E l : loc' = [loc EXCEPT ![d] = l]
    BY ZenonT(60), <1>7 DEF ClientNext, Goto, Return, Fail, PrintClaim, PrintInsert, PrintTx,
       CopySelect, CopyTx, EvictMeta, EvictDelete, EvictUpdate, ClearMeta,
       ClearTx, ClearDelete, ClearUpdate, ClearPartial, SweepSelect, SweepEntries,
       SweepRow, Abort
  <2> QED
    BY <1>a, <2>1
<1>8. \/ loc' = loc
      \/ ClientNext(c)
      \/ \E d \in Clients \ {c} : ClientNext(d)
  BY DEF Next, vars, Read, TtlPasses
<1>9. ASSUME NEW r \in Refs, NEW i \in Invs, NEW done \in 1 .. 4, PrintTx(c, r, i, done)
      PROVE  loc' = loc
  BY <1>9 DEF PrintTx
<1>10. CASE ClientNext(c)
  BY <1>10, <1>3, <1>4, <1>5, <1>6, <1>9 DEF ClientNext
<1> QED
  BY <1>7, <1>8, <1>10

\* A log only loses entries, except by a whole print or a block copy.
LEMMA WhoAdds ==
  ASSUME HeldCursor, TypeInv, NothingHalfDone, [Next]_vars, NEW r \in Refs
  PROVE  \/ entries'[r] \subseteq entries[r]
         \/ \E i \in Invs : entries'[r] \subseteq PrintLog(r, i)
         \/ \E c \in Clients :
              entries'[r] = entries[r] \union Renumber(loc[c].batch, Claimed(row[r]))
<1>a. entries \in [Refs -> SUBSET Entry] /\ \A c \in Clients : loc[c].ref \in Refs
  BY DEF TypeInv, TypeOK, Loc
<1>b. ASSUME NEW E, NEW s PROVE From(E, s) \subseteq E
  BY DEF From
<1>1. ASSUME NEW c \in Clients, NEW q \in Refs, NEW i \in Invs, NEW done \in 1 .. 4,
             PrintTx(c, q, i, done)
      PROVE  entries'[r] \subseteq PrintLog(r, i)
  <2>1. From(PrintLog(r, i), PrintTo(r)) \subseteq PrintLog(r, i) /\ entries[r] \subseteq PrintLog(r, i)
    BY <1>b DEF PrintLog
  <2> QED
    BY <1>1, <1>a, <2>1, PrintTxEffect
<1>2. ASSUME NEW c \in Clients, CopyTx(c)
      PROVE  \/ entries'[r] \subseteq entries[r]
             \/ entries'[r] = entries[r] \union Renumber(loc[c].batch, Claimed(row[r]))
  BY <1>2, <1>a DEF CopyTx, store
<1>3. ASSUME NEW c \in Clients, EvictDelete(c) \/ ClearTx(c) \/ ClearPartial(c)
      PROVE  entries'[r] \subseteq entries[r]
  BY <1>3, <1>a, <1>b DEF EvictDelete, ClearTx, ClearPartial
<1>4. ASSUME NEW c \in Clients, NEW q \in Refs, SweepEntries(c, q)
      PROVE  entries'[r] \subseteq entries[r]
  BY <1>4, <1>a DEF SweepEntries
<1>5. \/ entries' = entries
      \/ \E c \in Clients :
           \/ \E q \in Refs, i \in Invs, done \in 1 .. 4 : PrintTx(c, q, i, done)
           \/ \E q \in Refs : SweepEntries(c, q)
           \/ CopyTx(c) \/ EvictDelete(c) \/ ClearTx(c) \/ ClearPartial(c)
  BY DEF Next, ClientNext, vars, CopySelect, EvictMeta, EvictUpdate, ClearMeta, SweepSelect,
     SweepRow, ClearDelete, Abort, Read, TtlPasses, PrintClaim, PrintInsert, ClearUpdate,
     NothingHalfDone, At
<1> QED
  BY <1>1, <1>2, <1>3, <1>4, <1>5

\* Seqs stay unique within each log and each batch.
LEMMA LogsUniqueStep ==
  ASSUME HeldCursor, ClaimsInv, NothingHalfDone, LogsUnique, [Next]_vars
  PROVE  LogsUnique'
<1>a. TypeInv /\ WellTyped /\ WellTyped' /\ ClaimsAreFresh
  BY Typed, TypeInvStep, PTL DEF ClaimsInv
<1>1. ASSUME NEW r \in Refs PROVE UniqueSeqs(entries'[r])
  <2> DEFINE s == Claimed(row[r])
  <2>1. /\ s \in Nat /\ UniqueSeqs(entries[r])
        /\ \A e \in entries[r] : e.seq \in Nat /\ e.seq < s
    BY <1>a DEF WellTyped, LogsUnique, ClaimsAreFresh
  <2>2. CASE entries'[r] \subseteq entries[r]
    BY <2>1, <2>2 DEF UniqueSeqs
  <2>3. ASSUME NEW i \in Invs, entries'[r] \subseteq PrintLog(r, i) PROVE UniqueSeqs(entries'[r])
    <3> DEFINE new == {[seq |-> s, inv |-> i, org |-> 0]}
    <3>1. UniqueSeqs(new) /\ \A e \in new : e.seq \in Nat /\ s <= e.seq
      BY <2>1 DEF UniqueSeqs
    <3>2. entries'[r] \in SUBSET (entries[r] \union new)
      BY <2>3 DEF PrintLog
    <3> HIDE DEF new, s
    <3> QED
      BY <2>1, <3>1, <3>2, UniqueUnion
  <2>4. ASSUME NEW c \in Clients, entries'[r] = entries[r] \union Renumber(loc[c].batch, s)
        PROVE  UniqueSeqs(entries'[r])
    <3> DEFINE B == loc[c].batch
               new == Renumber(B, s)
    <3>1. B \in SUBSET Entry /\ IsFiniteSet(B) /\ UniqueSeqs(B)
      BY <1>a DEF LogsUnique, TypeInv, TypeOK, FiniteLogs, Loc
    <3>2. UniqueSeqs(new) /\ new \in SUBSET Entry /\ \A e \in new : s <= e.seq
      <4> HIDE DEF B, s
      <4> QED
        BY <2>1, <3>1, RenumberFills, RenumberFacts
    <3>3. \A e \in new : e.seq \in Nat /\ s <= e.seq
      BY <3>2 DEF Entry
    <3>4. entries'[r] \in SUBSET (entries[r] \union new)
      BY <2>4
    <3> HIDE DEF new, s
    <3> QED
      BY <2>1, <3>2, <3>3, <3>4, UniqueUnion
  <2> QED
    BY <1>a, <2>2, <2>3, <2>4, WhoAdds
<1>2. ASSUME NEW c \in Clients PROVE UniqueSeqs(loc'[c].batch)
  <2>1. UniqueSeqs(loc[c].batch) /\ UniqueSeqs(entries[CopyFrom])
    BY ConsoleAssumption DEF LogsUnique
  <2>2. loc'[c].batch \subseteq loc[c].batch \/ loc'[c].batch \subseteq entries[CopyFrom]
    BY <1>a, BatchComesFrom
  <2> QED
    BY <2>1, <2>2 DEF UniqueSeqs
<1> QED
  BY <1>1, <1>2 DEF LogsUnique

\* The seqs of a trimmed log.
LEMMA SeqsFrom ==
  ASSUME NEW E, NEW s
  PROVE  Seqs(From(E, s)) = {x \in Seqs(E) : x >= s}
BY DEF Seqs, From

\* The seqs of a log that grows.
LEMMA SeqsUnion ==
  ASSUME NEW E, NEW F
  PROVE  Seqs(E \union F) = Seqs(E) \union Seqs(F)
<1>1. ASSUME NEW s PROVE s \in Seqs(E \union F) <=> s \in Seqs(E) \union Seqs(F)
  BY DEF Seqs
<1> QED
  BY <1>1

\* A step of ConsoleLog, told by what it does to the tailed console: it may
\* add all the seqs that it claims, and it may trim.
Added == Seqs(entries[Tailed]) \union (Claimed(row[Tailed]) .. (Claimed(row'[Tailed]) - 1))

\* A change of the tailed console of that form is a step of the log.
LEMMA LogStepIf ==
  ASSUME WellTyped, WellTyped', Claimed(row[Tailed]) <= Claimed(row'[Tailed]),
         NEW E, Seqs(E) = Seqs(entries[Tailed]) \/ Seqs(E) = Added,
         \/ entries'[Tailed] = E
         \/ \E to \in Nat : to <= Claimed(row'[Tailed]) /\ entries'[Tailed] = From(E, to)
  PROVE  Log!Step
<1>a. /\ Claimed(row[Tailed]) \in Nat /\ Claimed(row'[Tailed]) \in Nat
      /\ \A e \in entries[Tailed] : e.seq \in Nat
  BY ConsoleAssumption DEF WellTyped
<1>1. Seqs(entries[Tailed]) \subseteq Nat /\ Added \subseteq Nat
  BY <1>a DEF Seqs, Added
<1>2. ASSUME NEW oldest \in 0 .. Claimed(row'[Tailed]),
             Seqs(entries'[Tailed]) = {x \in Seqs(E) : x >= oldest}
      PROVE  Log!Step
  <2>1. \/ Seqs(entries'[Tailed]) = {x \in Seqs(entries[Tailed]) : x >= oldest}
        \/ Seqs(entries'[Tailed]) = {x \in Added : x >= oldest}
    BY <1>2
  <2> QED
    BY <1>a, <2>1 DEF Log!Step, Added
<1>3. CASE entries'[Tailed] = E
  <2>1. Seqs(E) \subseteq Nat
    BY <1>1
  <2>2. Seqs(entries'[Tailed]) = {x \in Seqs(E) : x >= 0}
    BY <1>3, <2>1
  <2>3. 0 \in 0 .. Claimed(row'[Tailed])
    BY <1>a
  <2> QED
    BY <1>2, <2>2, <2>3
<1>4. ASSUME NEW to \in Nat, to <= Claimed(row'[Tailed]), entries'[Tailed] = From(E, to)
      PROVE  Log!Step
  <2>1. Seqs(entries'[Tailed]) = {x \in Seqs(E) : x >= to}
    BY <1>4, SeqsFrom
  <2>2. to \in 0 .. Claimed(row'[Tailed])
    BY <1>a, <1>4
  <2> QED
    BY <1>2, <2>1, <2>2
<1> QED
  BY <1>3, <1>4

\* Every step of the console is a step of the log, or leaves the log alone.
LEMMA LogStep ==
  ASSUME HeldCursor, ClaimsInv, NothingHalfDone, ForgetsClaimed, NobodySweeps, LogsUnique,
         [Next]_vars
  PROVE  Log!Step
<1>a. TypeInv /\ WellTyped /\ WellTyped' /\ Tailed \in Refs
  BY Typed, TypeInvStep, ConsoleAssumption, PTL DEF ClaimsInv
<1>b. /\ row \in [Refs -> Row] /\ entries \in [Refs -> SUBSET Entry]
      /\ row[Tailed] \in Row /\ Claimed(row[Tailed]) \in Nat
      /\ \A c \in Clients : loc[c].ref \in Refs /\ loc[c].to \in Nat /\ loc[c].first \in Nat
      /\ row[Tailed] # NoRow => 1 <= row[Tailed].next
  BY <1>a DEF WellTyped, ClaimsInv, RowsStay
<1>c. Grows(Tailed) /\ Claimed(row[Tailed]) <= Claimed(row'[Tailed])
  BY <1>a, HeldStep DEF NobodySweeps, Sweeping, SweepRow, At, Grows
<1>1. CASE entries'[Tailed] = entries[Tailed]
  BY <1>1, <1>a, <1>c, LogStepIf
<1>2. ASSUME NEW c \in Clients, NEW r \in Refs, NEW i \in Invs, NEW done \in 1 .. 4,
             PrintTx(c, r, i, done)
      PROVE  Log!Step
  <2> DEFINE R == PrintRow(Tailed)
             E == PrintLog(Tailed, i)
             to == PrintTo(Tailed)
  <2>1. CASE r # Tailed
    BY <1>2, <1>1, <1>a, <1>b, <2>1, PrintTxEffect
  <2>2. CASE r = Tailed
    <3>1. /\ R \in Row /\ R # NoRow /\ R.next = Claimed(row[Tailed]) + 1
          /\ R.first \in Nat /\ R.next \in Nat /\ Claimed(R) = Claimed(row[Tailed]) + 1
      BY <1>b, ClaimOne DEF PrintRow
    <3>2. OverCap(R.first, R.next) =>
            /\ to \in Nat /\ to <= R.next
            /\ Claimed(EvictRow(R, R.first, to)) = Claimed(row[Tailed]) + 1
      <4> HIDE DEF R
      <4>1. OverCap(R.first, R.next) => to \in Nat /\ to <= R.next
        BY <3>1, NewFirstFacts DEF PrintTo, R
      <4> HIDE DEF to
      <4> QED
        BY <1>b, <3>1, <4>1, FirstKeepsClaims
    <3>3. Claimed(row'[Tailed]) = Claimed(row[Tailed]) + 1
      BY <1>2, <1>b, <2>2, <3>1, <3>2, PrintTxEffect
    <3>4. Seqs(E) = Added
      <4>1. Seqs({[seq |-> Claimed(row[Tailed]), inv |-> i, org |-> 0]}) = {Claimed(row[Tailed])}
        BY DEF Seqs
      <4>2. Claimed(row[Tailed]) .. (Claimed(row'[Tailed]) - 1) = {Claimed(row[Tailed])}
        BY <1>b, <3>3
      <4> QED
        BY <4>1, <4>2, SeqsUnion DEF Added, PrintLog
    <3>5. \/ entries'[Tailed] = entries[Tailed]
          \/ entries'[Tailed] = E
          \/ OverCap(R.first, R.next) /\ entries'[Tailed] = From(E, to)
      BY <1>2, <1>b, <2>2, PrintTxEffect
    <3> HIDE DEF R, E, to
    <3> QED
      BY <1>1, <1>a, <1>c, <3>1, <3>2, <3>3, <3>4, <3>5, LogStepIf
  <2> QED
    BY <2>1, <2>2
<1>3. ASSUME NEW c \in Clients, CopyTx(c) PROVE Log!Step
  <2> DEFINE B == loc[c].batch
             new == Renumber(B, Claimed(row[Tailed]))
             E == entries[Tailed] \union new
  <2>1. CASE entries'[Tailed] # entries[Tailed]
    <3>0. /\ row' = [row EXCEPT ![CopyTo] = ClaimRow(@, Cardinality(B))]
          /\ entries' = [entries EXCEPT ![CopyTo] = @ \union Renumber(B, Claimed(row[CopyTo]))]
      BY <1>3, <2>1 DEF CopyTx, store
    <3>1. /\ CopyTo = Tailed /\ entries'[Tailed] = E
          /\ row'[Tailed] = ClaimRow(row[Tailed], Cardinality(B))
      <4> HIDE DEF B
      <4>1. CopyTo = Tailed
        BY <1>a, <1>b, <2>1, <3>0
      <4> QED
        BY <1>a, <1>b, <3>0, <4>1
    <3>2. B \in SUBSET Entry /\ IsFiniteSet(B) /\ UniqueSeqs(B) /\ Cardinality(B) \in Nat
      BY <1>a, FS_CardinalityType DEF LogsUnique, TypeInv, TypeOK, FiniteLogs, Loc
    <3>3. Seqs(new) = Claimed(row[Tailed]) .. (Claimed(row[Tailed]) + Cardinality(B) - 1)
      <4> HIDE DEF B
      <4> QED
        BY <1>b, <3>2, RenumberFills
    <3>4. Cardinality(B) # 0
      BY <1>b, <2>1, <3>1, <3>2, FS_EmptySet DEF Renumber
    <3>5. Claimed(row'[Tailed]) = Claimed(row[Tailed]) + Cardinality(B)
      <4> HIDE DEF B
      <4> QED
        BY <1>b, <3>1, <3>2, <3>4, ClaimFacts
    <3>6. Seqs(E) = Seqs(entries[Tailed]) \union Seqs(new)
      BY SeqsUnion
    <3>7. Seqs(E) = Added
      <4> HIDE DEF E, B, new
      <4> QED
        BY <1>b, <3>2, <3>3, <3>5, <3>6 DEF Added
    <3> HIDE DEF E, B, new
    <3> QED
      BY <1>a, <1>c, <3>1, <3>7, LogStepIf
  <2> QED
    BY <1>1, <2>1
<1>4. ASSUME NEW c \in Clients, EvictDelete(c) \/ ClearTx(c) \/ ClearPartial(c) PROVE Log!Step
  <2>1. pc[c] \in {"evict_delete", "clear_delete"}
    BY <1>4 DEF EvictDelete, ClearTx, ClearPartial, At
  <2>2. \/ entries'[Tailed] = entries[Tailed]
        \/ loc[c].ref = Tailed /\ entries'[Tailed] = From(entries[Tailed], loc[c].to)
    <3>1. entries' = [entries EXCEPT ![loc[c].ref] = From(@, loc[c].to)]
      BY <1>4 DEF EvictDelete, ClearTx, ClearPartial
    <3> QED
      BY <1>a, <1>b, <3>1
  <2>3. CASE loc[c].ref = Tailed /\ entries'[Tailed] = From(entries[Tailed], loc[c].to)
    <3>1. loc[c].to <= Claimed(row[Tailed])
      BY <2>1, <2>3 DEF ForgetsClaimed
    <3>2. loc[c].to \in Nat /\ Claimed(row'[Tailed]) \in Nat
      BY <1>a, <1>b DEF WellTyped
    <3>3. loc[c].to <= Claimed(row'[Tailed])
      BY <1>b, <1>c, <3>1, <3>2
    <3> QED
      BY <1>a, <1>c, <2>3, <3>2, <3>3, LogStepIf
  <2> QED
    BY <1>1, <2>2, <2>3
<1>5. \/ entries' = entries
      \/ \E c \in Clients :
           \/ \E q \in Refs, i \in Invs, done \in 1 .. 4 : PrintTx(c, q, i, done)
           \/ CopyTx(c) \/ EvictDelete(c) \/ ClearTx(c) \/ ClearPartial(c)
  BY DEF Next, ClientNext, vars, CopySelect, EvictMeta, EvictUpdate, ClearMeta, SweepSelect,
     SweepRow, ClearDelete, Abort, Read, TtlPasses, PrintClaim, PrintInsert, ClearUpdate,
     SweepEntries, NothingHalfDone, NobodySweeps, Sweeping, At
<1> QED
  BY <1>1, <1>2, <1>3, <1>4, <1>5

\* A console that no sweep removes implements the log that the module doc
\* promises (console.rs:25-29): seqs are handed out in order and never again, a
\* write or a block copy becomes visible whole or not at all in the step that
\* claims its seqs, and what is retained only loses its oldest entries.
THEOREM ConsoleImplementsLog ==
  ASSUME HeldCursor, "sweep" \notin Ops
  PROVE  Spec => ImplementsLog
<1>1. Init => NobodySweeps /\ LogsUnique /\ Log!Init
  BY ConsoleAssumption DEF Init, NobodySweeps, Sweeping, LogsUnique, UniqueSeqs, NoLoc,
     Log!Init, NoRow, Claimed, Seqs
<1>2. ClaimsInv /\ HeldInv /\ NobodySweeps /\ LogsUnique /\ [Next]_vars
        => NobodySweeps' /\ LogsUnique' /\ Log!Step
  <2> SUFFICES ASSUME ClaimsInv, HeldInv, NobodySweeps, LogsUnique, [Next]_vars
               PROVE  NobodySweeps' /\ LogsUnique' /\ Log!Step
    OBVIOUS
  <2>1. NobodySweeps'
    BY NobodySweepsStep DEF ClaimsInv
  <2>2. LogsUnique'
    BY LogsUniqueStep DEF HeldInv
  <2>3. Log!Step
    BY LogStep DEF HeldInv
  <2> QED
    BY <2>1, <2>2, <2>3
<1>3. Spec => []ClaimsInv /\ []HeldInv
  BY ConsoleClaimsInv, ConsoleHeldInv
<1> QED
  BY <1>1, <1>2, <1>3, PTL DEF Spec, ImplementsLog, Log!Spec

----------------------------------------------------------------------------
(* What a caller that drains a child's console gets.                          *)

Evicting == {"evict_meta", "evict_delete", "evict_update"}

\* Copied entries of one invocation stand in the order of their origin.
Ordered(E) == \A e, f \in E :
  e.inv = f.inv /\ 0 < e.org /\ 0 < f.org /\ e.seq < f.seq => e.org < f.org

\* A copy holds its invocation's drain alone; what it is about to insert lies
\* from the caller's cursor on, and what has been inserted lies before the
\* cursor, or before the one a copy is about to return.
CopiesInTurn ==
  /\ Ordered(entries[CopyTo])
  /\ \A c \in Clients : loc[c].copying => /\ pc[c] \in Evicting \cup {"copy_tx"}
                                          /\ drain[loc[c].inv] <= loc[c].seq
  /\ \A c, d \in Clients : loc[c].copying /\ loc[d].copying /\ loc[c].inv = loc[d].inv => c = d
  /\ \A c \in Clients : pc[c] = "copy_tx" =>
       /\ loc[c].copying
       /\ \A e \in loc[c].batch : e.inv = loc[c].inv /\ drain[e.inv] <= e.seq /\ e.seq < loc[c].seq
  /\ \A e \in entries[CopyTo] : 0 < e.org =>
       \/ e.org < drain[e.inv]
       \/ \E c \in Clients : /\ loc[c].copying /\ pc[c] \in Evicting
                             /\ loc[c].inv = e.inv /\ e.org < loc[c].seq

\* A step that leaves a client's copy, if it has one, where it was.
SameCopy(c) ==
  /\ loc'[c].copying = loc[c].copying
  /\ loc[c].copying =>
       /\ loc'[c].inv = loc[c].inv /\ loc'[c].seq = loc[c].seq
       /\ pc[c] \in Evicting => pc'[c] \in Evicting
       /\ pc'[c] \in Evicting \cup {"copy_tx"}
  /\ pc'[c] = "copy_tx" => pc[c] = "copy_tx" /\ loc'[c].batch = loc[c].batch

\* What the types say of copies.
LEMMA CopyTypes ==
  ASSUME TypeInv
  PROVE  /\ pc \in [Clients -> Labels] /\ loc \in [Clients -> Loc]
         /\ drain \in [Invs -> Nat] /\ entries \in [Refs -> SUBSET Entry] /\ row \in [Refs -> Row]
         /\ CopyTo \in Refs /\ CopyFrom \in Refs
         /\ \A c \in Clients : /\ loc[c] \in Loc /\ loc[c].inv \in Invs /\ loc[c].seq \in Nat
                               /\ loc[c].batch \in SUBSET Entry /\ loc[c].copying \in BOOLEAN
         /\ \A e \in entries[CopyTo] : e.seq \in Nat /\ e.org \in Nat /\ e.inv \in Invs
<1>1. /\ pc \in [Clients -> Labels] /\ loc \in [Clients -> Loc]
      /\ drain \in [Invs -> Nat] /\ entries \in [Refs -> SUBSET Entry] /\ row \in [Refs -> Row]
      /\ CopyTo \in Refs /\ CopyFrom \in Refs
  BY ConsoleAssumption DEF TypeInv, TypeOK
<1>2. \A c \in Clients : loc[c] \in Loc
  BY <1>1
<1>3. \A c \in Clients : /\ loc[c].inv \in Invs /\ loc[c].seq \in Nat
                         /\ loc[c].batch \in SUBSET Entry /\ loc[c].copying \in BOOLEAN
  BY <1>2 DEF Loc
<1>4. \A e \in entries[CopyTo] : e.seq \in Nat /\ e.org \in Nat /\ e.inv \in Invs
  BY <1>1 DEF Entry
<1> QED
  BY <1>1, <1>2, <1>3, <1>4

\* An operation that goes on leaves every copy where it was, if it is none
\* and starts none, or is one that evicts and still does.
LEMMA GotoSameCopy ==
  ASSUME TypeInv, NEW d \in Clients, NEW label \in Labels, NEW l, Goto(d, label, l),
         \/ ~loc[d].copying /\ l.copying = FALSE /\ label # "copy_tx"
         \/ /\ l.copying = loc[d].copying /\ l.inv = loc[d].inv /\ l.seq = loc[d].seq
            /\ pc[d] \in Evicting /\ label \in Evicting
  PROVE  \A c \in Clients : SameCopy(c) \/ (loc[c].copying /\ pc[c] \notin Evicting \cup {"copy_tx"})
<1> SUFFICES ASSUME NEW c \in Clients, ~(loc[c].copying /\ pc[c] \notin Evicting \cup {"copy_tx"})
             PROVE  SameCopy(c)
  OBVIOUS
<1>1. CASE c # d
  <2>1. pc'[c] = pc[c] /\ loc'[c] = loc[c]
    BY <1>1, CopyTypes DEF Goto
  <2> QED
    BY <2>1 DEF SameCopy
<1>2. CASE c = d
  <2>1. pc'[d] = label /\ loc'[d] = l
    BY CopyTypes DEF Goto
  <2>2. loc[d].copying \in BOOLEAN
    BY CopyTypes
  <2> QED
    BY <1>2, <2>1, <2>2 DEF SameCopy, Evicting
<1> QED
  BY <1>1, <1>2

\* An operation that ends and is no copy.
LEMMA ReturnSameCopy ==
  ASSUME TypeInv, NEW d \in Clients, Return(d) \/ Fail(d), ~loc[d].copying
  PROVE  /\ drain' = drain
         /\ \A c \in Clients : SameCopy(c) \/ (loc[c].copying /\ pc[c] \notin Evicting \cup {"copy_tx"})
<1>1. Goto(d, "idle", NoLoc) /\ drain' = drain /\ NoLoc.copying = FALSE /\ "idle" \in Labels /\ "idle" # "copy_tx"
  BY DEF Return, Fail, NoLoc, Labels
<1> QED
  BY <1>1, GotoSameCopy

\* The entries that a copy could have put there are left or go.
NoCopyIn == \A e \in entries'[CopyTo] : e \in entries[CopyTo] \/ e.org = 0

Calm == NoCopyIn /\ drain' = drain /\ \A c \in Clients : SameCopy(c)

\* A step that does not fail an operation selects, inserts or ends a copy, or
\* leaves every copy where it was.
LEMMA CopyMoves ==
  ASSUME TypeInv, CopiesInTurn, [Next]_vars, faults' = faults
  PROVE  \/ Calm
         \/ \E c \in Clients, i \in Invs : CopySelect(c, i)
         \/ \E c \in Clients : CopyTx(c)
         \/ \E c \in Clients : /\ loc[c].copying /\ pc[c] \in Evicting /\ Return(c)
                               /\ entries'[CopyTo] \subseteq entries[CopyTo]
<1>a. /\ pc \in [Clients -> Labels] /\ loc \in [Clients -> Loc] /\ entries \in [Refs -> SUBSET Entry]
      /\ CopyTo \in Refs /\ \A c \in Clients : loc[c] \in Loc /\ loc[c].ref \in Refs
  BY CopyTypes DEF Loc
<1>b. \A c \in Clients : loc[c].copying => pc[c] \in Evicting \cup {"copy_tx"}
  BY DEF CopiesInTurn
<1>c. \A E, s : From(E, s) \subseteq E
  BY DEF From
<1>0. ASSUME pc' = pc, loc' = loc, drain' = drain, NoCopyIn PROVE Calm
  <2>1. \A c \in Clients : SameCopy(c)
    BY <1>0, <1>b DEF SameCopy
  <2> QED
    BY <1>0, <2>1 DEF Calm
<1>d. ASSUME NEW d \in Clients, NEW label \in Labels, NEW l, Goto(d, label, l), drain' = drain, NoCopyIn,
             \/ pc[d] \notin Evicting \cup {"copy_tx"} /\ l.copying = FALSE /\ label # "copy_tx"
             \/ /\ l.copying = loc[d].copying /\ l.inv = loc[d].inv /\ l.seq = loc[d].seq
                /\ pc[d] \in Evicting /\ label \in Evicting
      PROVE  Calm
  BY <1>b, <1>d, GotoSameCopy DEF Calm
<1>e. ASSUME NEW d \in Clients, Return(d) \/ Fail(d), NoCopyIn, pc[d] \notin Evicting \cup {"copy_tx"}
      PROVE  Calm
  BY <1>b, <1>e, ReturnSameCopy DEF Calm
<1>f. ASSUME NEW d \in Clients, Return(d), entries'[CopyTo] \subseteq entries[CopyTo], pc[d] \in Evicting
      PROVE  \/ Calm
             \/ \E c \in Clients : /\ loc[c].copying /\ pc[c] \in Evicting /\ Return(c)
                                   /\ entries'[CopyTo] \subseteq entries[CopyTo]
  <2>1. CASE ~loc[d].copying
    <3>1. NoCopyIn
      BY <1>f DEF NoCopyIn
    <3> QED
      BY <1>b, <1>f, <2>1, <3>1, ReturnSameCopy DEF Calm
  <2> QED
    BY <1>f, <2>1
<1>g. ASSUME entries' = entries \/ entries'[CopyTo] \subseteq entries[CopyTo] PROVE NoCopyIn
  BY <1>g DEF NoCopyIn
<1>1. ASSUME NEW d \in Clients, NEW r \in Refs, NEW i \in Invs, PrintClaim(d, r, i)
      PROVE  Calm
  <2>1. [NoLoc EXCEPT !.ref = r, !.inv = i, !.seq = Claimed(row[r])].copying = FALSE
    BY DEF NoLoc
  <2> QED
    BY <1>1, <1>d, <1>g, <2>1 DEF PrintClaim, MayStart, At, Labels, Evicting
<1>2. ASSUME NEW d \in Clients, PrintInsert(d)
      PROVE  Calm
  <2>1. pc[d] = "print_insert" /\ loc[d].copying = FALSE
    BY <1>2, <1>b, CopyTypes DEF PrintInsert, At, Evicting
  <2>2. NoCopyIn
    BY <1>2, <1>a DEF PrintInsert, NoCopyIn
  <2> QED
    BY <1>2, <1>d, <1>e, <2>1, <2>2 DEF PrintInsert, Labels, Evicting
<1>3. ASSUME NEW d \in Clients, NEW r \in Refs, NEW i \in Invs, NEW done \in 1 .. 4, PrintTx(d, r, i, done)
      PROVE  Calm
  <2>1. /\ UNCHANGED <<pc, loc, rd, drain>>
        /\ \/ entries' = entries
           \/ entries' = [entries EXCEPT ![r] = PrintLog(r, i)]
           \/ entries' = [entries EXCEPT ![r] = From(PrintLog(r, i), PrintTo(r))]
    BY <1>3, PrintTxEffect
  <2>2. NoCopyIn
    BY <1>a, <1>c, <2>1 DEF NoCopyIn, PrintLog
  <2> QED
    BY <1>0, <2>1, <2>2
<1>4. ASSUME NEW d \in Clients, EvictMeta(d)
      PROVE  \/ Calm
             \/ \E c \in Clients : /\ loc[c].copying /\ pc[c] \in Evicting /\ Return(c)
                                   /\ entries'[CopyTo] \subseteq entries[CopyTo]
  <2> DEFINE R == row[loc[d].ref]
             m == [loc[d] EXCEPT !.first = R.first, !.to = NewFirst(R.first, R.next)]
  <2>1. entries' = entries /\ pc[d] \in Evicting
    BY <1>4 DEF EvictMeta, At, Evicting
  <2>2. m.copying = loc[d].copying /\ m.inv = loc[d].inv /\ m.seq = loc[d].seq
    BY <1>a DEF Loc
  <2>3. (Goto(d, "evict_delete", m) /\ drain' = drain) \/ Return(d)
    BY <1>4 DEF EvictMeta
  <2> HIDE DEF m
  <2> QED
    BY <1>d, <1>f, <1>g, <2>1, <2>2, <2>3 DEF Labels, Evicting
<1>5. ASSUME NEW d \in Clients, EvictDelete(d)
      PROVE  Calm
  <2>1. pc[d] \in Evicting /\ Goto(d, "evict_update", loc[d]) /\ drain' = drain
    BY <1>5 DEF EvictDelete, At, Evicting
  <2>2. entries'[CopyTo] \subseteq entries[CopyTo]
    BY <1>5, <1>a, <1>c DEF EvictDelete
  <2> QED
    BY <1>d, <1>g, <2>1, <2>2 DEF Labels, Evicting
<1>6. ASSUME NEW d \in Clients, EvictUpdate(d)
      PROVE  \/ Calm
             \/ \E c \in Clients : /\ loc[c].copying /\ pc[c] \in Evicting /\ Return(c)
                                   /\ entries'[CopyTo] \subseteq entries[CopyTo]
  <2>1. entries' = entries /\ pc[d] \in Evicting /\ Return(d)
    BY <1>6 DEF EvictUpdate, At, Evicting
  <2> QED
    BY <1>f, <2>1
<1>7. ASSUME NEW d \in Clients, NEW r \in Refs, NEW before \in 1 .. (MaxSeq + 1), ClearMeta(d, r, before)
      PROVE  Calm
  <2>1. [NoLoc EXCEPT !.ref = r, !.to = ClearCutoff(before, row[r].next)].copying = FALSE
    BY DEF NoLoc
  <2> QED
    BY <1>7, <1>d, <1>g, <2>1 DEF ClearMeta, MayStart, At, Labels, Evicting
<1>8. ASSUME NEW d \in Clients, ClearTx(d) \/ ClearUpdate(d) \/ ClearPartial(d)
      PROVE  Calm
  <2>1. pc[d] \notin Evicting \cup {"copy_tx"} /\ (Return(d) \/ Fail(d))
    BY <1>8 DEF ClearTx, ClearUpdate, ClearPartial, At, Evicting
  <2>2. entries'[CopyTo] \subseteq entries[CopyTo]
    BY <1>8, <1>a, <1>c DEF ClearTx, ClearUpdate, ClearPartial
  <2> QED
    BY <1>e, <1>g, <2>1, <2>2
<1>9. ASSUME NEW d \in Clients, ClearDelete(d)
      PROVE  Calm
  <2>1. /\ pc[d] \notin Evicting \cup {"copy_tx"} /\ Goto(d, "clear_update", loc[d]) /\ drain' = drain
        /\ loc[d].copying = FALSE
    BY <1>9, <1>b, CopyTypes DEF ClearDelete, At, Evicting
  <2>2. entries'[CopyTo] \subseteq entries[CopyTo]
    BY <1>9, <1>a, <1>c DEF ClearDelete
  <2> QED
    BY <1>d, <1>g, <2>1, <2>2 DEF Labels
<1>10. ASSUME NEW d \in Clients, SweepSelect(d)
       PROVE  Calm
  <2>1. [NoLoc EXCEPT !.todo = Expired].copying = FALSE
    BY DEF NoLoc
  <2> QED
    BY <1>10, <1>d, <1>g, <2>1 DEF SweepSelect, MayStart, At, Labels, Evicting
<1>11. ASSUME NEW d \in Clients, NEW r \in Refs, SweepEntries(d, r)
       PROVE  Calm
  <2>1. loc[d].copying = FALSE /\ pc[d] \notin Evicting \cup {"copy_tx"}
    BY <1>11, <1>b, CopyTypes DEF SweepEntries, At, Evicting
  <2>2. [loc[d] EXCEPT !.ref = r, !.todo = @ \ {r}].copying = FALSE
    BY <1>a, <2>1 DEF Loc
  <2>3. entries'[CopyTo] \subseteq entries[CopyTo]
    BY <1>11, <1>a DEF SweepEntries
  <2> QED
    BY <1>11, <1>d, <1>g, <2>1, <2>2, <2>3 DEF SweepEntries, Labels
<1>12. ASSUME NEW d \in Clients, SweepRow(d)
       PROVE  Calm
  <2>1. loc[d].copying = FALSE /\ pc[d] \notin Evicting \cup {"copy_tx"}
    BY <1>12, <1>b, CopyTypes DEF SweepRow, At, Evicting
  <2>2. Return(d) \/ (Goto(d, "sweep_entries", loc[d]) /\ drain' = drain)
    BY <1>12 DEF SweepRow
  <2>3. entries' = entries
    BY <1>12 DEF SweepRow
  <2> QED
    BY <1>d, <1>e, <1>g, <2>1, <2>2, <2>3 DEF Labels
<1>13. ASSUME NEW d \in Clients, Abort(d) PROVE FALSE
  BY <1>13 DEF Abort, Fault, TypeInv, TypeOK
<1>14. ASSUME (\E q \in Readers : Read(q)) \/ (\E r \in Refs : TtlPasses(r)) \/ UNCHANGED vars
       PROVE  Calm
  <2>1. pc' = pc /\ loc' = loc /\ drain' = drain /\ entries' = entries
    BY <1>14 DEF Read, TtlPasses, vars
  <2> QED
    BY <1>0, <1>g, <2>1
<1>15. ASSUME NEW d \in Clients, ClientNext(d)
       PROVE  \/ Calm
              \/ \E c \in Clients, i \in Invs : CopySelect(c, i)
              \/ \E c \in Clients : CopyTx(c)
              \/ \E c \in Clients : /\ loc[c].copying /\ pc[c] \in Evicting /\ Return(c)
                                    /\ entries'[CopyTo] \subseteq entries[CopyTo]
  BY <1>15, <1>1, <1>2, <1>3, <1>4, <1>5, <1>6, <1>7, <1>8, <1>9, <1>10, <1>11, <1>12, <1>13 DEF ClientNext
<1> QED
  BY <1>14, <1>15 DEF Next

\* A step that leaves copies where they were keeps them in turn.
LEMMA CalmStep ==
  ASSUME TypeInv, TypeInv', CopiesInTurn, Calm
  PROVE  CopiesInTurn'
<1>a. /\ NoCopyIn /\ drain' = drain /\ \A c \in Clients : SameCopy(c)
      /\ \A e \in entries[CopyTo] : e.org \in Nat
      /\ \A c \in Clients : loc[c].copying \in BOOLEAN
  BY CopyTypes DEF Calm
<1>1. Ordered(entries'[CopyTo])
  <2>1. \A e \in entries'[CopyTo] : 0 < e.org => e \in entries[CopyTo]
    BY <1>a DEF NoCopyIn
  <2> QED
    BY <2>1 DEF CopiesInTurn, Ordered
<1>2. ASSUME NEW c \in Clients, loc'[c].copying
      PROVE  /\ pc'[c] \in Evicting \cup {"copy_tx"} /\ drain'[loc'[c].inv] <= loc'[c].seq
             /\ loc[c].copying /\ loc'[c].inv = loc[c].inv
  BY <1>a, <1>2 DEF CopiesInTurn, SameCopy
<1>3. ASSUME NEW c \in Clients, pc'[c] = "copy_tx"
      PROVE  /\ loc'[c].copying
             /\ \A e \in loc'[c].batch : e.inv = loc'[c].inv /\ drain'[e.inv] <= e.seq /\ e.seq < loc'[c].seq
  BY <1>a, <1>3 DEF CopiesInTurn, SameCopy
<1>4. ASSUME NEW e \in entries'[CopyTo], 0 < e.org
      PROVE  \/ e.org < drain'[e.inv]
             \/ \E c \in Clients : /\ loc'[c].copying /\ pc'[c] \in Evicting
                                   /\ loc'[c].inv = e.inv /\ e.org < loc'[c].seq
  <2>1. e \in entries[CopyTo]
    BY <1>a, <1>4 DEF NoCopyIn
  <2>2. CASE e.org < drain[e.inv]
    BY <1>a, <2>2
  <2>3. ASSUME NEW c \in Clients, loc[c].copying, pc[c] \in Evicting, loc[c].inv = e.inv, e.org < loc[c].seq
        PROVE  loc'[c].copying /\ pc'[c] \in Evicting /\ loc'[c].inv = e.inv /\ e.org < loc'[c].seq
    BY <1>a, <2>3 DEF SameCopy
  <2> QED
    BY <1>4, <2>1, <2>2, <2>3 DEF CopiesInTurn
<1>5. \A c, d \in Clients : loc'[c].copying /\ loc'[d].copying /\ loc'[c].inv = loc'[d].inv => c = d
  BY <1>2 DEF CopiesInTurn
<1> QED
  BY <1>1, <1>2, <1>3, <1>4, <1>5 DEF CopiesInTurn

\* A copy selects from the caller's cursor on, and only if no other copy
\* drains the same invocation.
LEMMA CopySelectStep ==
  ASSUME TypeInv, CopiesInTurn, NEW c \in Clients, NEW i \in Invs, CopySelect(c, i)
  PROVE  CopiesInTurn'
<1> DEFINE E == {e \in From(entries[CopyFrom], drain[i]) : e.inv = i}
           found == Page(E)
           l(last) == [NoLoc EXCEPT !.ref = CopyTo, !.inv = i, !.batch = found,
                                    !.seq = After(last), !.copying = TRUE]
<1>1. PICK last \in found : IsLast(last, found) /\ Goto(c, "copy_tx", l(last))
  BY DEF CopySelect
<1>2. /\ l(last).inv = i /\ l(last).batch = found /\ l(last).seq = last.seq + 1 /\ l(last).copying = TRUE
  BY DEF NoLoc, After
<1>3. \A e \in found : e.inv = i /\ drain[i] <= e.seq /\ e.seq \in Nat /\ e.seq <= last.seq
  <2>1. \A e \in found : e \in entries[CopyFrom] /\ e.seq >= drain[i] /\ e.inv = i
    BY DEF Page, From
  <2>2. \A e \in entries[CopyFrom] : e.seq \in Nat
    BY CopyTypes DEF Entry
  <2>3. drain[i] \in Nat
    BY CopyTypes
  <2> QED
    BY <1>1, <2>1, <2>2, <2>3 DEF IsLast
<1>4. /\ pc'[c] = "copy_tx" /\ loc'[c].inv = i /\ loc'[c].batch = found /\ loc'[c].seq = last.seq + 1
      /\ loc'[c].copying = TRUE
      /\ \A d \in Clients : d # c => pc'[d] = pc[d] /\ loc'[d] = loc[d]
  <2> HIDE DEF l, found
  <2> QED
    BY <1>1, <1>2, CopyTypes DEF Goto
<1>5. /\ entries' = entries /\ drain' = drain /\ pc[c] = "idle"
      /\ \A d \in Clients : ~(loc[d].copying /\ loc[d].inv = i)
  BY DEF CopySelect, MayStart, At, Draining
<1>6. /\ ~loc[c].copying
      /\ drain[i] \in Nat /\ last.seq \in Nat /\ drain[i] <= last.seq
  BY <1>1, <1>3, <1>5, CopyTypes DEF CopiesInTurn, Evicting
<1> HIDE DEF found
<1>7. ASSUME NEW d \in Clients, loc'[d].copying
      PROVE  pc'[d] \in Evicting \cup {"copy_tx"} /\ drain'[loc'[d].inv] <= loc'[d].seq
  BY <1>4, <1>5, <1>6, <1>7 DEF CopiesInTurn
<1>8. \A d, e \in Clients : loc'[d].copying /\ loc'[e].copying /\ loc'[d].inv = loc'[e].inv => d = e
  BY <1>4, <1>5 DEF CopiesInTurn
<1>9. ASSUME NEW d \in Clients, pc'[d] = "copy_tx"
      PROVE  /\ loc'[d].copying
             /\ \A e \in loc'[d].batch : e.inv = loc'[d].inv /\ drain'[e.inv] <= e.seq /\ e.seq < loc'[d].seq
  <2>1. CASE d = c
    BY <1>3, <1>4, <1>5, <1>6, <2>1
  <2>2. CASE d # c
    BY <1>4, <1>5, <1>9, <2>2 DEF CopiesInTurn
  <2> QED
    BY <2>1, <2>2
<1>10. ASSUME NEW e \in entries'[CopyTo], 0 < e.org
       PROVE  \/ e.org < drain'[e.inv]
              \/ \E d \in Clients : /\ loc'[d].copying /\ pc'[d] \in Evicting
                                    /\ loc'[d].inv = e.inv /\ e.org < loc'[d].seq
  <2>1. \A d \in Clients : pc[d] \in Evicting => d # c
    BY <1>5 DEF Evicting
  <2> QED
    BY <1>4, <1>5, <1>10, <2>1 DEF CopiesInTurn
<1>11. Ordered(entries'[CopyTo])
  BY <1>5 DEF CopiesInTurn
<1> QED
  BY <1>7, <1>8, <1>9, <1>10, <1>11 DEF CopiesInTurn

\* A block goes in behind all that was copied of its invocation before.
LEMMA CopyTxStep ==
  ASSUME TypeInv, ClaimsAreFresh, CopiesInTurn, NEW c \in Clients, CopyTx(c)
  PROVE  CopiesInTurn'
<1> DEFINE B == loc[c].batch
           start == Claimed(row[CopyTo])
           new == Renumber(B, start)
<1>a. /\ pc[c] = "copy_tx" /\ loc[c].copying /\ loc[c].inv \in Invs /\ loc[c].seq \in Nat
      /\ pc \in [Clients -> Labels] /\ loc \in [Clients -> Loc]
      /\ \A e \in B : e.inv = loc[c].inv /\ drain[e.inv] <= e.seq /\ e.seq < loc[c].seq
  BY CopyTypes DEF CopyTx, At, CopiesInTurn
<1>b. /\ start \in Nat /\ B \in SUBSET Entry /\ IsFiniteSet(B) /\ drain \in [Invs -> Nat]
      /\ \A e \in B : e.seq \in Nat
  BY CopyTypes, ClaimFacts DEF TypeInv, FiniteLogs, Entry
<1>1. CASE Fail(c) /\ UNCHANGED store
  <2>1. /\ entries' = entries /\ drain' = drain /\ pc'[c] = "idle" /\ ~loc'[c].copying
        /\ \A d \in Clients : d # c => pc'[d] = pc[d] /\ loc'[d] = loc[d]
    BY <1>1, <1>a DEF Fail, Goto, store, NoLoc
  <2>2. \A d \in Clients : pc[d] \in Evicting => d # c
    BY <1>a DEF Evicting
  <2>3. ASSUME NEW e \in entries'[CopyTo], 0 < e.org
        PROVE  \/ e.org < drain'[e.inv]
               \/ \E d \in Clients : /\ loc'[d].copying /\ pc'[d] \in Evicting
                                     /\ loc'[d].inv = e.inv /\ e.org < loc'[d].seq
    BY <2>1, <2>2, <2>3 DEF CopiesInTurn
  <2>4. ASSUME NEW d \in Clients, loc'[d].copying \/ pc'[d] = "copy_tx" PROVE d # c
    BY <2>1, <2>4
  <2> QED
    BY <2>1, <2>3, <2>4 DEF CopiesInTurn
<1>2. CASE /\ entries' = [entries EXCEPT ![CopyTo] = @ \union new]
           /\ Goto(c, "evict_meta", [loc[c] EXCEPT !.batch = {}])
           /\ UNCHANGED drain
  <2>1. entries'[CopyTo] = entries[CopyTo] \union new /\ drain' = drain
    BY <1>2, CopyTypes
  <2>2. /\ pc'[c] = "evict_meta" /\ loc'[c].copying /\ loc'[c].inv = loc[c].inv /\ loc'[c].seq = loc[c].seq
        /\ \A d \in Clients : d # c => pc'[d] = pc[d] /\ loc'[d] = loc[d]
    <3>1. LET l == [loc[c] EXCEPT !.batch = {}]
          IN  l.copying = loc[c].copying /\ l.inv = loc[c].inv /\ l.seq = loc[c].seq
      BY CopyTypes DEF Loc
    <3> QED
      BY <1>2, <1>a, <3>1 DEF Goto
  <2>3. ASSUME NEW n \in new
        PROVE  \E e \in B : /\ n.seq = start + Rank(e, B) /\ n.inv = e.inv /\ n.org = e.seq
                            /\ Rank(e, B) \in Nat
    <3>1. PICK e \in B : n = [seq |-> start + Rank(e, B), inv |-> e.inv, org |-> e.seq]
      BY <2>3 DEF Renumber
    <3>2. Rank(e, B) \in Nat
      <4> HIDE DEF B
      <4> QED
        BY <1>b, RankBound
    <3> QED
      BY <3>1, <3>2
  <2>4. \A n \in new : /\ n.inv = loc[c].inv /\ n.org \in Nat /\ drain[n.inv] <= n.org /\ n.org < loc[c].seq
                       /\ n.seq \in Nat /\ start <= n.seq
    BY <1>a, <1>b, <2>3
  <2>5. \A e \in entries[CopyTo] : /\ e.seq \in Nat /\ e.org \in Nat /\ e.inv \in Invs /\ e.seq < start
                                   /\ 0 < e.org /\ e.inv = loc[c].inv => e.org < drain[e.inv]
    <3>1. ASSUME NEW e \in entries[CopyTo], 0 < e.org, e.inv = loc[c].inv PROVE e.org < drain[e.inv]
      <4>1. ASSUME NEW d \in Clients, loc[d].copying, pc[d] \in Evicting, loc[d].inv = e.inv PROVE FALSE
        <5>1. d = c
          BY <1>a, <3>1, <4>1 DEF CopiesInTurn
        <5> QED
          BY <1>a, <4>1, <5>1 DEF Evicting
      <4> QED
        BY <3>1, <4>1 DEF CopiesInTurn
    <3>2. \A e \in entries[CopyTo] : e.seq < start
      BY CopyTypes DEF ClaimsAreFresh
    <3> QED
      BY <3>1, <3>2, CopyTypes
  <2>6. ASSUME NEW m \in new, NEW n \in new, m.seq < n.seq PROVE m.org < n.org
    <3>1. PICK e \in B : m.seq = start + Rank(e, B) /\ m.org = e.seq /\ Rank(e, B) \in Nat
      BY <2>3
    <3>2. PICK f \in B : n.seq = start + Rank(f, B) /\ n.org = f.seq /\ Rank(f, B) \in Nat
      BY <2>3
    <3>3. Rank(e, B) < Rank(f, B)
      BY <1>b, <2>6, <3>1, <3>2
    <3>4. f.seq <= e.seq => Rank(f, B) <= Rank(e, B)
      <4> HIDE DEF B
      <4> QED
        BY <1>b, RankMonotone
    <3>5. e.seq \in Nat /\ f.seq \in Nat
      BY <1>b
    <3> QED
      BY <3>1, <3>2, <3>3, <3>4, <3>5
  <2>7. Ordered(entries'[CopyTo])
    <3> SUFFICES ASSUME NEW e \in entries[CopyTo] \union new, NEW f \in entries[CopyTo] \union new,
                        e.inv = f.inv, 0 < e.org, 0 < f.org, e.seq < f.seq
                 PROVE  e.org < f.org
      BY <2>1 DEF Ordered
    <3> HIDE DEF new, start
    <3>1. CASE e \in entries[CopyTo] /\ f \in entries[CopyTo]
      BY <3>1 DEF CopiesInTurn, Ordered
    <3>2. CASE e \in entries[CopyTo] /\ f \in new
      <4>1. e.inv = loc[c].inv /\ f.org \in Nat /\ drain[f.inv] <= f.org
        BY <2>4, <3>2
      <4>2. e.org < drain[e.inv] /\ e.org \in Nat /\ drain[e.inv] \in Nat
        BY <1>b, <2>5, <3>2, <4>1
      <4> QED
        BY <4>1, <4>2
    <3>3. CASE e \in new /\ f \in entries[CopyTo]
      BY <1>b, <2>4, <2>5, <3>3
    <3>4. CASE e \in new /\ f \in new
      BY <2>6, <3>4
    <3> QED
      BY <3>1, <3>2, <3>3, <3>4
  <2>8. ASSUME NEW e \in entries'[CopyTo], 0 < e.org
        PROVE  \/ e.org < drain'[e.inv]
               \/ \E d \in Clients : /\ loc'[d].copying /\ pc'[d] \in Evicting
                                     /\ loc'[d].inv = e.inv /\ e.org < loc'[d].seq
    <3>1. CASE e \in new
      <4>1. loc'[c].copying /\ pc'[c] \in Evicting /\ loc'[c].inv = e.inv /\ e.org < loc'[c].seq
        BY <2>2, <2>4, <3>1 DEF Evicting
      <4> QED
        BY <4>1
    <3>2. CASE e \in entries[CopyTo]
      <4>1. \A d \in Clients : pc[d] \in Evicting => d # c
        BY <1>a DEF Evicting
      <4> QED
        BY <2>1, <2>2, <2>8, <3>2, <4>1 DEF CopiesInTurn
    <3> QED
      BY <2>1, <2>8, <3>1, <3>2
  <2>9. ASSUME NEW d \in Clients, loc'[d].copying
        PROVE  /\ pc'[d] \in Evicting \cup {"copy_tx"} /\ drain'[loc'[d].inv] <= loc'[d].seq
               /\ loc[d].copying /\ loc'[d].inv = loc[d].inv
    BY <1>a, <2>1, <2>2, <2>9 DEF CopiesInTurn, Evicting
  <2>10. \A d, e \in Clients : loc'[d].copying /\ loc'[e].copying /\ loc'[d].inv = loc'[e].inv => d = e
    BY <2>9 DEF CopiesInTurn
  <2>11. ASSUME NEW d \in Clients, pc'[d] = "copy_tx"
         PROVE  /\ loc'[d].copying
                /\ \A e \in loc'[d].batch : e.inv = loc'[d].inv /\ drain'[e.inv] <= e.seq /\ e.seq < loc'[d].seq
    BY <2>1, <2>2, <2>11 DEF CopiesInTurn
  <2> QED
    BY <2>7, <2>8, <2>9, <2>10, <2>11 DEF CopiesInTurn
<1> QED
  BY <1>1, <1>2 DEF CopyTx

\* A copy that returns moves its caller's cursor past what it inserted.
LEMMA CopyReturnStep ==
  ASSUME TypeInv, CopiesInTurn, NEW c \in Clients, loc[c].copying, pc[c] \in Evicting, Return(c),
         entries'[CopyTo] \subseteq entries[CopyTo]
  PROVE  CopiesInTurn'
<1> DEFINE i == loc[c].inv
<1>1. /\ drain' = [drain EXCEPT ![i] = loc[c].seq] /\ i \in Invs /\ loc[c].seq \in Nat
      /\ pc'[c] = "idle" /\ ~loc'[c].copying
      /\ \A d \in Clients : d # c => pc'[d] = pc[d] /\ loc'[d] = loc[d]
  BY CopyTypes DEF Return, Goto, NoLoc
<1>2. /\ drain'[i] = loc[c].seq /\ drain[i] <= loc[c].seq
      /\ \A j \in Invs : drain[j] \in Nat /\ drain'[j] \in Nat /\ (j # i => drain'[j] = drain[j])
  BY <1>1, CopyTypes DEF CopiesInTurn
<1>3. \A d \in Clients : loc[d].copying /\ loc[d].inv = i => d = c
  BY DEF CopiesInTurn
<1>4. /\ \A e \in entries[CopyTo] : e.seq \in Nat /\ e.org \in Nat /\ e.inv \in Invs
      /\ \A d \in Clients : loc[d].inv \in Invs /\ loc[d].seq \in Nat
  BY CopyTypes
<1> HIDE DEF i
<1>5. ASSUME NEW d \in Clients, loc'[d].copying
      PROVE  /\ pc'[d] \in Evicting \cup {"copy_tx"} /\ drain'[loc'[d].inv] <= loc'[d].seq
             /\ loc[d].copying /\ loc'[d].inv = loc[d].inv
  BY <1>1, <1>2, <1>3, <1>4, <1>5 DEF CopiesInTurn
<1>6. \A d, e \in Clients : loc'[d].copying /\ loc'[e].copying /\ loc'[d].inv = loc'[e].inv => d = e
  BY <1>5 DEF CopiesInTurn
<1>7. ASSUME NEW d \in Clients, pc'[d] = "copy_tx"
      PROVE  /\ loc'[d].copying
             /\ \A e \in loc'[d].batch : e.inv = loc'[d].inv /\ drain'[e.inv] <= e.seq /\ e.seq < loc'[d].seq
  <2>1. d # c /\ loc'[d] = loc[d] /\ pc[d] = "copy_tx"
    BY <1>1, <1>7
  <2>2. loc[d].copying /\ loc[d].inv # i
    BY <1>3, <2>1 DEF CopiesInTurn
  <2> QED
    BY <1>2, <1>4, <2>1, <2>2 DEF CopiesInTurn
<1>8. ASSUME NEW e \in entries'[CopyTo], 0 < e.org
      PROVE  \/ e.org < drain'[e.inv]
             \/ \E d \in Clients : /\ loc'[d].copying /\ pc'[d] \in Evicting
                                   /\ loc'[d].inv = e.inv /\ e.org < loc'[d].seq
  <2>1. e \in entries[CopyTo]
    BY <1>8
  <2>2. CASE e.org < drain[e.inv]
    BY <1>2, <1>4, <2>1, <2>2
  <2>3. ASSUME NEW d \in Clients, loc[d].copying, pc[d] \in Evicting, loc[d].inv = e.inv, e.org < loc[d].seq
        PROVE  \/ e.org < drain'[e.inv]
               \/ loc'[d].copying /\ pc'[d] \in Evicting /\ loc'[d].inv = e.inv /\ e.org < loc'[d].seq
    <3>1. CASE d = c
      BY <1>2, <2>3, <3>1 DEF i
    <3>2. CASE d # c
      BY <1>1, <2>3, <3>2
    <3> QED
      BY <3>1, <3>2
  <2> QED
    BY <1>8, <2>1, <2>2, <2>3 DEF CopiesInTurn
<1>9. Ordered(entries'[CopyTo])
  BY DEF CopiesInTurn, Ordered
<1> QED
  BY <1>5, <1>6, <1>7, <1>8, <1>9 DEF CopiesInTurn

\* A step fails at most one operation.
LEMMA FaultsGrow ==
  ASSUME [Next]_vars
  PROVE  faults' = faults \/ faults' = faults + 1
<1>1. ASSUME NEW c \in Clients, NEW r \in Refs, NEW i \in Invs, NEW done \in 1 .. 4,
             PrintTx(c, r, i, done)
      PROVE  faults' = faults \/ faults' = faults + 1
  BY <1>1, PrintTxEffect
<1>2. \/ faults' = faults \/ Fault
      \/ \E c \in Clients, r \in Refs, i \in Invs, done \in 1 .. 4 : PrintTx(c, r, i, done)
  BY DEF Next, ClientNext, vars, PrintClaim, PrintInsert,
     CopySelect, CopyTx, EvictMeta, EvictDelete, EvictUpdate, ClearMeta,
     ClearTx, ClearDelete, ClearUpdate, ClearPartial, SweepSelect, SweepEntries,
     SweepRow, Abort, Read, TtlPasses
<1> QED
  BY <1>1, <1>2 DEF Fault

\* An orchestrator that drains a child's console with the cursor that copy
\* returned (console.rs:217-225, 286) gets that invocation's entries in their
\* order and none twice, while no call fails: however copies, prints, evictions
\* and clears of other callers interleave.
THEOREM ConsoleCopyOnceInOrder ==
  ASSUME "sweep" \in Ops => SweepAlone
  PROVE  Spec => []CopyOnceInOrder
<1> DEFINE Inv == faults = 0 => CopiesInTurn
<1>1. Init => Inv
  BY ConsoleAssumption DEF Init, CopiesInTurn, Ordered, NoLoc
<1>2. ClaimsInv /\ Inv /\ [Next]_vars => Inv'
  <2> SUFFICES ASSUME ClaimsInv, Inv, [Next]_vars, faults' = 0
               PROVE  CopiesInTurn'
    OBVIOUS
  <2>1. TypeInv /\ TypeInv' /\ ClaimsAreFresh
    BY TypeInvStep DEF ClaimsInv
  <2>2. faults' = faults
    <3>1. faults \in Nat /\ (faults' = faults \/ faults' = faults + 1)
      BY <2>1, FaultsGrow DEF TypeInv, TypeOK
    <3> QED
      BY <3>1
  <2>3. CopiesInTurn
    BY <2>2
  <2> QED
    BY <2>1, <2>2, <2>3, CopyMoves, CalmStep, CopySelectStep, CopyTxStep, CopyReturnStep
<1>3. Inv => CopyOnceInOrder
  BY DEF CopiesInTurn, Ordered, CopyOnceInOrder
<1> HIDE DEF Inv
<1> QED
  BY <1>1, <1>2, <1>3, ConsoleClaimsInv, PTL DEF Spec

----------------------------------------------------------------------------
(* What evictions leave, and what they say of it.                             *)

\* A log lies within the last Cap seqs, or somebody is about to trim it to
\* them.
WithinCap(r) ==
  \/ \A e \in entries[r] : Claimed(row[r]) - Cap <= e.seq
  \/ \E c \in Clients : /\ loc[c].ref = r
                        /\ \/ pc[c] = "evict_meta"
                           \/ pc[c] = "evict_delete" /\ Claimed(row[r]) - Cap <= loc[c].to

\* The seqs that evictions have deleted and still have to count.
Owed(r) ==
  {p \in Clients \X Nat : /\ pc[p[1]] = "evict_update" /\ loc[p[1]].ref = r
                          /\ loc[p[1]].first <= p[2] /\ p[2] < loc[p[1]].to}

\* An eviction works on a console that exists, on what lies from the first seq
\* it read; what evictions deleted has been counted as dropped, or is owed.
EvictionsCount ==
  /\ \A c \in Clients : pc[c] = "copy_tx" => loc[c].ref = CopyTo
  /\ \A c \in Clients : pc[c] \in Evicting => row[loc[c].ref] # NoRow
  /\ \A c \in Clients : pc[c] = "evict_delete" => \A e \in entries[loc[c].ref] : loc[c].first <= e.seq
  /\ \A r \in Refs : IsFiniteSet(Owed(r)) /\ evicted[r] <= row[r].dropped + Cardinality(Owed(r))

EvictionsKeepUp == (\A r \in Refs : WithinCap(r)) /\ EvictionsCount

\* A console that a step leaves as it is or takes entries from.
Untouched(r) ==
  /\ Claimed(row'[r]) = Claimed(row[r]) /\ row'[r].dropped = row[r].dropped
  /\ row[r] # NoRow => row'[r] # NoRow
  /\ evicted'[r] = evicted[r] /\ entries'[r] \subseteq entries[r]

\* A client that a step finds and leaves outside evictions.
Apart(c) ==
  /\ pc[c] \notin Evicting /\ pc'[c] \notin Evicting
  /\ pc'[c] = "copy_tx" => loc'[c].ref = CopyTo

Rest(c) == pc'[c] = pc[c] /\ loc'[c] = loc[c]

\* A step that touches no eviction and only takes entries away.
Quiet ==
  /\ \A r \in Refs : Untouched(r)
  /\ \A c \in Clients : Rest(c) \/ Apart(c)

\* A whole print: the claim, the entry and, over the cap, the eviction.
WholePrint(r, i) ==
  LET R == PrintRow(r)
      to == PrintTo(r)
  IN  /\ UNCHANGED <<pc, loc>>
      /\ \/ /\ ~OverCap(R.first, R.next)
            /\ row' = [row EXCEPT ![r] = R]
            /\ entries' = [entries EXCEPT ![r] = PrintLog(r, i)]
            /\ evicted' = evicted
         \/ /\ OverCap(R.first, R.next)
            /\ row' = [row EXCEPT ![r] = EvictRow(R, R.first, to)]
            /\ entries' = [entries EXCEPT ![r] = From(PrintLog(r, i), to)]
            /\ evicted' = [evicted EXCEPT ![r] = @ + Cardinality(Below(PrintLog(r, i), to))]

\* A block goes in.
WholeBlock(c) ==
  /\ pc[c] = "copy_tx"
  /\ row' = [row EXCEPT ![CopyTo] = ClaimRow(@, Cardinality(loc[c].batch))]
  /\ entries' = [entries EXCEPT ![CopyTo] = @ \union Renumber(loc[c].batch, Claimed(row[CopyTo]))]
  /\ Goto(c, "evict_meta", [loc[c] EXCEPT !.batch = {}])
  /\ UNCHANGED evicted

\* What the types say of evictions.
LEMMA CapTypes ==
  ASSUME TypeInv
  PROVE  /\ WellTyped /\ CopyTo \in Refs /\ Cap \in Nat /\ 1 <= Cap
         /\ evicted \in [Refs -> Nat] /\ \A r \in Refs : row[r].dropped \in Nat /\ evicted[r] \in Nat
         /\ \A c \in Clients : loc[c] \in Loc
         /\ \A c \in Clients : pc[c] \in {"evict_delete", "evict_update"} => loc[c].first <= loc[c].to
<1>1. WellTyped
  BY Typed
<1>2. evicted \in [Refs -> Nat] /\ CopyTo \in Refs /\ Cap \in Nat /\ 1 <= Cap
  BY ConsoleAssumption DEF TypeInv, TypeOK
<1>3. \A r \in Refs : row[r].dropped \in Nat /\ evicted[r] \in Nat
  BY <1>1, <1>2 DEF WellTyped, Row
<1>4. \A c \in Clients : loc[c] \in Loc
  BY <1>1 DEF WellTyped
<1> QED
  BY <1>1, <1>2, <1>3, <1>4 DEF TypeInv, EvictsForward

\* A client that goes on outside evictions rests the others.
LEMMA GotoApart ==
  ASSUME TypeInv, NEW d \in Clients, NEW label \in Labels, NEW l, Goto(d, label, l),
         pc[d] \notin Evicting, label \notin Evicting, label = "copy_tx" => l.ref = CopyTo
  PROVE  \A c \in Clients : Rest(c) \/ Apart(c)
<1>1. pc'[d] = label /\ loc'[d] = l /\ \A c \in Clients : c # d => pc'[c] = pc[c] /\ loc'[c] = loc[c]
  BY CopyTypes DEF Goto
<1> QED
  BY <1>1 DEF Rest, Apart

\* A print that no fault cuts short is whole.
LEMMA PrintIsWhole ==
  ASSUME TypeInv, ClaimsAreFresh, faults' = faults,
         NEW c, NEW r \in Refs, NEW i, NEW done \in 1 .. 4, PrintTx(c, r, i, done)
  PROVE  WholePrint(r, i)
<1>1. Claimed(row[r]) \notin Seqs(entries[r])
  <2>1. \A e \in entries[r] : e.seq \in Nat /\ e.seq < Claimed(row[r])
    BY CapTypes DEF WellTyped, ClaimsAreFresh
  <2> QED
    BY <2>1 DEF Seqs
<1>2. done = 4
  <2>1. faults \in Nat
    BY DEF TypeInv, TypeOK
  <2>2. done # 4 => Fault
    BY DEF PrintTx
  <2> QED
    BY <2>1, <2>2 DEF Fault
<1>3. UNCHANGED <<pc, loc>>
  BY DEF PrintTx
<1>4. CASE OverCap(PrintRow(r).first, PrintRow(r).next)
  BY <1>1, <1>2, <1>3, <1>4 DEF PrintTx, WholePrint, PrintRow, PrintLog, PrintTo
<1>5. CASE ~OverCap(PrintRow(r).first, PrintRow(r).next)
  <2>1. /\ row' = [row EXCEPT ![r] = PrintRow(r)]
        /\ entries' = [entries EXCEPT ![r] = PrintLog(r, i)]
        /\ evicted' = evicted
    <3> DEFINE dup == Claimed(row[r]) \in Seqs(entries[r])
               over == OverCap(PrintRow(r).first, PrintRow(r).next)
    <3>1. ~dup /\ done > 1 /\ (~over \/ done = 2)
      BY <1>1, <1>2, <1>5
    <3>2. ~(dup \/ done = 1) /\ ~(~dup /\ done > 2 /\ over)
      BY <1>1, <1>2, <1>5
    <3> QED
      BY <3>1, <3>2 DEF PrintTx, PrintRow, PrintLog
  <2> QED
    BY <1>3, <1>5, <2>1 DEF WholePrint
<1> QED
  BY <1>4, <1>5

\* What a step that no fault cuts short does to consoles and evictions.
LEMMA EvictionMoves ==
  ASSUME HeldCursor, ClaimsInv, HeldInv, EvictionsCount, [Next]_vars, faults' = faults
  PROVE  \/ Quiet
         \/ \E r \in Refs, i \in Invs : WholePrint(r, i)
         \/ \E c \in Clients : WholeBlock(c)
         \/ \E c \in Clients : EvictMeta(c) \/ EvictDelete(c) \/ EvictUpdate(c) \/ SweepRow(c)
<1>a. /\ TypeInv /\ ClaimsAreFresh /\ NothingHalfDone
      /\ pc \in [Clients -> Labels] /\ loc \in [Clients -> Loc] /\ entries \in [Refs -> SUBSET Entry]
      /\ row \in [Refs -> Row] /\ \A c \in Clients : loc[c].ref \in Refs /\ loc[c].to \in Nat
  BY CapTypes DEF ClaimsInv, HeldInv, WellTyped
<1>b. \A E, s : From(E, s) \subseteq E
  BY DEF From
<1>c. ASSUME row' = row, evicted' = evicted, \A r \in Refs : entries'[r] \subseteq entries[r]
      PROVE  \A r \in Refs : Untouched(r)
  BY <1>c DEF Untouched
<1>d. ASSUME \A r \in Refs : Untouched(r), NEW d \in Clients, NEW label \in Labels, NEW l, Goto(d, label, l),
             pc[d] \notin Evicting, label \notin Evicting, label = "copy_tx" => l.ref = CopyTo
      PROVE  Quiet
  BY <1>a, <1>d, GotoApart DEF Quiet
<1>e. ASSUME \A r \in Refs : Untouched(r), NEW d \in Clients, Return(d) \/ Fail(d), pc[d] \notin Evicting
      PROVE  Quiet
  BY <1>d, <1>e DEF Return, Fail, Labels, Evicting
<1>f. ASSUME \A r \in Refs : Untouched(r), pc' = pc, loc' = loc PROVE Quiet
  BY <1>f DEF Quiet, Rest
<1>1. ASSUME NEW d \in Clients, NEW i \in Invs, CopySelect(d, i) PROVE Quiet
  <2> DEFINE found == Page({e \in From(entries[CopyFrom], drain[i]) : e.inv = i})
             l(last) == [NoLoc EXCEPT !.ref = CopyTo, !.inv = i, !.batch = found,
                                      !.seq = After(last), !.copying = TRUE]
  <2>1. \A last : l(last).ref = CopyTo
    BY DEF NoLoc
  <2>2. PICK last \in found : Goto(d, "copy_tx", l(last))
    BY <1>1 DEF CopySelect
  <2>3. pc[d] = "idle" /\ row' = row /\ entries' = entries /\ evicted' = evicted
    BY <1>1 DEF CopySelect, MayStart, At
  <2> HIDE DEF l, found
  <2> QED
    BY <1>c, <1>d, <2>1, <2>2, <2>3 DEF Labels, Evicting
<1>2. ASSUME NEW d \in Clients, CopyTx(d) PROVE Quiet \/ WholeBlock(d)
  <2>1. pc[d] = "copy_tx" /\ evicted' = evicted
    BY <1>2 DEF CopyTx, At
  <2>2. CASE Fail(d) /\ UNCHANGED store
    BY <1>c, <1>e, <2>1, <2>2 DEF store, Evicting
  <2>3. CASE ~(Fail(d) /\ UNCHANGED store)
    BY <1>2, <2>1, <2>3 DEF CopyTx, WholeBlock
  <2> QED
    BY <2>2, <2>3
<1>3. ASSUME NEW d \in Clients, NEW r \in Refs, NEW before \in 1 .. (MaxSeq + 1), ClearMeta(d, r, before)
      PROVE  Quiet
  <2> DEFINE l == [NoLoc EXCEPT !.ref = r, !.to = ClearCutoff(before, row[r].next)]
  <2>1. /\ Goto(d, "clear_delete", l) /\ pc[d] = "idle"
        /\ row' = row /\ entries' = entries /\ evicted' = evicted
    BY <1>3 DEF ClearMeta, MayStart, At
  <2> HIDE DEF l
  <2> QED
    BY <1>c, <1>d, <2>1 DEF Labels, Evicting
<1>4. ASSUME NEW d \in Clients, ClearTx(d) PROVE Quiet
  <2> DEFINE q == loc[d].ref
             to == loc[d].to
  <2>1. /\ entries' = [entries EXCEPT ![q] = From(@, to)] /\ row' = [row EXCEPT ![q] = SetFirst(@, to)]
        /\ Return(d) /\ evicted' = evicted /\ pc[d] = "clear_delete" /\ q \in Refs /\ to \in Nat
    BY <1>4, <1>a DEF ClearTx, At
  <2> HIDE DEF q, to
  <2>2. ASSUME NEW r \in Refs PROVE Untouched(r)
    <3>1. entries'[r] \subseteq entries[r]
      BY <1>a, <1>b, <2>1
    <3>2. row'[r] = row[r] \/ row'[r] = SetFirst(row[r], to)
      BY <1>a, <2>1
    <3>3. row[r] \in Row /\ (row[r] # NoRow => 1 <= row[r].next)
      BY <1>a DEF ClaimsInv, RowsStay
    <3>4. Claimed(SetFirst(row[r], to)) = Claimed(row[r])
      BY <2>1, <3>3, FirstKeepsClaims
    <3>5. SetFirst(row[r], to).dropped = row[r].dropped
      BY <3>3 DEF SetFirst, Row
    <3>6. row[r] # NoRow => SetFirst(row[r], to) # NoRow
      <4>1. row[r] # NoRow => SetFirst(row[r], to).next = row[r].next
        BY <3>3 DEF SetFirst, Row
      <4> QED
        BY <3>3, <4>1 DEF NoRow
    <3> QED
      BY <2>1, <3>1, <3>2, <3>4, <3>5, <3>6 DEF Untouched
  <2> QED
    BY <1>e, <2>1, <2>2 DEF Evicting
<1>5. ASSUME NEW d \in Clients, SweepSelect(d) PROVE Quiet
  <2> DEFINE l == [NoLoc EXCEPT !.todo = Expired]
  <2>1. /\ Goto(d, "sweep_entries", l) /\ pc[d] = "idle"
        /\ row' = row /\ entries' = entries /\ evicted' = evicted
    BY <1>5 DEF SweepSelect, MayStart, At
  <2> HIDE DEF l
  <2> QED
    BY <1>c, <1>d, <2>1 DEF Labels, Evicting
<1>6. ASSUME NEW d \in Clients, NEW q \in Refs, SweepEntries(d, q) PROVE Quiet
  <2> DEFINE l == [loc[d] EXCEPT !.ref = q, !.todo = @ \ {q}]
  <2>1. /\ Goto(d, "sweep_row", l) /\ pc[d] = "sweep_entries"
        /\ row' = row /\ evicted' = evicted /\ entries' = [entries EXCEPT ![q] = {}]
    BY <1>6 DEF SweepEntries, At
  <2>2. \A r \in Refs : entries'[r] \subseteq entries[r]
    BY <1>a, <2>1
  <2> HIDE DEF l
  <2> QED
    BY <1>c, <1>d, <2>1, <2>2 DEF Labels, Evicting
<1>7. ASSUME NEW q \in Refs, TtlPasses(q) PROVE Quiet
  <2>1. ASSUME NEW r \in Refs PROVE Untouched(r)
    <3>1. row'[r] = row[r] \/ (row[r].fresh /\ row'[r] = [row[r] EXCEPT !.fresh = FALSE])
      BY <1>7, <1>a DEF TtlPasses
    <3>2. row[r] \in Row /\ (row[r] # NoRow => 1 <= row[r].next)
      BY <1>a DEF ClaimsInv, RowsStay
    <3>3. LET R == [row[r] EXCEPT !.fresh = FALSE]
          IN  R.next = row[r].next /\ R.dropped = row[r].dropped
      BY <3>2 DEF Row
    <3>4. row[r].fresh => row[r] # NoRow
      BY DEF NoRow
    <3>5. row[r] # NoRow => row'[r] # NoRow /\ row'[r].next = row[r].next
      <4>1. row'[r].next = row[r].next
        BY <3>1, <3>3
      <4>2. NoRow.next = 0
        BY DEF NoRow
      <4> QED
        BY <3>2, <4>1, <4>2
    <3>6. entries' = entries /\ evicted' = evicted
      BY <1>7 DEF TtlPasses
    <3> QED
      BY <3>1, <3>3, <3>4, <3>5, <3>6 DEF Untouched, Claimed
  <2> QED
    BY <1>7, <1>f, <2>1 DEF TtlPasses
<1>8. ASSUME (\E q \in Readers : Read(q)) \/ UNCHANGED vars PROVE Quiet
  <2>1. row' = row /\ entries' = entries /\ evicted' = evicted /\ pc' = pc /\ loc' = loc
    BY <1>8 DEF Read, vars
  <2> QED
    BY <1>c, <1>f, <2>1
<1>9. ASSUME NEW d \in Clients, Abort(d) \/ ClearPartial(d) PROVE FALSE
  BY <1>9, <1>a DEF Abort, ClearPartial, Fault, TypeInv, TypeOK
<1>10. ASSUME NEW d \in Clients
       PROVE  /\ ~PrintInsert(d) /\ ~ClearDelete(d) /\ ~ClearUpdate(d)
              /\ \A r \in Refs, i \in Invs : ~PrintClaim(d, r, i)
  BY <1>a DEF NothingHalfDone, PrintInsert, ClearDelete, ClearUpdate, PrintClaim, At
<1>11. ASSUME NEW d \in Clients, NEW r \in Refs, NEW i \in Invs, NEW done \in 1 .. 4, PrintTx(d, r, i, done)
       PROVE  WholePrint(r, i)
  BY <1>a, <1>11, PrintIsWhole
<1>12. ASSUME NEW d \in Clients, ClientNext(d)
       PROVE  \/ Quiet
              \/ \E r \in Refs, i \in Invs : WholePrint(r, i)
              \/ \E c \in Clients : WholeBlock(c)
              \/ \E c \in Clients : EvictMeta(c) \/ EvictDelete(c) \/ EvictUpdate(c) \/ SweepRow(c)
  BY <1>12, <1>1, <1>2, <1>3, <1>4, <1>5, <1>6, <1>9, <1>10, <1>11 DEF ClientNext
<1> QED
  BY <1>7, <1>8, <1>12 DEF Next

----------------------------------------------------------------------------
(* Each of those steps keeps evictions up.                                    *)

\* Entries with seqs of their own in a span are no more than the span is long.
LEMMA SpanBound ==
  ASSUME NEW E, UniqueSeqs(E), NEW a \in Int, NEW b \in Int, a <= b,
         \A e \in E : e.seq \in Int /\ a <= e.seq /\ e.seq < b
  PROVE  IsFiniteSet(E) /\ Cardinality(E) \in Nat /\ Cardinality(E) <= b - a
<1> DEFINE T == a .. (b - 1)
           f == [e \in E |-> e.seq]
<1>1. IsFiniteSet(T) /\ Cardinality(T) = b - a
  <2>1. b - 1 \in Int /\ (a > b - 1 => b - a = 0) /\ b - 1 - a + 1 = b - a
    OBVIOUS
  <2>2. IsFiniteSet(T) /\ Cardinality(T) = IF a > b - 1 THEN 0 ELSE b - 1 - a + 1
    BY <2>1, FS_Interval
  <2> HIDE DEF T
  <2> QED
    BY <2>1, <2>2
<1>2. f \in [E -> T]
  <2> SUFFICES ASSUME NEW e \in E PROVE e.seq \in T
    OBVIOUS
  <2> QED
    OBVIOUS
<1>3. \A e, g \in E : f[e] = f[g] => e = g
  BY DEF UniqueSeqs
<1> HIDE DEF T, f
<1>4. f \in Injection(E, T)
  BY <1>2, <1>3 DEF Injection, IsInjective
<1> QED
  BY <1>1, <1>4, FS_Injection, FS_CardinalityType

\* A quiet step keeps evictions up.
LEMMA QuietStep ==
  ASSUME TypeInv, TypeInv', EvictionsKeepUp, Quiet
  PROVE  EvictionsKeepUp'
<1>a. /\ \A r \in Refs : Untouched(r) /\ Claimed(row[r]) \in Nat
      /\ \A c \in Clients : loc[c].ref \in Refs /\ loc'[c].ref \in Refs
      /\ \A c \in Clients : Rest(c) \/ Apart(c)
  BY CapTypes DEF Quiet, WellTyped, TypeInv, TypeOK, Loc
<1>1. ASSUME NEW r \in Refs PROVE WithinCap(r)'
  <2>1. CASE \A e \in entries[r] : Claimed(row[r]) - Cap <= e.seq
    BY <1>a, <2>1 DEF Untouched, WithinCap
  <2>2. ASSUME NEW c \in Clients, loc[c].ref = r,
               \/ pc[c] = "evict_meta"
               \/ pc[c] = "evict_delete" /\ Claimed(row[r]) - Cap <= loc[c].to
        PROVE  WithinCap(r)'
    <3>1. Rest(c)
      BY <1>a, <2>2 DEF Apart, Evicting
    <3> QED
      BY <1>a, <2>2, <3>1 DEF Rest, Untouched, WithinCap
  <2> QED
    BY <2>1, <2>2 DEF EvictionsKeepUp, WithinCap
<1>2. ASSUME NEW c \in Clients
      PROVE  /\ pc'[c] = "copy_tx" => loc'[c].ref = CopyTo
             /\ pc'[c] \in Evicting => row'[loc'[c].ref] # NoRow
             /\ pc'[c] = "evict_delete" => \A e \in entries'[loc'[c].ref] : loc'[c].first <= e.seq
  <2>1. CASE Apart(c)
    BY <2>1 DEF Apart, Evicting
  <2>2. CASE Rest(c)
    BY <1>a, <2>2 DEF Rest, Untouched, EvictionsKeepUp, EvictionsCount
  <2> QED
    BY <1>a, <2>1, <2>2
<1>3. ASSUME NEW r \in Refs
      PROVE  Owed(r)' = Owed(r)
  <2>1. \A c \in Clients : (pc'[c] = "evict_update" \/ pc[c] = "evict_update") => Rest(c)
    BY <1>a DEF Apart, Evicting
  <2> QED
    BY <2>1 DEF Owed, Rest
<1>4. ASSUME NEW r \in Refs
      PROVE  IsFiniteSet(Owed(r)') /\ evicted'[r] <= row'[r].dropped + Cardinality(Owed(r)')
  <2>1. IsFiniteSet(Owed(r)) /\ evicted[r] <= row[r].dropped + Cardinality(Owed(r))
    BY DEF EvictionsKeepUp, EvictionsCount
  <2> QED
    BY <1>a, <1>3, <2>1 DEF Untouched
<1> QED
  BY <1>1, <1>2, <1>4 DEF EvictionsKeepUp, EvictionsCount

\* What a print claims comes after the first seq of its console.
LEMMA PrintSpan ==
  ASSUME TypeInv, HeldInv, ClaimsInv, HeldCursor, LogsUnique, NEW r \in Refs, NEW i \in Invs
  PROVE  /\ PrintRow(r) \in Row /\ PrintRow(r) # NoRow /\ PrintRow(r).first \in Nat /\ PrintRow(r).next \in Nat
         /\ PrintRow(r).dropped = row[r].dropped /\ PrintRow(r).next = Claimed(row[r]) + 1
         /\ Claimed(PrintRow(r)) = PrintRow(r).next
         /\ \A e \in PrintLog(r, i) : e.seq \in Nat /\ PrintRow(r).first <= e.seq
         /\ UniqueSeqs(PrintLog(r, i))
<1> DEFINE R == PrintRow(r)
           s == Claimed(row[r])
           new == {[seq |-> s, inv |-> i, org |-> 0]}
<1>1. /\ row[r] \in Row /\ s \in Nat /\ \A e \in entries[r] : e.seq \in Nat /\ e.seq < s
      /\ row[r].first \in Nat /\ row[r].first <= s /\ \A e \in entries[r] : row[r].first <= e.seq /\ 1 <= e.seq
      /\ UniqueSeqs(entries[r])
  BY CapTypes DEF WellTyped, ClaimsInv, ClaimsAreFresh, HeldInv, FirstIsClaimed, RetainedAboveFirst, LogsUnique
<1>2. R \in Row /\ R # NoRow /\ R.first \in Nat /\ R.next = s + 1 /\ Claimed(R) = s + 1
  BY <1>1, ClaimOne DEF PrintRow
<1>3. R.dropped = row[r].dropped /\ (R.first = row[r].first \/ (R.first = 1 /\ s = 1))
  BY <1>1 DEF PrintRow, ClaimRow, NoRow, Row, Claimed
<1>4. \A e \in PrintLog(r, i) : e.seq \in Nat /\ R.first <= e.seq
  BY <1>1, <1>3 DEF PrintLog
<1>5. UniqueSeqs(PrintLog(r, i))
  <2>1. UniqueSeqs(new) /\ \A e \in new : e.seq \in Nat /\ s <= e.seq
    BY <1>1 DEF UniqueSeqs
  <2>2. PrintLog(r, i) \in SUBSET (entries[r] \union new)
    BY DEF PrintLog
  <2> HIDE DEF new, s
  <2> QED
    BY <1>1, <2>1, <2>2, UniqueUnion
<1> QED
  BY <1>1, <1>2, <1>3, <1>4, <1>5

\* An eviction leaves no more than the cap.
LEMMA NewFirstCap ==
  ASSUME NEW first \in Nat, NEW next \in Nat, OverCap(first, next)
  PROVE  next - Cap <= NewFirst(first, next)
<1>1. Cap \in Nat /\ (Cap + 9) \div 10 \in Int
  BY ConsoleAssumption
<1> DEFINE tenth == (Cap + 9) \div 10
<1>2. tenth \in Int /\ next - first - Cap \in Int
  BY <1>1
<1> HIDE DEF tenth
<1>3. next - first - Cap <= MaxOf(next - first - Cap, tenth) /\ MaxOf(next - first - Cap, tenth) \in Int
  BY <1>2 DEF MaxOf
<1>4. next - Cap <= first + MaxOf(next - first - Cap, tenth) /\ next - Cap <= next
  BY <1>1, <1>3
<1>5. next - Cap <= MinOf(first + MaxOf(next - first - Cap, tenth), next)
  BY <1>4 DEF MinOf
<1> QED
  BY <1>5 DEF NewFirst, tenth

\* A whole print keeps evictions up: it evicts what it must, and counts it.
LEMMA WholePrintStep ==
  ASSUME HeldCursor, TypeInv, TypeInv', ClaimsInv, HeldInv, HeldInv', LogsUnique, EvictionsKeepUp,
         NEW q \in Refs, NEW i \in Invs, WholePrint(q, i)
  PROVE  EvictionsKeepUp'
<1> DEFINE R == PrintRow(q)
           L == PrintLog(q, i)
           to == PrintTo(q)
<1>a. /\ pc' = pc /\ loc' = loc /\ row \in [Refs -> Row] /\ entries \in [Refs -> SUBSET Entry]
      /\ evicted \in [Refs -> Nat] /\ Cap \in Nat
      /\ \A r \in Refs : Claimed(row[r]) \in Nat /\ row[r].dropped \in Nat /\ evicted[r] \in Nat
      /\ \A c \in Clients : /\ loc[c].ref \in Refs /\ loc[c].first \in Nat /\ loc[c].to \in Nat
                            /\ pc[c] = "evict_delete" => loc[c].first <= loc[c].to
  BY CapTypes DEF WholePrint, WellTyped
<1>b. /\ R \in Row /\ R # NoRow /\ R.first \in Nat /\ R.next \in Nat /\ R.dropped = row[q].dropped
      /\ R.next = Claimed(row[q]) + 1 /\ Claimed(R) = R.next
      /\ \A e \in L : e.seq \in Nat /\ R.first <= e.seq
      /\ UniqueSeqs(L)
  BY PrintSpan
<1>c. OverCap(R.first, R.next) => to \in Nat /\ R.first <= to /\ to <= R.next /\ R.next - Cap <= to
  <2> HIDE DEF R
  <2> QED
    BY <1>b, NewFirstFacts, NewFirstCap DEF PrintTo, R
<1>d. OverCap(R.first, R.next) =>
        LET S == EvictRow(R, R.first, to)
        IN  S # NoRow /\ Claimed(S) = R.next /\ S.dropped = R.dropped + (to - R.first)
  <2> HIDE DEF R, to
  <2>1. CASE OverCap(R.first, R.next)
    <3>1. 1 <= R.next
      BY <1>a, <1>b
    <3>2. EvictRow(R, R.first, to) # NoRow /\ Claimed(EvictRow(R, R.first, to)) = Claimed(R)
      BY <1>b, <1>c, <2>1, <3>1, FirstKeepsClaims
    <3>3. EvictRow(R, R.first, to).dropped = R.dropped + (to - R.first)
      BY <1>b DEF EvictRow, Row
    <3> QED
      BY <1>b, <3>2, <3>3
  <2> QED
    BY <2>1
<1>e. \A r \in Refs : r # q => row'[r] = row[r] /\ entries'[r] = entries[r] /\ evicted'[r] = evicted[r]
  BY <1>a DEF WholePrint
<1>f. /\ ~OverCap(R.first, R.next) => row'[q] = R /\ entries'[q] = L /\ evicted'[q] = evicted[q]
      /\ OverCap(R.first, R.next) => /\ row'[q] = EvictRow(R, R.first, to) /\ entries'[q] = From(L, to)
                                     /\ evicted'[q] = evicted[q] + Cardinality(Below(L, to))
  BY <1>a DEF WholePrint
<1>g. row'[q] # NoRow /\ Claimed(row'[q]) = R.next /\ entries'[q] \subseteq L
  <2>1. From(L, to) \subseteq L
    BY DEF From
  <2> HIDE DEF R, L, to
  <2> QED
    BY <1>b, <1>d, <1>f, <2>1
<1>h. \A e \in entries'[q] : e.seq \in Nat /\ R.next - Cap <= e.seq
  <2> HIDE DEF R, L, to
  <2>1. CASE OverCap(R.first, R.next)
    BY <1>a, <1>b, <1>c, <1>f, <2>1 DEF From
  <2>2. CASE ~OverCap(R.first, R.next)
    BY <1>a, <1>b, <1>f, <2>2 DEF OverCap
  <2> QED
    BY <2>1, <2>2
<1>1. ASSUME NEW r \in Refs PROVE WithinCap(r)'
  <2> HIDE DEF R, L, to
  <2>1. CASE r = q
    BY <1>g, <1>h, <2>1 DEF WithinCap
  <2>2. CASE r # q
    BY <1>a, <1>e, <2>2 DEF WithinCap, EvictionsKeepUp
  <2> QED
    BY <2>1, <2>2
<1>2. ASSUME NEW c \in Clients
      PROVE  /\ pc'[c] = "copy_tx" => loc'[c].ref = CopyTo
             /\ pc'[c] \in Evicting => row'[loc'[c].ref] # NoRow
  <2> HIDE DEF R, L, to
  <2> QED
    BY <1>a, <1>e, <1>g DEF EvictionsKeepUp, EvictionsCount
<1>3. ASSUME NEW c \in Clients, pc'[c] = "evict_delete", NEW e \in entries'[loc'[c].ref]
      PROVE  loc'[c].first <= e.seq
  <2> HIDE DEF R, to
  <2>1. CASE loc[c].ref # q
    BY <1>a, <1>e, <1>3, <2>1 DEF EvictionsKeepUp, EvictionsCount
  <2>2. CASE loc[c].ref = q
    <3>1. e \in entries[q] \/ e.seq = Claimed(row[q])
      BY <1>a, <1>g, <1>3, <2>2 DEF PrintLog
    <3>2. loc[c].first <= loc[c].to /\ loc[c].to <= Claimed(row[q])
      BY <1>a, <1>3, <2>2 DEF HeldInv, ForgetsClaimed
    <3>3. e \in entries[q] => loc[c].first <= e.seq
      BY <1>a, <1>3, <2>2 DEF EvictionsKeepUp, EvictionsCount
    <3> QED
      BY <1>a, <3>1, <3>2, <3>3
  <2> QED
    BY <2>1, <2>2
<1>4. ASSUME NEW r \in Refs
      PROVE  IsFiniteSet(Owed(r)') /\ evicted'[r] <= row'[r].dropped + Cardinality(Owed(r)')
  <2>1. /\ IsFiniteSet(Owed(r)) /\ evicted[r] <= row[r].dropped + Cardinality(Owed(r))
        /\ Cardinality(Owed(r)) \in Nat
    BY FS_CardinalityType DEF EvictionsKeepUp, EvictionsCount
  <2>2. Owed(r)' = Owed(r)
    BY <1>a DEF Owed
  <2>3. CASE r # q
    BY <1>e, <2>1, <2>2, <2>3
  <2>4. CASE r = q /\ ~OverCap(R.first, R.next)
    <3> HIDE DEF R, L, to
    <3> QED
      BY <1>b, <1>f, <2>1, <2>2, <2>4
  <2>5. CASE r = q /\ OverCap(R.first, R.next)
    <3> DEFINE gone == Below(L, to)
    <3>1. UniqueSeqs(gone) /\ \A e \in gone : e.seq \in Int /\ R.first <= e.seq /\ e.seq < to
      BY <1>b DEF Below, UniqueSeqs
    <3>2. Cardinality(gone) \in Nat /\ Cardinality(gone) <= to - R.first
      <4> HIDE DEF gone, R, to
      <4> QED
        BY <1>b, <1>c, <2>5, <3>1, SpanBound
    <3>3. row'[q].dropped = row[q].dropped + (to - R.first)
      <4> HIDE DEF R, to
      <4> QED
        BY <1>b, <1>d, <1>f, <2>5
    <3>4. evicted'[q] = evicted[q] + Cardinality(gone)
      BY <1>f, <2>5
    <3> HIDE DEF gone, R, to, L
    <3> QED
      BY <1>a, <1>b, <1>c, <2>1, <2>2, <2>5, <3>2, <3>3, <3>4
  <2> QED
    BY <2>3, <2>4, <2>5
<1> QED
  BY <1>1, <1>2, <1>3, <1>4 DEF EvictionsKeepUp, EvictionsCount

\* A block lands behind everything that evictions are about to forget, and its
\* copy goes on to evict.
LEMMA WholeBlockStep ==
  ASSUME TypeInv, TypeInv', HeldInv, EvictionsKeepUp, NEW d \in Clients, WholeBlock(d)
  PROVE  EvictionsKeepUp'
<1> DEFINE n == Cardinality(loc[d].batch)
           new == Renumber(loc[d].batch, Claimed(row[CopyTo]))
<1>a. /\ row \in [Refs -> Row] /\ entries \in [Refs -> SUBSET Entry] /\ CopyTo \in Refs
      /\ evicted' = evicted /\ pc[d] = "copy_tx" /\ loc[d].ref = CopyTo
      /\ \A r \in Refs : Claimed(row[r]) \in Nat
      /\ \A c \in Clients : /\ loc[c].ref \in Refs /\ loc[c].first \in Nat /\ loc[c].to \in Nat
                            /\ pc[c] = "evict_delete" => loc[c].first <= loc[c].to
  BY CapTypes DEF WholeBlock, WellTyped, EvictionsKeepUp, EvictionsCount
<1>b. /\ pc'[d] = "evict_meta" /\ loc'[d].ref = CopyTo
      /\ \A c \in Clients : c # d => pc'[c] = pc[c] /\ loc'[c] = loc[c]
  <2> DEFINE l == [loc[d] EXCEPT !.batch = {}]
  <2>1. l.ref = loc[d].ref
    BY CapTypes DEF Loc
  <2>2. Goto(d, "evict_meta", l)
    BY DEF WholeBlock
  <2> HIDE DEF l
  <2> QED
    BY <1>a, <2>1, <2>2, CopyTypes DEF Goto
<1>c. \A r \in Refs : r # CopyTo => row'[r] = row[r] /\ entries'[r] = entries[r]
  BY <1>a DEF WholeBlock
<1>d. row'[CopyTo] = ClaimRow(row[CopyTo], n) /\ entries'[CopyTo] = entries[CopyTo] \union new
  BY <1>a DEF WholeBlock
<1>e. n \in Nat /\ \A e \in new : Claimed(row[CopyTo]) <= e.seq /\ e.seq \in Nat
  <2>1. loc[d].batch \in SUBSET Entry /\ IsFiniteSet(loc[d].batch)
    BY CapTypes DEF TypeInv, FiniteLogs, Loc
  <2>2. new \in SUBSET Entry /\ \A e \in new : Claimed(row[CopyTo]) <= e.seq
    BY <1>a, <2>1, RenumberFacts
  <2> QED
    BY <2>1, <2>2, FS_CardinalityType DEF Entry
<1>f. row'[CopyTo] # NoRow /\ row'[CopyTo].dropped = row[CopyTo].dropped
  <2>1. row[CopyTo] \in Row
    BY <1>a
  <2> HIDE DEF n
  <2>2. ClaimRow(row[CopyTo], n).dropped = row[CopyTo].dropped /\ ClaimRow(row[CopyTo], n).fresh = TRUE
    BY <2>1 DEF ClaimRow, NoRow, Row
  <2>3. NoRow.fresh = FALSE
    BY DEF NoRow
  <2> QED
    BY <1>d, <2>2, <2>3
<1> HIDE DEF n, new
<1>1. ASSUME NEW r \in Refs PROVE WithinCap(r)'
  <2>1. CASE r = CopyTo
    BY <1>b, <2>1 DEF WithinCap
  <2>2. CASE r # CopyTo
    <3>1. \A c \in Clients : loc[c].ref = r => c # d
      BY <1>a, <2>2
    <3> QED
      BY <1>b, <1>c, <2>2, <3>1 DEF WithinCap, EvictionsKeepUp
  <2> QED
    BY <2>1, <2>2
<1>2. ASSUME NEW c \in Clients
      PROVE  /\ pc'[c] = "copy_tx" => loc'[c].ref = CopyTo
             /\ pc'[c] \in Evicting => row'[loc'[c].ref] # NoRow
  <2>1. CASE c = d
    BY <1>b, <1>f, <2>1
  <2>2. CASE c # d
    BY <1>a, <1>b, <1>c, <1>f, <2>2 DEF EvictionsKeepUp, EvictionsCount
  <2> QED
    BY <2>1, <2>2
<1>3. ASSUME NEW c \in Clients, pc'[c] = "evict_delete", NEW e \in entries'[loc'[c].ref]
      PROVE  loc'[c].first <= e.seq
  <2>1. pc[c] = "evict_delete" /\ loc'[c] = loc[c]
    BY <1>b, <1>3
  <2>2. CASE loc[c].ref # CopyTo \/ e \in entries[loc[c].ref]
    BY <1>a, <1>c, <1>3, <2>1, <2>2 DEF EvictionsKeepUp, EvictionsCount
  <2>3. CASE loc[c].ref = CopyTo /\ e \in new
    <3>1. loc[c].first <= loc[c].to /\ loc[c].to <= Claimed(row[CopyTo])
      BY <1>a, <2>1, <2>3 DEF HeldInv, ForgetsClaimed
    <3> QED
      BY <1>a, <1>e, <2>1, <2>3, <3>1
  <2> QED
    BY <1>d, <1>3, <2>1, <2>2, <2>3
<1>4. ASSUME NEW r \in Refs
      PROVE  IsFiniteSet(Owed(r)') /\ evicted'[r] <= row'[r].dropped + Cardinality(Owed(r)')
  <2>1. \A c \in Clients : (pc[c] = "evict_update" \/ pc'[c] = "evict_update") => c # d
    BY <1>a, <1>b
  <2>2. Owed(r)' = Owed(r)
    BY <1>b, <2>1 DEF Owed
  <2> QED
    BY <1>a, <1>c, <1>f, <2>2 DEF EvictionsKeepUp, EvictionsCount
<1> QED
  BY <1>1, <1>2, <1>3, <1>4 DEF EvictionsKeepUp, EvictionsCount

\* An eviction that reads the counters finds the log within the cap, or will
\* trim it to the cap.
LEMMA EvictMetaStep ==
  ASSUME HeldCursor, TypeInv, TypeInv', HeldInv, EvictionsKeepUp, NEW d \in Clients, EvictMeta(d)
  PROVE  EvictionsKeepUp'
<1> DEFINE q == loc[d].ref
           R == row[q]
           m == [loc[d] EXCEPT !.first = R.first, !.to = NewFirst(R.first, R.next)]
<1>a. /\ row' = row /\ entries' = entries /\ evicted' = evicted /\ pc[d] = "evict_meta"
      /\ pc \in [Clients -> Labels] /\ loc \in [Clients -> Loc]
      /\ q \in Refs /\ R \in Row /\ R.first \in Nat /\ R.next \in Nat /\ R # NoRow /\ Cap \in Nat
      /\ \A e \in entries[q] : e.seq \in Nat /\ R.first <= e.seq
  BY CapTypes DEF EvictMeta, At, WellTyped, EvictionsKeepUp, EvictionsCount, Evicting, HeldInv, RetainedAboveFirst
<1>b. m.ref = q /\ m.first = R.first /\ m.to = NewFirst(R.first, R.next)
  BY <1>a DEF Loc
<1>c. \/ OverCap(R.first, R.next) /\ Goto(d, "evict_delete", m)
      \/ ~OverCap(R.first, R.next) /\ Goto(d, "idle", NoLoc)
  BY DEF EvictMeta, Return
<1>d. \A c \in Clients : c # d => pc'[c] = pc[c] /\ loc'[c] = loc[c]
  BY <1>a, <1>c DEF Goto
<1>e. \/ /\ OverCap(R.first, R.next) /\ pc'[d] = "evict_delete"
         /\ loc'[d].ref = q /\ loc'[d].first = R.first /\ loc'[d].to = NewFirst(R.first, R.next)
      \/ ~OverCap(R.first, R.next) /\ pc'[d] = "idle"
  <2> HIDE DEF m
  <2> QED
    BY <1>a, <1>b, <1>c DEF Goto
<1>1. ASSUME NEW r \in Refs PROVE WithinCap(r)'
  <2>1. CASE r # q
    <3>1. \A c \in Clients : loc[c].ref = r => c # d
      BY <2>1
    <3> QED
      BY <1>a, <1>d, <2>1, <3>1 DEF WithinCap, EvictionsKeepUp
  <2>2. CASE r = q /\ OverCap(R.first, R.next)
    <3>1. R.next - Cap <= NewFirst(R.first, R.next) /\ Claimed(R) = R.next
      BY <1>a, <2>2, NewFirstCap DEF Claimed
    <3> QED
      BY <1>a, <1>e, <2>2, <3>1 DEF WithinCap
  <2>3. CASE r = q /\ ~OverCap(R.first, R.next)
    <3>1. R.next - Cap <= R.first /\ Claimed(R) = R.next
      BY <1>a, <2>3 DEF OverCap, Claimed
    <3>2. \A e \in entries'[q] : Claimed(row'[q]) - Cap <= e.seq
      BY <1>a, <3>1
    <3> QED
      BY <2>3, <3>2 DEF WithinCap
  <2> QED
    BY <2>1, <2>2, <2>3
<1>2. ASSUME NEW c \in Clients
      PROVE  /\ pc'[c] = "copy_tx" => loc'[c].ref = CopyTo
             /\ pc'[c] \in Evicting => row'[loc'[c].ref] # NoRow
             /\ pc'[c] = "evict_delete" => \A e \in entries'[loc'[c].ref] : loc'[c].first <= e.seq
  <2>1. CASE c = d
    BY <1>a, <1>e, <2>1 DEF Evicting
  <2>2. CASE c # d
    BY <1>a, <1>d, <2>2 DEF EvictionsKeepUp, EvictionsCount
  <2> QED
    BY <2>1, <2>2
<1>4. ASSUME NEW r \in Refs
      PROVE  IsFiniteSet(Owed(r)') /\ evicted'[r] <= row'[r].dropped + Cardinality(Owed(r)')
  <2>1. \A c \in Clients : (pc[c] = "evict_update" \/ pc'[c] = "evict_update") => c # d
    BY <1>a, <1>e
  <2>2. Owed(r)' = Owed(r)
    BY <1>d, <2>1 DEF Owed
  <2> QED
    BY <1>a, <2>2 DEF EvictionsKeepUp, EvictionsCount
<1> QED
  BY <1>1, <1>2, <1>4 DEF EvictionsKeepUp, EvictionsCount

\* What one eviction owes.
OwedBy(c) == {c} \X (loc[c].first .. (loc[c].to - 1))

\* It owes as many as lie between the two seqs it read.
LEMMA OwedByCounts ==
  ASSUME NEW c \in Clients, loc[c].first \in Nat, loc[c].to \in Nat, loc[c].first <= loc[c].to
  PROVE  IsFiniteSet(OwedBy(c)) /\ Cardinality(OwedBy(c)) = loc[c].to - loc[c].first
<1> DEFINE a == loc[c].first
           b == loc[c].to
           T == a .. (b - 1)
<1> HIDE DEF a, b
<1>a. a \in Nat /\ b \in Nat /\ a <= b
  BY DEF a, b
<1>1. IsFiniteSet(T) /\ Cardinality(T) = b - a
  <2>1. b - 1 \in Int /\ a \in Int /\ (a > b - 1 => b - a = 0) /\ b - 1 - a + 1 = b - a
    BY <1>a
  <2>2. IsFiniteSet(T) /\ Cardinality(T) = IF a > b - 1 THEN 0 ELSE b - 1 - a + 1
    BY <2>1, FS_Interval
  <2> HIDE DEF T
  <2> QED
    BY <2>1, <2>2
<1>2. IsFiniteSet({c}) /\ Cardinality({c}) = 1
  BY FS_Singleton
<1>3. IsFiniteSet({c} \X T) /\ Cardinality({c} \X T) = 1 * (b - a)
  <2> HIDE DEF T
  <2> QED
    BY <1>1, <1>2, FS_Product
<1>4. 1 * (b - a) = b - a
  BY <1>a
<1> QED
  BY <1>3, <1>4 DEF OwedBy, a, b

\* What an eviction deletes, from the first seq it read, it owes.
LEMMA EvictDeleteStep ==
  ASSUME TypeInv, TypeInv', LogsUnique, EvictionsKeepUp, NEW d \in Clients, EvictDelete(d)
  PROVE  EvictionsKeepUp'
<1> DEFINE q == loc[d].ref
           to == loc[d].to
           first == loc[d].first
           gone == Below(entries[q], to)
<1>a. /\ row' = row /\ pc[d] = "evict_delete" /\ pc'[d] = "evict_update" /\ loc' = loc
      /\ \A c \in Clients : c # d => pc'[c] = pc[c]
      /\ q \in Refs /\ first \in Nat /\ to \in Nat /\ first <= to
      /\ \A e \in entries[q] : e.seq \in Nat /\ first <= e.seq
      /\ UniqueSeqs(entries[q]) /\ evicted[q] \in Nat
  <2>1. row' = row /\ pc[d] = "evict_delete" /\ Goto(d, "evict_update", loc[d])
    BY DEF EvictDelete, At
  <2>2. loc' = loc /\ pc'[d] = "evict_update" /\ \A c \in Clients : c # d => pc'[c] = pc[c]
    BY <2>1, CopyTypes DEF Goto
  <2> QED
    BY <2>1, <2>2, CapTypes DEF WellTyped, EvictionsKeepUp, EvictionsCount, LogsUnique
<1>b. /\ \A r \in Refs : r # q => entries'[r] = entries[r] /\ evicted'[r] = evicted[r]
      /\ entries'[q] = From(entries[q], to) /\ evicted'[q] = evicted[q] + Cardinality(gone)
  BY <1>a, CapTypes DEF EvictDelete, WellTyped
<1>c. \A r \in Refs : entries'[r] \subseteq entries[r]
  BY <1>b DEF From
<1>d. Cardinality(gone) \in Nat /\ Cardinality(gone) <= to - first
  <2>1. UniqueSeqs(gone) /\ \A e \in gone : e.seq \in Int /\ first <= e.seq /\ e.seq < to
    BY <1>a DEF Below, UniqueSeqs
  <2>2. first \in Int /\ to \in Int
    BY <1>a
  <2> HIDE DEF gone, first, to
  <2> QED
    BY <1>a, <2>1, <2>2, SpanBound
<1>1. ASSUME NEW r \in Refs PROVE WithinCap(r)'
  <2>1. CASE r = q /\ Claimed(row[r]) - Cap <= to
    <3>1. \A e \in entries'[q] : e.seq \in Nat /\ to <= e.seq
      BY <1>a, <1>b DEF From
    <3>2. Claimed(row[q]) \in Nat /\ Cap \in Nat
      BY <1>a, CapTypes DEF WellTyped
    <3>3. \A e \in entries'[q] : Claimed(row'[q]) - Cap <= e.seq
      BY <1>a, <2>1, <3>1, <3>2
    <3> QED
      BY <2>1, <3>3 DEF WithinCap
  <2>2. CASE \A e \in entries[r] : Claimed(row[r]) - Cap <= e.seq
    BY <1>a, <1>c, <2>2 DEF WithinCap
  <2>3. ASSUME NEW c \in Clients, loc[c].ref = r, c # d,
               \/ pc[c] = "evict_meta"
               \/ pc[c] = "evict_delete" /\ Claimed(row[r]) - Cap <= loc[c].to
        PROVE  WithinCap(r)'
    BY <1>a, <2>3 DEF WithinCap
  <2> QED
    BY <1>a, <2>1, <2>2, <2>3 DEF WithinCap, EvictionsKeepUp
<1>2. ASSUME NEW c \in Clients
      PROVE  /\ pc'[c] = "copy_tx" => loc'[c].ref = CopyTo
             /\ pc'[c] \in Evicting => row'[loc'[c].ref] # NoRow
             /\ pc'[c] = "evict_delete" => \A e \in entries'[loc'[c].ref] : loc'[c].first <= e.seq
  <2>1. loc[c].ref \in Refs
    BY CapTypes DEF WellTyped
  <2>2. pc'[c] = "copy_tx" \/ pc'[c] = "evict_delete" => pc[c] = pc'[c]
    BY <1>a
  <2>3. pc'[c] \in Evicting => pc[c] \in Evicting
    BY <1>a DEF Evicting
  <2> QED
    BY <1>a, <1>c, <2>1, <2>2, <2>3 DEF EvictionsKeepUp, EvictionsCount
<1>4. ASSUME NEW r \in Refs
      PROVE  IsFiniteSet(Owed(r)') /\ evicted'[r] <= row'[r].dropped + Cardinality(Owed(r)')
  <2>1. /\ IsFiniteSet(Owed(r)) /\ evicted[r] <= row[r].dropped + Cardinality(Owed(r))
        /\ Cardinality(Owed(r)) \in Nat /\ evicted[r] \in Nat /\ row[r].dropped \in Nat
    BY FS_CardinalityType, CapTypes DEF EvictionsKeepUp, EvictionsCount
  <2>2. CASE r # q
    <3>1. Owed(r)' = Owed(r)
      BY <1>a, <2>2 DEF Owed
    <3> QED
      BY <1>a, <1>b, <2>1, <2>2, <3>1
  <2>3. CASE r = q
    <3>1. Owed(r)' = Owed(r) \cup OwedBy(d)
      <4>1. ASSUME NEW p \in Owed(r)' PROVE p \in Owed(r) \cup OwedBy(d)
        <5>1. /\ p \in Clients \X Nat /\ pc'[p[1]] = "evict_update" /\ loc[p[1]].ref = r
              /\ loc[p[1]].first <= p[2] /\ p[2] < loc[p[1]].to
          BY <1>a, <2>3, <4>1 DEF Owed
        <5>2. CASE p[1] = d
          BY <1>a, <5>1, <5>2 DEF OwedBy
        <5>3. CASE p[1] # d
          BY <1>a, <2>3, <5>1, <5>3 DEF Owed
        <5> QED
          BY <5>2, <5>3
      <4>2. ASSUME NEW p \in OwedBy(d) PROVE p \in Owed(r)'
        <5>1. p \in Clients \X Nat /\ p[1] = d /\ first <= p[2] /\ p[2] < to
          BY <1>a, <4>2 DEF OwedBy
        <5> QED
          BY <1>a, <2>3, <5>1 DEF Owed
      <4>3. ASSUME NEW p \in Owed(r) PROVE p \in Owed(r)'
        BY <1>a, <4>3 DEF Owed
      <4> QED
        BY <4>1, <4>2, <4>3
    <3>2. Owed(r) \cap OwedBy(d) = {}
      BY <1>a DEF Owed, OwedBy
    <3>3. IsFiniteSet(OwedBy(d)) /\ Cardinality(OwedBy(d)) = to - first
      BY <1>a, OwedByCounts
    <3>4. IsFiniteSet(Owed(r)') /\ Cardinality(Owed(r)') = Cardinality(Owed(r)) + (to - first)
      <4> DEFINE had == Owed(r)
                 owe == OwedBy(d)
      <4> HIDE DEF had, owe
      <4>1. /\ IsFiniteSet(had \cup owe)
            /\ Cardinality(had \cup owe) = Cardinality(had) + Cardinality(owe) - Cardinality(had \cap owe)
        BY <2>1, <2>3, <3>3, FS_Union DEF had, owe
      <4>2. Cardinality(had \cap owe) = 0 /\ Cardinality(had) \in Nat /\ Cardinality(owe) = to - first
        BY <2>1, <2>3, <3>2, <3>3, FS_EmptySet DEF had, owe
      <4>3. Owed(r)' = had \cup owe
        BY <3>1 DEF had, owe
      <4>4. Cardinality(had \cup owe) = Cardinality(had) + (to - first)
        <5> HIDE DEF to, first
        <5> QED
          BY <1>a, <4>1, <4>2
      <4> QED
        BY <4>1, <4>3, <4>4 DEF had
    <3>5. /\ evicted'[r] = evicted[r] + Cardinality(gone) /\ row'[r].dropped = row[r].dropped
          /\ evicted[r] <= row[r].dropped + Cardinality(Owed(r))
      BY <1>a, <1>b, <2>1, <2>3
    <3>6. to \in Nat /\ first \in Nat
      BY <1>a
    <3> HIDE DEF to, first, gone
    <3> QED
      BY <1>d, <2>1, <3>4, <3>5, <3>6
  <2> QED
    BY <2>2, <2>3
<1> QED
  BY <1>1, <1>2, <1>4 DEF EvictionsKeepUp, EvictionsCount

\* The counters' update pays what its eviction owes.
LEMMA EvictUpdateStep ==
  ASSUME TypeInv, TypeInv', ClaimsInv, EvictionsKeepUp, NEW d \in Clients, EvictUpdate(d)
  PROVE  EvictionsKeepUp'
<1> DEFINE q == loc[d].ref
           to == loc[d].to
           first == loc[d].first
           S == EvictRow(row[q], first, to)
<1>a. /\ entries' = entries /\ evicted' = evicted /\ pc[d] = "evict_update" /\ pc'[d] = "idle"
      /\ \A c \in Clients : c # d => pc'[c] = pc[c] /\ loc'[c] = loc[c]
      /\ q \in Refs /\ first \in Nat /\ to \in Nat /\ first <= to
      /\ row[q] \in Row /\ row[q] # NoRow /\ 1 <= row[q].next /\ row[q].dropped \in Nat
  <2>1. pc[d] = "evict_update" /\ Goto(d, "idle", NoLoc)
    BY DEF EvictUpdate, Return, At
  <2>2. pc'[d] = "idle" /\ \A c \in Clients : c # d => pc'[c] = pc[c] /\ loc'[c] = loc[c]
    BY <2>1, CopyTypes DEF Goto
  <2>3. q \in Refs /\ row[q] \in Row /\ row[q].dropped \in Nat
    BY CapTypes DEF WellTyped
  <2>4. row[q] # NoRow
    BY <2>1 DEF EvictionsKeepUp, EvictionsCount, Evicting
  <2> QED
    BY <2>1, <2>2, <2>3, <2>4, CapTypes DEF EvictUpdate, WellTyped, ClaimsInv, RowsStay
<1>b. \A r \in Refs : r # q => row'[r] = row[r]
  BY <1>a, CapTypes DEF EvictUpdate, WellTyped
<1>c. row'[q] = S
  BY <1>a, CapTypes DEF EvictUpdate, WellTyped
<1>d. S # NoRow /\ Claimed(S) = Claimed(row[q]) /\ S.dropped = row[q].dropped + (to - first)
  <2>1. S # NoRow /\ Claimed(S) = Claimed(row[q])
    BY <1>a, FirstKeepsClaims
  <2>2. S.dropped = row[q].dropped + (to - first)
    BY <1>a DEF EvictRow, Row
  <2> QED
    BY <2>1, <2>2
<1>e. \A r \in Refs : Claimed(row'[r]) = Claimed(row[r]) /\ (row[r] # NoRow => row'[r] # NoRow)
  <2> HIDE DEF S
  <2> QED
    BY <1>b, <1>c, <1>d
<1>1. ASSUME NEW r \in Refs PROVE WithinCap(r)'
  <2>1. \A c \in Clients : pc[c] = "evict_meta" \/ pc[c] = "evict_delete" => c # d
    BY <1>a
  <2> QED
    BY <1>a, <1>e, <2>1 DEF EvictionsKeepUp, WithinCap
<1>2. ASSUME NEW c \in Clients
      PROVE  /\ pc'[c] = "copy_tx" => loc'[c].ref = CopyTo
             /\ pc'[c] \in Evicting => row'[loc'[c].ref] # NoRow
             /\ pc'[c] = "evict_delete" => \A e \in entries'[loc'[c].ref] : loc'[c].first <= e.seq
  <2>1. CASE c = d
    BY <1>a, <2>1 DEF Evicting
  <2>2. CASE c # d
    <3>1. loc[c].ref \in Refs /\ pc'[c] = pc[c] /\ loc'[c] = loc[c]
      BY <1>a, <2>2, CapTypes DEF WellTyped
    <3> QED
      BY <1>a, <1>e, <3>1 DEF EvictionsKeepUp, EvictionsCount
  <2> QED
    BY <2>1, <2>2
<1>4. ASSUME NEW r \in Refs
      PROVE  IsFiniteSet(Owed(r)') /\ evicted'[r] <= row'[r].dropped + Cardinality(Owed(r)')
  <2>1. /\ IsFiniteSet(Owed(r)) /\ evicted[r] <= row[r].dropped + Cardinality(Owed(r))
        /\ Cardinality(Owed(r)) \in Nat /\ evicted[r] \in Nat /\ row[r].dropped \in Nat
    BY FS_CardinalityType, CapTypes DEF EvictionsKeepUp, EvictionsCount
  <2>2. CASE r # q
    <3>1. Owed(r)' = Owed(r)
      <4>1. ASSUME NEW p \in Clients \X Nat PROVE p \in Owed(r)' <=> p \in Owed(r)
        <5>1. CASE p[1] = d
          BY <1>a, <2>2, <5>1 DEF Owed
        <5>2. CASE p[1] # d
          BY <1>a, <5>2 DEF Owed
        <5> QED
          BY <5>1, <5>2
      <4> QED
        BY <4>1 DEF Owed
    <3> QED
      BY <1>a, <1>b, <2>1, <2>2, <3>1
  <2>3. CASE r = q
    <3> DEFINE left == Owed(r)'
               owe == OwedBy(d)
    <3>1. Owed(r) = Owed(r)' \cup OwedBy(d)
      <4>1. ASSUME NEW p \in Clients \X Nat, p[1] # d PROVE p \in Owed(r)' <=> p \in Owed(r)
        BY <1>a, <4>1 DEF Owed
      <4>2. ASSUME NEW p \in Clients \X Nat, p[1] = d PROVE p \in Owed(r) <=> p \in OwedBy(d)
        BY <1>a, <2>3, <4>2 DEF Owed, OwedBy
      <4>3. ASSUME NEW p \in Owed(r)' PROVE p \in Clients \X Nat /\ p[1] # d
        BY <1>a, <4>3 DEF Owed
      <4>4. ASSUME NEW p \in OwedBy(d) PROVE p \in Clients \X Nat /\ p[1] = d
        BY <1>a, <4>4 DEF OwedBy
      <4>5. Owed(r) \subseteq Clients \X Nat
        BY DEF Owed
      <4> QED
        BY <4>1, <4>2, <4>3, <4>4, <4>5
    <3>2. Owed(r)' \cap OwedBy(d) = {}
      BY <1>a DEF Owed, OwedBy
    <3>3. IsFiniteSet(OwedBy(d)) /\ Cardinality(OwedBy(d)) = to - first
      BY <1>a, OwedByCounts
    <3>4. /\ IsFiniteSet(Owed(r)') /\ Cardinality(Owed(r)') \in Nat
          /\ Cardinality(Owed(r)) = Cardinality(Owed(r)') + (to - first)
      <4>1. left \in SUBSET Owed(r)
        BY <3>1
      <4> HIDE DEF left, owe
      <4>2. IsFiniteSet(left) /\ Cardinality(left) \in Nat
        BY <2>1, <4>1, FS_Subset, FS_CardinalityType
      <4>3. /\ IsFiniteSet(left \cup owe)
            /\ Cardinality(left \cup owe) = Cardinality(left) + Cardinality(owe) - Cardinality(left \cap owe)
        BY <3>3, <4>2, FS_Union DEF owe
      <4>4. Cardinality(left \cap owe) = 0 /\ Cardinality(owe) = to - first
        BY <3>2, <3>3, FS_EmptySet DEF left, owe
      <4>5. Owed(r) = left \cup owe
        BY <3>1 DEF left, owe
      <4>6. Cardinality(left \cup owe) = Cardinality(left) + (to - first)
        <5>1. to \in Nat /\ first \in Nat
          BY <1>a
        <5> HIDE DEF to, first
        <5> QED
          BY <4>2, <4>3, <4>4, <5>1
      <4>7. IsFiniteSet(left) /\ Cardinality(left) \in Nat /\ Cardinality(Owed(r)) = Cardinality(left) + (to - first)
        BY <4>2, <4>5, <4>6
      <4> QED
        BY <4>7 DEF left
    <3>5. evicted'[r] = evicted[r] /\ row'[r].dropped = row[r].dropped + (to - first)
      BY <1>a, <1>c, <1>d, <2>3
    <3>6. to \in Nat /\ first \in Nat
      BY <1>a
    <3> HIDE DEF to, first, left, owe
    <3> QED
      BY <2>1, <3>4, <3>5, <3>6
  <2> QED
    BY <2>2, <2>3
<1> QED
  BY <1>1, <1>2, <1>4 DEF EvictionsKeepUp, EvictionsCount

\* The end of a sweep finds no eviction under way.
LEMMA SweepRowStep ==
  ASSUME TypeInv, TypeInv', ClaimsInv, EvictionsKeepUp, NEW d \in Clients, SweepRow(d)
  PROVE  EvictionsKeepUp'
<1> DEFINE q == loc[d].ref
<1>a. /\ entries' = entries /\ entries[q] = {} /\ pc[d] = "sweep_row"
      /\ \A c \in Clients : c # d => pc[c] = "idle"
  BY DEF SweepRow, At, ClaimsInv, SweepIsAlone, Sweeping
<1>b. /\ q \in Refs /\ row'[q] = NoRow /\ evicted'[q] = 0
      /\ \A r \in Refs : r # q => row'[r] = row[r] /\ evicted'[r] = evicted[r]
  BY CapTypes DEF SweepRow, WellTyped
<1>c. \A c \in Clients : pc'[c] \in {"idle", "sweep_entries"}
  BY <1>a, CopyTypes DEF SweepRow, Goto, Return
<1>1. ASSUME NEW r \in Refs PROVE WithinCap(r)'
  <2>1. CASE r = q
    BY <1>a, <2>1 DEF WithinCap
  <2>2. CASE r # q
    <3>1. \A c \in Clients : pc[c] \notin {"evict_meta", "evict_delete"}
      BY <1>a
    <3>2. \A e \in entries[r] : Claimed(row[r]) - Cap <= e.seq
      BY <3>1 DEF EvictionsKeepUp, WithinCap
    <3> QED
      BY <1>a, <1>b, <2>2, <3>2 DEF WithinCap
  <2> QED
    BY <2>1, <2>2
<1>2. ASSUME NEW r \in Refs
      PROVE  IsFiniteSet(Owed(r)') /\ evicted'[r] <= row'[r].dropped + Cardinality(Owed(r)')
  <2>1. Owed(r) = {} /\ Owed(r)' = {}
    <3>1. \A c \in Clients : pc[c] # "evict_update" /\ pc'[c] # "evict_update"
      BY <1>a, <1>c
    <3> QED
      BY <3>1 DEF Owed
  <2>2. IsFiniteSet({}) /\ Cardinality({}) = 0 /\ NoRow.dropped = 0
    BY FS_EmptySet DEF NoRow
  <2>3. evicted[r] <= row[r].dropped + Cardinality(Owed(r))
    BY DEF EvictionsKeepUp, EvictionsCount
  <2> QED
    BY <1>b, <2>1, <2>2, <2>3
<1> QED
  BY <1>1, <1>2, <1>c DEF EvictionsKeepUp, EvictionsCount, Evicting

\* Seqs are unique in every reachable state.
LEMMA ConsoleLogsUnique ==
  ASSUME HeldCursor, "sweep" \in Ops => SweepAlone
  PROVE  Spec => []LogsUnique
<1>1. Init => LogsUnique
  BY DEF Init, LogsUnique, UniqueSeqs, NoLoc
<1>2. ClaimsInv /\ HeldInv /\ LogsUnique /\ [Next]_vars => LogsUnique'
  BY LogsUniqueStep DEF HeldInv
<1> QED
  BY <1>1, <1>2, ConsoleClaimsInv, ConsoleHeldInv, PTL DEF Spec

\* What evictions leave and count, in every reachable state of a console whose
\* operations do not fail.
LEMMA ConsoleEvictions ==
  ASSUME HeldCursor, "sweep" \in Ops => SweepAlone
  PROVE  Spec => [](faults = 0 => EvictionsKeepUp)
<1> DEFINE Inv == faults = 0 => EvictionsKeepUp
<1>1. Init => Inv
  <2> SUFFICES ASSUME Init PROVE Inv
    OBVIOUS
  <2>1. \A r \in Refs : Owed(r) = {} /\ evicted[r] = 0 /\ row[r] = NoRow
    BY DEF Init, Owed
  <2>2. IsFiniteSet({}) /\ Cardinality({}) = 0 /\ NoRow.dropped = 0
    BY FS_EmptySet DEF NoRow
  <2>3. EvictionsCount
    <3>1. \A c \in Clients : pc[c] \notin Evicting /\ pc[c] # "copy_tx" /\ pc[c] # "evict_delete"
      BY DEF Init, Evicting
    <3>2. ASSUME NEW r \in Refs
          PROVE  IsFiniteSet(Owed(r)) /\ evicted[r] <= row[r].dropped + Cardinality(Owed(r))
      <4>1. Owed(r) = {} /\ evicted[r] = 0 /\ row[r].dropped = 0
        BY <2>1, <2>2
      <4>2. IsFiniteSet(Owed(r)) /\ Cardinality(Owed(r)) = 0
        BY <4>1, <2>2
      <4> QED
        BY <4>1, <4>2
    <3> QED
      BY <3>1, <3>2 DEF EvictionsCount
  <2>4. \A r \in Refs : WithinCap(r)
    BY DEF Init, WithinCap
  <2> QED
    BY <2>3, <2>4 DEF EvictionsKeepUp
<1>2. /\ ClaimsInv /\ HeldInv /\ LogsUnique /\ Inv /\ ClaimsInv' /\ HeldInv' /\ [Next]_vars
      => Inv'
  <2> SUFFICES ASSUME ClaimsInv, HeldInv, LogsUnique, Inv, ClaimsInv', HeldInv', [Next]_vars, faults' = 0
               PROVE  EvictionsKeepUp'
    OBVIOUS
  <2>1. TypeInv /\ TypeInv'
    BY DEF ClaimsInv
  <2>2. faults' = faults
    <3>1. faults \in Nat /\ (faults' = faults \/ faults' = faults + 1)
      BY <2>1, FaultsGrow DEF TypeInv, TypeOK
    <3> QED
      BY <3>1
  <2>3. EvictionsKeepUp /\ EvictionsCount
    BY <2>2 DEF EvictionsKeepUp
  <2> QED
    BY <2>1, <2>2, <2>3, EvictionMoves, QuietStep, WholePrintStep, WholeBlockStep, EvictMetaStep,
       EvictDeleteStep, EvictUpdateStep, SweepRowStep
<1> HIDE DEF Inv
<1>3. Spec => []Inv
  BY <1>1, <1>2, ConsoleClaimsInv, ConsoleHeldInv, ConsoleLogsUnique, PTL DEF Spec
<1> QED
  BY <1>3 DEF Inv

\* When every operation has run to its end and none has failed, no console
\* holds more than the cap (console.rs:594-618): prints evict in the transaction
\* that claims, a block copy is followed by an eviction, and the evictions of
\* different clients, working from counters that have moved on, still leave no
\* more than the cap between them.
THEOREM ConsoleBoundedRetention ==
  ASSUME "sweep" \in Ops => SweepAlone
  PROVE  Spec => []BoundedRetention
<1>1. ASSUME HeldCursor
      PROVE  ClaimsInv /\ LogsUnique /\ (faults = 0 => EvictionsKeepUp) => BoundedRetention
  <2> SUFFICES ASSUME ClaimsInv, LogsUnique, EvictionsKeepUp, Quiescent, NEW r \in Refs
               PROVE  Cardinality(entries[r]) <= Cap
    BY DEF BoundedRetention
  <2>1. \A c \in Clients : pc[c] = "idle"
    BY DEF Quiescent, At
  <2>2. \A e \in entries[r] : Claimed(row[r]) - Cap <= e.seq
    BY <2>1 DEF EvictionsKeepUp, WithinCap
  <2>3. /\ Claimed(row[r]) \in Int /\ Cap \in Nat /\ UniqueSeqs(entries[r])
        /\ \A e \in entries[r] : e.seq \in Int /\ e.seq < Claimed(row[r])
    BY CapTypes DEF ClaimsInv, ClaimsAreFresh, WellTyped, LogsUnique
  <2> DEFINE a == Claimed(row[r]) - Cap
             b == Claimed(row[r])
  <2>4. a \in Int /\ b \in Int /\ a <= b /\ b - a = Cap
    BY <2>3
  <2>5. \A e \in entries[r] : e.seq \in Int /\ a <= e.seq /\ e.seq < b
    BY <2>2, <2>3
  <2> HIDE DEF a, b
  <2> QED
    BY <2>3, <2>4, <2>5, SpanBound
<1>2. CASE HeldCursor
  BY <1>1, <1>2, ConsoleClaimsInv, ConsoleLogsUnique, ConsoleEvictions, PTL
<1>3. CASE ~HeldCursor
  <2>1. BoundedRetention
    BY <1>3 DEF BoundedRetention
  <2> QED
    BY <2>1, PTL
<1> QED
  BY <1>2, <1>3

\* Under the same conditions `dropped` (console.rs:103) never says fewer than
\* were evicted, whatever stale counters the evictions worked from.
THEOREM ConsoleDroppedNeverUndercounts ==
  ASSUME "sweep" \in Ops => SweepAlone
  PROVE  Spec => []DroppedNeverUndercounts
<1>1. ClaimsInv /\ (faults = 0 => EvictionsKeepUp) => DroppedNeverUndercounts
  <2> SUFFICES ASSUME ClaimsInv, EvictionsKeepUp, Quiescent, NEW r \in Refs
               PROVE  evicted[r] <= row[r].dropped
    BY DEF DroppedNeverUndercounts
  <2>1. Owed(r) = {}
    BY DEF Quiescent, At, Owed
  <2>2. evicted[r] <= row[r].dropped + 0
    BY <2>1, FS_EmptySet DEF EvictionsKeepUp, EvictionsCount
  <2>3. row[r].dropped \in Nat
    BY CapTypes DEF ClaimsInv
  <2> QED
    BY <2>2, <2>3
<1>2. CASE HeldCursor
  BY <1>1, <1>2, ConsoleClaimsInv, ConsoleEvictions, PTL
<1>3. CASE ~HeldCursor
  <2>1. DroppedNeverUndercounts
    BY <1>3 DEF DroppedNeverUndercounts
  <2> QED
    BY <2>1, PTL
<1> QED
  BY <1>2, <1>3

----------------------------------------------------------------------------
(* What the TTL sweep may drop.                                               *)

\* What a sweep is about to drop has expired, and nobody writes meanwhile.
SweepsExpired ==
  \A c \in Clients : Sweeping(c) =>
    /\ \A r \in loc[c].todo : ~row[r].fresh
    /\ At(c, "sweep_row") => ~row[loc[c].ref].fresh

\* Only the end of a sweep takes a console away.
LEMMA RowsRemain ==
  ASSUME TypeInv, RowsStay, [Next]_vars, \A c \in Clients : ~SweepRow(c), NEW r \in Refs, row[r] # NoRow
  PROVE  row'[r] # NoRow
<1>a. /\ row \in [Refs -> Row] /\ row[r] \in Row /\ 1 <= row[r].next
      /\ Claimed(row[r]) \in Nat /\ 1 <= Claimed(row[r]) /\ NoRow.next = 0
      /\ \A c \in Clients : loc[c].ref \in Refs /\ loc[c].to \in Nat /\ loc[c].first \in Nat
  BY Typed DEF WellTyped, RowsStay, Claimed, NoRow, Row
<1>b. ASSUME row'[r].next \in Nat, 1 <= row'[r].next
      PROVE  row'[r] # NoRow
  BY <1>a, <1>b
<1>1. ASSUME NEW n \in Nat
      PROVE  ClaimRow(row[r], n).next \in Nat /\ 1 <= ClaimRow(row[r], n).next
  <2>1. ClaimRow(row[r], n).next = Claimed(row[r]) + n
    BY <1>a, ClaimFacts
  <2> QED
    BY <1>a, <2>1
<1>2. ASSUME NEW c \in Clients, NEW q \in Refs, NEW i \in Invs, PrintClaim(c, q, i)
      PROVE  row'[r] # NoRow
  <2>1. row'[r] = row[r] \/ row'[r] = ClaimRow(row[r], 1)
    BY <1>2, <1>a DEF PrintClaim
  <2> QED
    BY <1>1, <1>b, <2>1
<1>3. ASSUME NEW c \in Clients, NEW q \in Refs, NEW i \in Invs, NEW done \in 1 .. 4, PrintTx(c, q, i, done)
      PROVE  row'[r] # NoRow
  <2>1. \/ row'[r] = row[r]
        \/ row'[r] = PrintRow(r)
        \/ row'[r] = EvictRow(PrintRow(r), PrintRow(r).first, PrintTo(r))
    BY <1>3, <1>a, PrintTxEffect
  <2>2. PrintRow(r).next \in Nat /\ 1 <= PrintRow(r).next /\ PrintRow(r) \in Row
    BY <1>1, <1>a, ClaimOne DEF PrintRow
  <2>3. EvictRow(PrintRow(r), PrintRow(r).first, PrintTo(r)).next = PrintRow(r).next
    BY <2>2 DEF EvictRow, Row
  <2> QED
    BY <1>b, <2>1, <2>2, <2>3
<1>4. ASSUME NEW c \in Clients, CopyTx(c)
      PROVE  row'[r] # NoRow
  <2> DEFINE n == Cardinality(loc[c].batch)
  <2>1. n \in Nat
    BY FS_CardinalityType DEF TypeInv, FiniteLogs
  <2>2. row'[r] = row[r] \/ row'[r] = ClaimRow(row[r], n)
    BY <1>4, <1>a DEF CopyTx, store
  <2> HIDE DEF n
  <2> QED
    BY <1>1, <1>b, <2>1, <2>2
<1>5. ASSUME NEW c \in Clients, EvictUpdate(c) \/ ClearTx(c) \/ ClearUpdate(c)
      PROVE  row'[r] # NoRow
  <2>1. \/ row'[r] = row[r]
        \/ row'[r] = EvictRow(row[r], loc[c].first, loc[c].to)
        \/ row'[r] = SetFirst(row[r], loc[c].to)
    BY <1>5, <1>a DEF EvictUpdate, ClearTx, ClearUpdate
  <2>2. /\ EvictRow(row[r], loc[c].first, loc[c].to).next = row[r].next
        /\ SetFirst(row[r], loc[c].to).next = row[r].next
    BY <1>a DEF EvictRow, SetFirst, Row
  <2> QED
    BY <1>a, <1>b, <2>1, <2>2 DEF Row
<1>6. ASSUME NEW q \in Refs, TtlPasses(q)
      PROVE  row'[r] # NoRow
  <2>1. row'[r].next = row[r].next
    BY <1>6, <1>a DEF TtlPasses, Row
  <2> QED
    BY <1>a, <1>b, <2>1 DEF Row
<1>7. \/ row' = row
      \/ \E q \in Refs : TtlPasses(q)
      \/ \E c \in Clients :
           \/ \E q \in Refs, i \in Invs : PrintClaim(c, q, i)
           \/ \E q \in Refs, i \in Invs, done \in 1 .. 4 : PrintTx(c, q, i, done)
           \/ CopyTx(c)
           \/ EvictUpdate(c) \/ ClearTx(c) \/ ClearUpdate(c)
  BY DEF Next, ClientNext, vars, CopySelect, EvictMeta, EvictDelete, ClearMeta, SweepSelect,
     SweepEntries, ClearDelete, ClearPartial, Abort, Read, PrintInsert
<1> QED
  BY <1>2, <1>3, <1>4, <1>5, <1>6, <1>7

\* While a sweep is on, nobody else does anything to the store.
LEMMA NobodyBesides ==
  ASSUME SweepIsAlone, NEW c \in Clients, Sweeping(c), NEW d \in Clients \ {c}
  PROVE  ~ClientNext(d)
<1>1. pc[d] = "idle" /\ SweepAlone
  BY DEF SweepIsAlone, At
<1>2. ~MayStart(d)
  BY <1>1 DEF MayStart
<1> QED
  BY <1>1, <1>2 DEF ClientNext, At, PrintClaim, PrintTx, PrintInsert, CopySelect, CopyTx, EvictMeta,
     EvictDelete, EvictUpdate, ClearMeta, ClearTx, ClearDelete, ClearUpdate, ClearPartial,
     SweepSelect, SweepEntries, SweepRow, Abort

\* A client sweeps if it did, or has just selected what to sweep.
LEMMA WhoSweeps ==
  ASSUME TypeInv, [Next]_vars, NEW c \in Clients, Sweeping(c)'
  PROVE  \/ SweepSelect(c)
         \/ \E r \in Refs : SweepEntries(c, r)
         \/ SweepRow(c)
         \/ pc'[c] = pc[c] /\ loc'[c] = loc[c]
<1>1. pc \in [Clients -> Labels] /\ loc \in [Clients -> Loc]
  BY DEF TypeInv, TypeOK
<1>2. ASSUME ClientNext(c), ~SweepSelect(c), ~SweepRow(c), \A r \in Refs : ~SweepEntries(c, r)
      PROVE  pc'[c] = pc[c] /\ loc'[c] = loc[c]
  <2>1. \/ pc' = pc /\ loc' = loc
        \/ \E label \in Labels \ {"sweep_entries", "sweep_row"} : pc' = [pc EXCEPT ![c] = label]
    BY <1>2 DEF ClientNext, At, Goto, Return, Fail, Labels, PrintClaim, PrintTx, PrintInsert,
       CopySelect, CopyTx, EvictMeta, EvictDelete, EvictUpdate, ClearMeta, ClearTx, ClearDelete,
       ClearUpdate, ClearPartial, Abort
  <2> QED
    BY <1>1, <2>1 DEF Sweeping
<1>3. ASSUME NEW d \in Clients, d # c, ClientNext(d)
      PROVE  pc'[c] = pc[c] /\ loc'[c] = loc[c]
  <2>1. \/ pc' = pc /\ loc' = loc
        \/ \E label \in Labels : \E l : pc' = [pc EXCEPT ![d] = label] /\ loc' = [loc EXCEPT ![d] = l]
    BY <1>3 DEF ClientNext, At, Goto, Return, Fail, Labels, PrintClaim, PrintInsert, PrintTx,
       CopySelect, CopyTx, EvictMeta, EvictDelete, EvictUpdate, ClearMeta,
       ClearTx, ClearDelete, ClearUpdate, ClearPartial, SweepSelect, SweepEntries,
       SweepRow, Abort
  <2> QED
    BY <1>1, <1>3, <2>1
<1>4. ASSUME pc' = pc, loc' = loc PROVE pc'[c] = pc[c] /\ loc'[c] = loc[c]
  BY <1>4
<1> QED
  BY <1>2, <1>3, <1>4 DEF Next, vars, Read, TtlPasses

\* What a sweep is about to drop stays expired.
LEMMA SweepsExpiredStep ==
  ASSUME ClaimsInv, SweepsExpired, [Next]_vars
  PROVE  SweepsExpired'
<1>a. /\ TypeInv /\ SweepIsAlone /\ row \in [Refs -> Row] /\ loc \in [Clients -> Loc] /\ pc \in [Clients -> Labels]
      /\ NoRow.fresh = FALSE
  BY DEF ClaimsInv, TypeInv, TypeOK, NoRow
<1> SUFFICES ASSUME NEW c \in Clients, Sweeping(c)'
             PROVE  /\ \A r \in loc'[c].todo : ~row'[r].fresh
                    /\ pc'[c] = "sweep_row" => ~row'[loc'[c].ref].fresh
  BY DEF SweepsExpired, At
<1>b. loc[c].todo \subseteq Refs /\ loc[c].ref \in Refs
  BY <1>a DEF Loc
<1>1. CASE SweepSelect(c)
  <2>1. row' = row /\ pc'[c] = "sweep_entries" /\ loc'[c] = [NoLoc EXCEPT !.todo = Expired]
    BY <1>1, <1>a DEF SweepSelect, Goto
  <2>2. loc'[c].todo = Expired
    BY <2>1 DEF NoLoc
  <2> QED
    BY <2>1, <2>2 DEF Expired
<1>2. ASSUME NEW q \in Refs, SweepEntries(c, q)
      PROVE  /\ \A r \in loc'[c].todo : ~row'[r].fresh
             /\ pc'[c] = "sweep_row" => ~row'[loc'[c].ref].fresh
  <2>1. /\ row' = row /\ q \in loc[c].todo /\ pc[c] = "sweep_entries"
        /\ loc'[c] = [loc[c] EXCEPT !.ref = q, !.todo = @ \ {q}]
    BY <1>2, <1>a DEF SweepEntries, Goto, At
  <2>2. loc[c] \in Loc
    BY <1>a
  <2>3. loc'[c].ref = q /\ loc'[c].todo = loc[c].todo \ {q}
    BY <2>1, <2>2 DEF Loc
  <2>4. \A r \in loc[c].todo : ~row[r].fresh
    BY <2>1 DEF SweepsExpired, Sweeping
  <2> QED
    BY <2>1, <2>3, <2>4
<1>3. CASE SweepRow(c)
  <2>1. /\ pc[c] = "sweep_row" /\ row' = [row EXCEPT ![loc[c].ref] = NoRow]
    BY <1>3 DEF SweepRow, At
  <2>2. pc'[c] = "sweep_entries" /\ loc'[c] = loc[c]
    BY <1>3, <1>a DEF SweepRow, Goto, Return, Sweeping
  <2>3. \A r \in loc[c].todo : ~row[r].fresh
    BY <2>1 DEF SweepsExpired, Sweeping
  <2>4. \A r \in Refs : row'[r] = row[r] \/ row'[r] = NoRow
    BY <1>a, <2>1
  <2> QED
    BY <1>a, <1>b, <2>2, <2>3, <2>4
<1>4. CASE /\ pc'[c] = pc[c] /\ loc'[c] = loc[c]
           /\ ~SweepSelect(c) /\ ~SweepRow(c) /\ \A r \in Refs : ~SweepEntries(c, r)
  <2>1. Sweeping(c)
    BY <1>4 DEF Sweeping
  <2>2. \A d \in Clients : d # c => ~ClientNext(d)
    BY <1>a, <2>1, NobodyBesides
  <2>3. ~ClientNext(c) \/ Abort(c)
    BY <1>4, <2>1 DEF ClientNext, Sweeping, MayStart, At, PrintClaim, PrintTx, PrintInsert, CopySelect, CopyTx,
       EvictMeta, EvictDelete, EvictUpdate, ClearMeta, ClearTx, ClearDelete, ClearUpdate, ClearPartial
  <2>4. row' = row \/ \E q \in Refs : TtlPasses(q)
    BY <2>2, <2>3 DEF Next, vars, Read, Abort
  <2>5. \A r \in Refs : row'[r].fresh => row[r].fresh
    <3>1. ASSUME NEW q \in Refs, TtlPasses(q), NEW r \in Refs
          PROVE  row'[r].fresh => row[r].fresh
      BY <1>a, <3>1 DEF TtlPasses, Row
    <3> QED
      BY <2>4, <3>1
  <2>6. /\ \A r \in loc[c].todo : ~row[r].fresh
        /\ pc[c] = "sweep_row" => ~row[loc[c].ref].fresh
    BY <2>1 DEF SweepsExpired, At
  <2> QED
    BY <1>4, <1>b, <2>5, <2>6
<1> QED
  BY <1>1, <1>2, <1>3, <1>4, <1>a, WhoSweeps

\* A sweep drops only consoles whose last write is older than the TTL
\* (console.rs:522), with one process on the database: selecting and dropping
\* are separate statements, and between them no print can freshen a console.
THEOREM ConsoleSweepDropsOnlyExpired ==
  ASSUME "sweep" \in Ops => SweepAlone
  PROVE  Spec => SweepDropsOnlyExpired
<1>1. Init => SweepsExpired
  BY DEF Init, SweepsExpired, Sweeping
<1>2. ClaimsInv /\ SweepsExpired /\ [Next]_vars => SweepsExpired'
  BY SweepsExpiredStep
<1>3. ASSUME ClaimsInv, SweepsExpired, [Next]_vars, NEW r \in Refs, row[r] # NoRow, row'[r] = NoRow
      PROVE  ~row[r].fresh
  <2>1. TypeInv /\ RowsStay /\ row \in [Refs -> Row] /\ loc \in [Clients -> Loc]
    BY <1>3 DEF ClaimsInv, TypeInv, TypeOK
  <2>2. PICK c \in Clients : SweepRow(c)
    BY <1>3, <2>1, RowsRemain
  <2>3. pc[c] = "sweep_row" /\ row' = [row EXCEPT ![loc[c].ref] = NoRow]
    BY <2>2 DEF SweepRow, At
  <2>4. r = loc[c].ref
    BY <1>3, <2>1, <2>3
  <2> QED
    BY <1>3, <2>3, <2>4 DEF SweepsExpired, Sweeping, At
<1>4. ClaimsInv /\ SweepsExpired /\ [Next]_vars =>
        [\A r \in Refs : row[r] # NoRow /\ row'[r] = NoRow => ~row[r].fresh]_vars
  BY <1>3
<1> QED
  BY <1>1, <1>2, <1>4, ConsoleClaimsInv, PTL DEF Spec, SweepDropsOnlyExpired

\* The page a reader would get has a last entry as soon as something is
\* retained at or above its cursor.
LEMMA PageHasLast ==
  ASSUME NEW E \in SUBSET Entry, IsFiniteSet(E), NEW n \in Nat,
         \A e \in E : e.seq \in 0 .. n, E # {}
  PROVE  \E last \in Page(E) : IsLast(last, Page(E))
<1> DEFINE S == {e.seq : e \in E}
           P == {e.seq : e \in Page(E)}
<1>1. S \subseteq Nat /\ S # {}
  OBVIOUS
<1>2. PICK s \in S : \A k \in S : s <= k
  <2> HIDE DEF S
  <2> QED
    BY <1>1, LeastNatural
<1>3. PICK e \in E : e.seq = s
  BY <1>2
<1>4. Below(E, e.seq) = {}
  <2>1. ASSUME NEW f \in E, f.seq < e.seq PROVE FALSE
    <3>1. f.seq \in S /\ f.seq \in Nat /\ e.seq \in Nat
      OBVIOUS
    <3>2. e.seq <= f.seq
      BY <1>2, <1>3, <3>1
    <3> HIDE DEF S
    <3> QED
      BY <2>1, <3>1, <3>2
  <2> QED
    BY <2>1 DEF Below
<1>5. Rank(e, E) = 0
  BY <1>4, FS_EmptySet DEF Rank
<1>6. e \in Page(E)
  BY <1>5, ConsoleAssumption DEF Page
<1>7. Page(E) \subseteq E
  BY DEF Page
<1>8. P \subseteq 0 .. n /\ P # {}
  BY <1>6, <1>7
<1>9. PICK m \in P : \A k \in P : k <= m
  <2> HIDE DEF P
  <2> QED
    BY <1>8, GreatestNatural
<1>10. PICK last \in Page(E) : last.seq = m
  BY <1>9
<1>11. IsLast(last, Page(E))
  <2>1. \A f \in Page(E) : f.seq \in P
    OBVIOUS
  <2> HIDE DEF P
  <2> QED
    BY <1>9, <1>10, <2>1 DEF IsLast
<1> QED
  BY <1>11

\* A tailing reader is never stuck below an entry (console.rs:217-225): while
\* something retained was not given to it there is a page to read, and each
\* read gives it that entry or moves its cursor forward without passing it.
\* With a writer that never comes back below the cursor, an entry that stays
\* is read after finitely many reads: it is what TailDelivers says but for
\* fairness.
THEOREM ConsoleTailGoesOn ==
  ASSUME HeldCursor, "sweep" \notin Ops
  PROVE  Spec =>
           /\ [](\A q \in Readers : \A e \in entries[Tailed] :
                   e.seq \notin rd[q].seen => \E last \in ReadPage(q) : IsLast(last, ReadPage(q)))
           /\ [][\A q \in Readers : \A e \in entries[Tailed] :
                   Read(q) /\ e.seq \notin rd[q].seen =>
                     \/ e.seq \in rd'[q].seen
                     \/ rd[q].cursor < rd'[q].cursor /\ rd'[q].cursor <= e.seq]_vars
<1>1. ASSUME ClaimsInv, NEW q \in Readers
      PROVE  /\ rd \in [Readers -> Reader] /\ rd[q].cursor \in Nat
             /\ entries[Tailed] \in SUBSET Entry /\ IsFiniteSet(entries[Tailed])
             /\ Claimed(row[Tailed]) \in Nat
             /\ \A e \in entries[Tailed] : e.seq \in 0 .. Claimed(row[Tailed])
  <2>1. TypeInv /\ WellTyped /\ Tailed \in Refs
    BY <1>1, Typed, ConsoleAssumption DEF ClaimsInv
  <2>2. rd \in [Readers -> Reader] /\ rd[q].cursor \in Nat
    BY <2>1 DEF TypeInv, TypeOK, Reader
  <2>3. /\ entries[Tailed] \in SUBSET Entry /\ IsFiniteSet(entries[Tailed])
        /\ Claimed(row[Tailed]) \in Nat
    BY <2>1 DEF WellTyped
  <2>4. \A e \in entries[Tailed] : e.seq \in Nat /\ e.seq < Claimed(row[Tailed])
    BY <1>1, <2>1 DEF WellTyped, ClaimsInv, ClaimsAreFresh
  <2>5. \A e \in entries[Tailed] : e.seq \in 0 .. Claimed(row[Tailed])
    BY <2>3, <2>4
  <2> QED
    BY <2>2, <2>3, <2>5
<1>2. ASSUME ClaimsInv, TailMissesNothing, NEW q \in Readers, NEW e \in entries[Tailed],
             e.seq \notin rd[q].seen
      PROVE  \E last \in ReadPage(q) : IsLast(last, ReadPage(q))
  <2> DEFINE todo == From(entries[Tailed], rd[q].cursor)
             n == Claimed(row[Tailed])
  <2>1. ~(e.seq < rd[q].cursor) /\ e.seq \in Nat /\ rd[q].cursor \in Nat /\ n \in Nat
    BY <1>1, <1>2 DEF TailMissesNothing
  <2>2. e.seq >= rd[q].cursor
    BY <2>1
  <2>3. e \in todo /\ todo \subseteq entries[Tailed]
    BY <2>2 DEF From
  <2>4. todo \in SUBSET Entry /\ IsFiniteSet(todo) /\ \A f \in todo : f.seq \in 0 .. n
    BY <1>1, <1>2, <2>3, FS_Subset
  <2> HIDE DEF todo, n
  <2>5. \E last \in Page(todo) : IsLast(last, Page(todo))
    BY <2>1, <2>3, <2>4, PageHasLast
  <2> QED
    BY <2>5 DEF ReadPage, todo
<1>3. ASSUME ClaimsInv, TailMissesNothing', NEW q \in Readers, NEW e \in entries[Tailed],
             Read(q), e.seq \notin rd'[q].seen
      PROVE  rd[q].cursor < rd'[q].cursor /\ rd'[q].cursor <= e.seq
  <2>1. PICK last \in ReadPage(q) : rd' = [rd EXCEPT ![q].cursor = After(last), ![q].seen = @ \union Seqs(ReadPage(q))]
    BY <1>3 DEF Read
  <2>2. last \in entries[Tailed] /\ last.seq >= rd[q].cursor
    BY DEF ReadPage, Page, From
  <2>3. rd'[q].cursor = last.seq + 1 /\ entries' = entries
    BY <1>1, <1>3, <2>1 DEF Read, After, Reader
  <2>4. last.seq \in Nat /\ e.seq \in Nat /\ rd[q].cursor \in Nat
    BY <1>1, <1>3, <2>2
  <2>5. ~(e.seq < rd'[q].cursor)
    BY <1>3, <2>3 DEF TailMissesNothing
  <2> DEFINE a == rd[q].cursor
             b == rd'[q].cursor
             l == last.seq
             s == e.seq
  <2>6. a \in Nat /\ l \in Nat /\ s \in Nat /\ b = l + 1 /\ l >= a /\ ~(s < b)
    BY <2>2, <2>3, <2>4, <2>5
  <2> HIDE DEF a, b, l, s
  <2>7. a < b /\ b <= s
    BY <2>6
  <2> QED
    BY <2>7 DEF a, b, s
<1>4. ClaimsInv /\ TailMissesNothing =>
        \A q \in Readers : \A e \in entries[Tailed] :
          e.seq \notin rd[q].seen => \E last \in ReadPage(q) : IsLast(last, ReadPage(q))
  BY <1>2
<1>5. ClaimsInv /\ TailMissesNothing' /\ [Next]_vars =>
        [\A q \in Readers : \A e \in entries[Tailed] :
           Read(q) /\ e.seq \notin rd[q].seen =>
             \/ e.seq \in rd'[q].seen
             \/ rd[q].cursor < rd'[q].cursor /\ rd'[q].cursor <= e.seq]_vars
  BY <1>3
<1>6. Spec => []ClaimsInv /\ []TailMissesNothing
  BY ConsoleClaimsInv, ConsoleTailMissesNothing
<1> QED
  BY <1>4, <1>5, <1>6, PTL DEF Spec
============================================================================
