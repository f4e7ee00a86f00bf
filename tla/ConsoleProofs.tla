--------------------------- MODULE ConsoleProofs ---------------------------
(* Theorems about Console, for every set of refs, clients and readers, every *)
(* cap and page size and every value of the bounds; and about what the       *)
(* console's actions do for their callers, whatever they are given.          *)
EXTENDS Console, ConsoleActions, FiniteSetTheorems, TLAPS

\* Parts of a finite log are finite.
LEMMA PartsAreFinite ==
  ASSUME NEW E, IsFiniteSet(E), NEW s
  PROVE  /\ IsFiniteSet(Below(E, s)) /\ Cardinality(Below(E, s)) \in Nat
         /\ IsFiniteSet(From(E, s))
<1>1. Below(E, s) \in SUBSET E /\ From(E, s) \in SUBSET E
  BY DEF Below, From
<1> QED
  BY <1>1, FS_Subset, FS_CardinalityType

\* The rank of an entry of a batch is below the size of the batch.
LEMMA RankBound ==
  ASSUME NEW B \in SUBSET Entry, IsFiniteSet(B), NEW e \in B
  PROVE  Rank(e, B) \in Nat /\ Rank(e, B) < Cardinality(B)
<1>1. Below(B, e.seq) \in SUBSET B /\ Below(B, e.seq) # B
  BY DEF Below, Entry
<1>2. Cardinality(B) \in Nat /\ Cardinality(Below(B, e.seq)) \in Nat
  BY PartsAreFinite, FS_CardinalityType
<1> QED
  BY <1>1, <1>2, FS_Subset DEF Rank

\* Ranks follow seqs.
LEMMA RankMonotone ==
  ASSUME NEW E \in SUBSET Entry, IsFiniteSet(E), NEW e \in E, NEW f \in E, e.seq <= f.seq
  PROVE  Rank(e, E) <= Rank(f, E)
<1>1. Below(E, e.seq) \in SUBSET Below(E, f.seq)
  BY DEF Below, Entry
<1> QED
  BY <1>1, PartsAreFinite, FS_Subset DEF Rank

\* Renumbering a batch keeps it well formed and uses the seqs from `begin` on,
\* as many as the batch has entries.
LEMMA RenumberFacts ==
  ASSUME NEW B \in SUBSET Entry, IsFiniteSet(B), NEW begin \in Nat
  PROVE  /\ Renumber(B, begin) \in SUBSET Entry
         /\ IsFiniteSet(Renumber(B, begin))
         /\ \A n \in Renumber(B, begin) :
              begin <= n.seq /\ n.seq < begin + Cardinality(B)
<1>0. Cardinality(B) \in Nat
  BY FS_CardinalityType
<1>1. ASSUME NEW n \in Renumber(B, begin)
      PROVE  n \in Entry /\ begin <= n.seq /\ n.seq < begin + Cardinality(B)
  <2>1. PICK e \in B : n = [seq |-> begin + Rank(e, B), inv |-> e.inv, org |-> e.seq]
    BY <1>1 DEF Renumber
  <2>2. Rank(e, B) \in Nat /\ Rank(e, B) < Cardinality(B)
    BY RankBound
  <2>3. e.inv \in Invs /\ e.seq \in Nat
    BY DEF Entry
  <2> QED
    BY <1>0, <2>1, <2>2, <2>3 DEF Entry
<1>2. IsFiniteSet(Renumber(B, begin))
  <2> DEFINE T == Renumber(B, begin)
             f == [e \in B |-> [seq |-> begin + Rank(e, B), inv |-> e.inv, org |-> e.seq]]
  <2>1. f \in [B -> T] /\ \A t \in T : \E e \in B : f[e] = t
    BY DEF Renumber
  <2>2. f \in Surjection(B, T)
    BY <2>1 DEF Surjection
  <2> HIDE DEF T, f
  <2>3. IsFiniteSet(T)
    BY <2>2, FS_Surjection
  <2> QED
    BY <2>3 DEF T
<1> QED
  BY <1>1, <1>2

\* An eviction moves the first seq forward, and not past the next seq.
LEMMA NewFirstFacts ==
  ASSUME NEW first \in Nat, NEW next \in Nat, OverCap(first, next)
  PROVE  NewFirst(first, next) \in Nat /\ first <= NewFirst(first, next)
         /\ NewFirst(first, next) <= next
<1>1. Cap \in Nat /\ (Cap + 9) \div 10 \in Int
  BY ConsoleAssumption
<1>2. next - first - Cap > 0
  BY <1>1 DEF OverCap
<1>3. MaxOf(next - first - Cap, (Cap + 9) \div 10) \in Nat
  BY <1>1, <1>2 DEF MaxOf
<1> QED
  BY <1>1, <1>2, <1>3 DEF NewFirst, MinOf, OverCap

\* A claim of n seqs leaves a well-formed row whose next claim is n further.
LEMMA ClaimFacts ==
  ASSUME NEW R \in Row, NEW n \in Nat
  PROVE  /\ Claimed(R) \in Nat
         /\ ClaimRow(R, n) \in Row
         /\ n > 0 => /\ ClaimRow(R, n) # NoRow
                     /\ Claimed(ClaimRow(R, n)) = Claimed(R) + n
         /\ ClaimRow(R, n).next = Claimed(R) + n
<1>1. CASE R = NoRow
  BY <1>1 DEF Row, NoRow, Claimed, ClaimRow
<1>2. CASE R # NoRow
  <2>1. ClaimRow(R, n) \in Row
    <3>1. R.next + n \in Nat
      BY DEF Row
    <3>2. [R EXCEPT !.next = R.next + n, !.fresh = TRUE] \in Row
      BY <3>1 DEF Row
    <3> QED
      BY <1>2, <3>2 DEF ClaimRow
  <2>2. ClaimRow(R, n).next = R.next + n /\ ClaimRow(R, n).fresh = TRUE
    BY <1>2 DEF ClaimRow, Row
  <2>3. ClaimRow(R, n) # NoRow
    BY <2>2 DEF NoRow
  <2>4. R.next \in Nat
    BY DEF Row
  <2> QED
    BY <1>2, <2>1, <2>2, <2>3, <2>4 DEF Claimed
<1> QED
  BY <1>1, <1>2

\* A claim of one seq, as print makes it.
LEMMA ClaimOne ==
  ASSUME NEW R \in Row
  PROVE  /\ Claimed(R) \in Nat
         /\ ClaimRow(R, 1) \in Row /\ ClaimRow(R, 1) # NoRow
         /\ ClaimRow(R, 1).next = Claimed(R) + 1 /\ ClaimRow(R, 1).first \in Nat
         /\ Claimed(ClaimRow(R, 1)) = Claimed(R) + 1
<1>1. ClaimRow(R, 1) \in Row /\ 1 \in Nat /\ 1 > 0
  BY ClaimFacts
<1>2. ClaimRow(R, 1).first \in Nat
  BY <1>1 DEF Row
<1> QED
  BY <1>1, <1>2, ClaimFacts

\* What a print in one transaction leaves, however far it gets.
PrintRow(r) == ClaimRow(row[r], 1)
PrintLog(r, i) == entries[r] \union {[seq |-> Claimed(row[r]), inv |-> i, org |-> 0]}
PrintTo(r) == NewFirst(PrintRow(r).first, PrintRow(r).next)

\* A print in one transaction changes its console's row and log in one of
\* three ways, and nothing of any client.
LEMMA PrintTxEffect ==
  ASSUME NEW c, NEW r, NEW i, NEW done \in 1 .. 4, PrintTx(c, r, i, done)
  PROVE  /\ \/ row' = [row EXCEPT ![r] = PrintRow(r)]
            \/ /\ OverCap(PrintRow(r).first, PrintRow(r).next)
               /\ row' = [row EXCEPT ![r] = EvictRow(PrintRow(r), PrintRow(r).first, PrintTo(r))]
               /\ entries' = [entries EXCEPT ![r] = From(PrintLog(r, i), PrintTo(r))]
         /\ \/ entries' = entries
            \/ entries' = [entries EXCEPT ![r] = PrintLog(r, i)]
            \/ /\ OverCap(PrintRow(r).first, PrintRow(r).next)
               /\ entries' = [entries EXCEPT ![r] = From(PrintLog(r, i), PrintTo(r))]
         /\ \/ evicted' = evicted
            \/ evicted' = [evicted EXCEPT ![r] = @ + Cardinality(Below(PrintLog(r, i), PrintTo(r)))]
         /\ UNCHANGED <<pc, loc, rd, drain>>
         /\ faults' = faults \/ faults' = faults + 1
<1> DEFINE dup == Claimed(row[r]) \in Seqs(entries[r])
           over == OverCap(PrintRow(r).first, PrintRow(r).next)
<1> USE DEF PrintRow, PrintLog, PrintTo
<1>1. CASE dup \/ done = 1
  BY <1>1 DEF PrintTx, Fault
<1>2. CASE ~dup /\ done > 1 /\ (~over \/ done = 2)
  BY <1>2 DEF PrintTx, Fault
<1>3. CASE ~dup /\ done > 2 /\ over
  BY <1>3 DEF PrintTx, Fault
<1> QED
  BY <1>1, <1>2, <1>3

\* Updates of `loc`, `pc` and `drain` are well formed.
LEMMA NoLocType == NoLoc \in Loc
BY ConsoleAssumption DEF NoLoc, Loc

\* A client that goes on with a well-formed, finite record of its operation
\* keeps the types of all clients.
LEMMA GotoTypes ==
  ASSUME pc \in [Clients -> Labels], loc \in [Clients -> Loc], FiniteLogs, EvictsForward,
         NEW c \in Clients, NEW label \in Labels, NEW l \in Loc, Goto(c, label, l),
         IsFiniteSet(l.batch), label \in {"evict_delete", "evict_update"} => l.first <= l.to
  PROVE  /\ pc' \in [Clients -> Labels] /\ loc' \in [Clients -> Loc]
         /\ \A d \in Clients : IsFiniteSet(loc'[d].batch)
         /\ EvictsForward'
BY DEF Goto, FiniteLogs, EvictsForward

\* So does one whose operation ends.
LEMMA EndTypes ==
  ASSUME TypeOK, FiniteLogs, EvictsForward, NEW c \in Clients, Return(c) \/ Fail(c)
  PROVE  /\ pc' \in [Clients -> Labels] /\ loc' \in [Clients -> Loc]
         /\ \A d \in Clients : IsFiniteSet(loc'[d].batch)
         /\ EvictsForward'
         /\ drain' \in [Invs -> Nat]
<1>1. Goto(c, "idle", NoLoc) /\ IsFiniteSet(NoLoc.batch)
  BY FS_EmptySet DEF Return, Fail, NoLoc
<1>2. loc[c].inv \in Invs /\ loc[c].seq \in Nat
  BY DEF TypeOK, Loc
<1>3. drain' \in [Invs -> Nat]
  BY <1>2 DEF Return, Fail, TypeOK
<1> QED
  BY <1>1, <1>3, NoLocType, GotoTypes DEF TypeOK, Labels

----------------------------------------------------------------------------
\* An eviction or a clear leaves a well-formed row.
LEMMA FirstFacts ==
  ASSUME NEW R \in Row, NEW first \in Nat, NEW to \in Nat
  PROVE  /\ first <= to => EvictRow(R, first, to) \in Row
         /\ SetFirst(R, to) \in Row
<1>1. R.dropped \in Nat
  BY DEF Row
<1>2. ASSUME first <= to PROVE EvictRow(R, first, to) \in Row
  <2>1. R.dropped + (to - first) \in Nat
    BY <1>1, <1>2
  <2> QED
    BY <2>1 DEF EvictRow, Row
<1>3. SetFirst(R, to) \in Row
  BY DEF SetFirst, Row
<1> QED
  BY <1>2, <1>3

\* A page of a log is a finite set of its entries.
LEMMA PageFacts ==
  ASSUME NEW E \in SUBSET Entry, IsFiniteSet(E)
  PROVE  Page(E) \in SUBSET Entry /\ Page(E) \subseteq E /\ IsFiniteSet(Page(E))
<1>1. Page(E) \in SUBSET E
  BY DEF Page
<1> QED
  BY <1>1, FS_Subset

\* The initial state is well formed.
LEMMA TypeInvInit == Init => TypeInv
<1> SUFFICES ASSUME Init PROVE TypeInv
  OBVIOUS
<1>1. NoRow \in Row
  BY DEF NoRow, Row
<1>2. [cursor |-> 0, seen |-> {}] \in Reader
  BY DEF Reader
<1>3. TypeOK
  BY <1>1, <1>2, NoLocType DEF Init, TypeOK, Labels
<1>4. FiniteLogs
  BY FS_EmptySet DEF Init, FiniteLogs, NoLoc
<1>5. EvictsForward
  BY DEF Init, EvictsForward
<1> QED
  BY <1>3, <1>4, <1>5 DEF TypeInv

\* Every step keeps the variables well formed, the logs and batches finite and
\* the evictions going forward.
LEMMA TypeInvStep == TypeInv /\ [Next]_vars => TypeInv'
<1> SUFFICES ASSUME TypeInv, [Next]_vars
             PROVE  TypeInv'
  OBVIOUS
<1>a. TypeOK /\ FiniteLogs /\ EvictsForward
  BY DEF TypeInv
<1>b. \A r \in Refs : /\ entries[r] \in SUBSET Entry /\ IsFiniteSet(entries[r])
                      /\ row[r] \in Row /\ row[r].next \in Nat /\ row[r].first \in Nat
  BY <1>a DEF TypeOK, FiniteLogs, Row
<1>c. \A c \in Clients :
        /\ loc[c] \in Loc /\ loc[c].ref \in Refs /\ loc[c].inv \in Invs
        /\ loc[c].seq \in Nat /\ loc[c].first \in Nat /\ loc[c].to \in Nat
        /\ loc[c].batch \in SUBSET Entry /\ IsFiniteSet(loc[c].batch)
        /\ loc[c].todo \in SUBSET Refs
  BY <1>a DEF TypeOK, FiniteLogs, Loc
<1>d. NoLoc \in Loc /\ IsFiniteSet(NoLoc.batch)
  BY NoLocType, FS_EmptySet DEF NoLoc
<1>e. ASSUME NEW E \in SUBSET Entry, NEW s PROVE From(E, s) \in SUBSET Entry
  BY DEF From
<1>f. ConsoleAssumption
  BY ConsoleAssumption
<1> USE DEF TypeInv
<1>1. ASSUME NEW c \in Clients, NEW r \in Refs, NEW i \in Invs, PrintClaim(c, r, i)
      PROVE  TypeInv'
  <2>1. ClaimRow(row[r], 1) \in Row /\ Claimed(row[r]) \in Nat
    BY <1>b, ClaimFacts
  <2> DEFINE l == [NoLoc EXCEPT !.ref = r, !.inv = i, !.seq = Claimed(row[r])]
  <2>2. l \in Loc /\ l.batch = NoLoc.batch
    BY <1>d, <2>1 DEF Loc, NoLoc
  <2> HIDE DEF l
  <2>3. Goto(c, "print_insert", l)
    BY <1>1 DEF PrintClaim, l
  <2>4. /\ pc' \in [Clients -> Labels] /\ loc' \in [Clients -> Loc]
        /\ \A d \in Clients : IsFiniteSet(loc'[d].batch)
        /\ EvictsForward'
    BY <1>a, <1>d, <2>2, <2>3, GotoTypes DEF TypeOK, Labels
  <2> QED
    BY <1>1, <1>a, <2>1, <2>4 DEF PrintClaim, TypeOK, FiniteLogs
<1>2. ASSUME NEW c \in Clients, PrintInsert(c)
      PROVE  TypeInv'
  <2> DEFINE l == loc[c]
             new == [seq |-> l.seq, inv |-> l.inv, org |-> 0]
  <2>1. new \in Entry
    BY <1>c DEF Entry
  <2>2. entries[l.ref] \union {new} \in SUBSET Entry /\ IsFiniteSet(entries[l.ref] \union {new})
    BY <1>b, <1>c, <2>1, FS_AddElement
  <2>3. CASE l.seq \in Seqs(entries[l.ref])
    <3>1. Fail(c) /\ UNCHANGED <<row, entries, rd, evicted, faults>>
      BY <1>2, <2>3 DEF PrintInsert
    <3> QED
      BY <1>a, <3>1, EndTypes DEF TypeOK, FiniteLogs
  <2>4. CASE l.seq \notin Seqs(entries[l.ref])
    <3>1. /\ entries' = [entries EXCEPT ![l.ref] = @ \union {new}]
          /\ Goto(c, "evict_meta", l)
          /\ UNCHANGED <<row, drain, rd, evicted, faults>>
      BY <1>2, <2>4 DEF PrintInsert
    <3>2. /\ pc' \in [Clients -> Labels] /\ loc' \in [Clients -> Loc]
          /\ \A d \in Clients : IsFiniteSet(loc'[d].batch)
          /\ EvictsForward'
      BY <1>a, <1>c, <3>1, GotoTypes DEF TypeOK, Labels
    <3> QED
      BY <1>a, <1>c, <2>2, <3>1, <3>2 DEF TypeOK, FiniteLogs
  <2> QED
    BY <2>3, <2>4
<1>3. ASSUME NEW c \in Clients, NEW r \in Refs, NEW i \in Invs, NEW done \in 1 .. 4,
             PrintTx(c, r, i, done)
      PROVE  TypeInv'
  <2> DEFINE R == PrintRow(r)
             ins == PrintLog(r, i)
             to == PrintTo(r)
  <2>1. R \in Row /\ Claimed(row[r]) \in Nat /\ R.first \in Nat /\ R.next \in Nat
    BY <1>b, ClaimOne DEF PrintRow
  <2>2. ins \in SUBSET Entry /\ IsFiniteSet(ins)
    <3>1. [seq |-> Claimed(row[r]), inv |-> i, org |-> 0] \in Entry
      BY <2>1 DEF Entry
    <3> QED
      BY <1>b, <3>1, FS_AddElement DEF PrintLog
  <2>3. /\ From(ins, to) \in SUBSET Entry /\ IsFiniteSet(From(ins, to))
        /\ Cardinality(Below(ins, to)) \in Nat
    BY <1>e, <2>2, PartsAreFinite
  <2>4. OverCap(R.first, R.next) => EvictRow(R, R.first, to) \in Row
    BY <2>1, NewFirstFacts, FirstFacts DEF PrintTo
  <2>5. row' \in [Refs -> Row]
    BY <1>3, <1>a, <2>1, <2>4, PrintTxEffect DEF TypeOK
  <2>6. entries' \in [Refs -> SUBSET Entry] /\ \A q \in Refs : IsFiniteSet(entries'[q])
    BY <1>3, <1>a, <2>2, <2>3, PrintTxEffect DEF TypeOK, FiniteLogs
  <2>7. evicted' \in [Refs -> Nat] /\ faults' \in Nat
    BY <1>3, <1>a, <2>3, PrintTxEffect DEF TypeOK
  <2> QED
    BY <1>3, <1>a, <2>5, <2>6, <2>7, PrintTxEffect DEF TypeOK, FiniteLogs, EvictsForward
<1>4. ASSUME NEW c \in Clients, NEW i \in Invs, CopySelect(c, i)
      PROVE  TypeInv'
  <2> DEFINE E == {e \in From(entries[CopyFrom], drain[i]) : e.inv = i}
             found == Page(E)
  <2>1. CopyFrom \in Refs /\ CopyTo \in Refs
    BY ConsoleAssumption
  <2>2. E \in SUBSET entries[CopyFrom]
    BY DEF From
  <2>3. found \in SUBSET Entry /\ IsFiniteSet(found)
    <3>1. E \in SUBSET Entry /\ IsFiniteSet(E)
      BY <1>b, <2>1, <2>2, FS_Subset
    <3> HIDE DEF E
    <3> QED
      BY <3>1, PageFacts
  <2> HIDE DEF E
  <2>4. PICK last \in found :
          Goto(c, "copy_tx", [NoLoc EXCEPT !.ref = CopyTo, !.inv = i, !.batch = found,
                                           !.seq = After(last), !.copying = TRUE])
    BY <1>4 DEF CopySelect, E
  <2>5. After(last) \in Nat
    BY <2>3 DEF After, Entry
  <2> HIDE DEF found
  <2> DEFINE l == [NoLoc EXCEPT !.ref = CopyTo, !.inv = i, !.batch = found,
                                !.seq = After(last), !.copying = TRUE]
  <2>6. l \in Loc /\ l.batch = found
    BY <1>d, <2>1, <2>3, <2>5 DEF Loc, NoLoc
  <2> HIDE DEF l
  <2>7. /\ pc' \in [Clients -> Labels] /\ loc' \in [Clients -> Loc]
        /\ \A d \in Clients : IsFiniteSet(loc'[d].batch)
        /\ EvictsForward'
    <3>1. Goto(c, "copy_tx", l)
      BY <2>4 DEF l
    <3> QED
      BY <1>a, <2>3, <2>6, <3>1, GotoTypes DEF TypeOK, Labels
  <2> QED
    BY <1>4, <1>a, <2>7 DEF CopySelect, TypeOK, FiniteLogs
<1>5. ASSUME NEW c \in Clients, CopyTx(c)
      PROVE  TypeInv'
  <2> DEFINE B == loc[c].batch
             new == Renumber(B, Claimed(row[CopyTo]))
             l == [loc[c] EXCEPT !.batch = {}]
  <2>1. CopyTo \in Refs
    BY ConsoleAssumption
  <2>2. Cardinality(B) \in Nat
    BY <1>c, FS_CardinalityType
  <2>3. ClaimRow(row[CopyTo], Cardinality(B)) \in Row /\ Claimed(row[CopyTo]) \in Nat
    BY <1>b, <2>1, <2>2, ClaimFacts
  <2>4. new \in SUBSET Entry /\ IsFiniteSet(new)
    BY <1>c, <2>3, RenumberFacts
  <2>5. /\ entries[CopyTo] \union new \in SUBSET Entry
        /\ IsFiniteSet(entries[CopyTo] \union new)
    BY <1>b, <2>1, <2>4, FS_Union
  <2>6. l \in Loc /\ IsFiniteSet(l.batch)
    BY <1>c, FS_EmptySet DEF Loc
  <2> HIDE DEF new, l
  <2>7. CASE Fail(c) /\ UNCHANGED store
    <3>1. UNCHANGED <<row, entries, rd, evicted, faults>>
      BY <1>5, <2>7 DEF CopyTx, store
    <3> QED
      BY <1>a, <2>7, <3>1, EndTypes DEF TypeOK, FiniteLogs
  <2>8. CASE /\ row' = [row EXCEPT ![CopyTo] = ClaimRow(@, Cardinality(B))]
             /\ entries' = [entries EXCEPT ![CopyTo] = @ \union new]
             /\ Goto(c, "evict_meta", l)
             /\ UNCHANGED drain
    <3>1. /\ pc' \in [Clients -> Labels] /\ loc' \in [Clients -> Loc]
          /\ \A d \in Clients : IsFiniteSet(loc'[d].batch)
          /\ EvictsForward'
      BY <1>a, <2>6, <2>8, GotoTypes DEF TypeOK, Labels
    <3>2. UNCHANGED <<rd, evicted, faults>>
      BY <1>5 DEF CopyTx
    <3>3. row' \in [Refs -> Row]
      BY <1>a, <2>1, <2>3, <2>8 DEF TypeOK
    <3>4. entries' \in [Refs -> SUBSET Entry] /\ \A q \in Refs : IsFiniteSet(entries'[q])
      BY <1>a, <2>1, <2>5, <2>8 DEF TypeOK, FiniteLogs
    <3> QED
      BY <1>a, <2>8, <3>1, <3>2, <3>3, <3>4 DEF TypeOK, FiniteLogs
  <2> QED
    BY <1>5, <2>7, <2>8 DEF CopyTx, new, l
<1>6. ASSUME NEW c \in Clients, EvictMeta(c)
      PROVE  TypeInv'
  <2> DEFINE R == row[loc[c].ref]
             l == [loc[c] EXCEPT !.first = R.first, !.to = NewFirst(R.first, R.next)]
  <2>1. CASE OverCap(R.first, R.next)
    <3>1. R.first \in Nat /\ R.next \in Nat
      BY <1>b, <1>c
    <3>2. NewFirst(R.first, R.next) \in Nat /\ R.first <= NewFirst(R.first, R.next)
      BY <2>1, <3>1, NewFirstFacts
    <3>3. l \in Loc /\ l.batch = loc[c].batch /\ l.first <= l.to
      BY <1>c, <3>1, <3>2 DEF Loc
    <3>4. Goto(c, "evict_delete", l) /\ UNCHANGED <<row, entries, rd, evicted, faults, drain>>
      BY <1>6, <2>1 DEF EvictMeta
    <3> HIDE DEF l
    <3>5. /\ pc' \in [Clients -> Labels] /\ loc' \in [Clients -> Loc]
        /\ \A d \in Clients : IsFiniteSet(loc'[d].batch)
        /\ EvictsForward'
      BY <1>a, <1>c, <3>3, <3>4, GotoTypes DEF TypeOK, Labels
    <3> QED
      BY <1>a, <3>4, <3>5 DEF TypeOK, FiniteLogs
  <2>2. CASE ~OverCap(R.first, R.next)
    <3>1. Return(c) /\ UNCHANGED <<row, entries, rd, evicted, faults>>
      BY <1>6, <2>2 DEF EvictMeta
    <3> QED
      BY <1>a, <3>1, EndTypes DEF TypeOK, FiniteLogs
  <2> QED
    BY <2>1, <2>2
<1>g. ASSUME NEW c \in Clients, entries' = [entries EXCEPT ![loc[c].ref] = From(@, loc[c].to)]
      PROVE  /\ entries' \in [Refs -> SUBSET Entry]
             /\ \A q \in Refs : IsFiniteSet(entries'[q])
  <2>1. /\ From(entries[loc[c].ref], loc[c].to) \in SUBSET Entry
        /\ IsFiniteSet(From(entries[loc[c].ref], loc[c].to))
    BY <1>b, <1>c, <1>e, PartsAreFinite
  <2> QED
    BY <1>a, <1>g, <2>1 DEF TypeOK, FiniteLogs
<1>7. ASSUME NEW c \in Clients, EvictDelete(c)
      PROVE  TypeInv'
  <2> DEFINE l == loc[c]
  <2>1. Cardinality(Below(entries[l.ref], l.to)) \in Nat
    BY <1>b, <1>c, PartsAreFinite
  <2>2. evicted' \in [Refs -> Nat]
    BY <1>7, <1>a, <1>c, <2>1 DEF EvictDelete, TypeOK
  <2>3. l.first <= l.to
    BY <1>7, <1>a DEF EvictDelete, At, EvictsForward
  <2>4. /\ pc' \in [Clients -> Labels] /\ loc' \in [Clients -> Loc]
        /\ \A d \in Clients : IsFiniteSet(loc'[d].batch)
        /\ EvictsForward'
    BY <1>7, <1>a, <1>c, <2>3, GotoTypes DEF EvictDelete, TypeOK, Labels
  <2> QED
    BY <1>7, <1>a, <1>g, <2>2, <2>4 DEF EvictDelete, TypeOK, FiniteLogs
<1>8. ASSUME NEW c \in Clients, EvictUpdate(c)
      PROVE  TypeInv'
  <2>1. loc[c].first <= loc[c].to
    BY <1>8, <1>a DEF EvictUpdate, At, EvictsForward
  <2>2. EvictRow(row[loc[c].ref], loc[c].first, loc[c].to) \in Row
    BY <1>b, <1>c, <2>1, FirstFacts
  <2>3. row' \in [Refs -> Row]
    BY <1>8, <1>a, <2>2 DEF EvictUpdate, TypeOK
  <2> QED
    BY <1>8, <1>a, <2>3, EndTypes DEF EvictUpdate, TypeOK, FiniteLogs
<1>9. ASSUME NEW c \in Clients, NEW r \in Refs, NEW before \in 1 .. (MaxSeq + 1),
             ClearMeta(c, r, before)
      PROVE  TypeInv'
  <2> DEFINE cut == ClearCutoff(before, row[r].next)
             l == [NoLoc EXCEPT !.ref = r, !.to = cut]
  <2>1. cut \in Nat
    BY <1>b DEF ClearCutoff, MinOf
  <2>2. l \in Loc /\ l.batch = NoLoc.batch
    BY <1>d, <2>1 DEF Loc, NoLoc
  <2>3. Goto(c, "clear_delete", l) /\ UNCHANGED <<row, entries, rd, drain, evicted, faults>>
    BY <1>9 DEF ClearMeta
  <2> HIDE DEF l
  <2>4. /\ pc' \in [Clients -> Labels] /\ loc' \in [Clients -> Loc]
        /\ \A d \in Clients : IsFiniteSet(loc'[d].batch)
        /\ EvictsForward'
    BY <1>a, <1>d, <2>2, <2>3, GotoTypes DEF TypeOK, Labels
  <2> QED
    BY <1>a, <2>3, <2>4 DEF TypeOK, FiniteLogs
<1>h. ASSUME NEW c \in Clients, row' = [row EXCEPT ![loc[c].ref] = SetFirst(@, loc[c].to)]
      PROVE  row' \in [Refs -> Row]
  <2>1. SetFirst(row[loc[c].ref], loc[c].to) \in Row
    BY <1>b, <1>c, FirstFacts
  <2> QED
    BY <1>a, <1>h, <2>1 DEF TypeOK
<1>10. ASSUME NEW c \in Clients, ClearTx(c)
       PROVE  TypeInv'
  BY <1>10, <1>a, <1>g, <1>h, EndTypes DEF ClearTx, TypeOK, FiniteLogs
<1>11. ASSUME NEW c \in Clients, ClearDelete(c)
       PROVE  TypeInv'
  <2>1. /\ pc' \in [Clients -> Labels] /\ loc' \in [Clients -> Loc]
        /\ \A d \in Clients : IsFiniteSet(loc'[d].batch)
        /\ EvictsForward'
    BY <1>11, <1>a, <1>c, GotoTypes DEF ClearDelete, TypeOK, Labels
  <2> QED
    BY <1>11, <1>a, <1>g, <2>1 DEF ClearDelete, TypeOK, FiniteLogs
<1>12. ASSUME NEW c \in Clients, ClearUpdate(c)
       PROVE  TypeInv'
  BY <1>12, <1>a, <1>h, EndTypes DEF ClearUpdate, TypeOK, FiniteLogs
<1>13. ASSUME NEW c \in Clients, ClearPartial(c)
       PROVE  TypeInv'
  <2>1. /\ entries' = [entries EXCEPT ![loc[c].ref] = From(@, loc[c].to)]
        /\ Fail(c) /\ UNCHANGED <<row, rd, evicted>>
    BY <1>13 DEF ClearPartial
  <2>2. faults' \in Nat
    BY <1>13, <1>a DEF ClearPartial, Fault, TypeOK
  <2> QED
    BY <1>a, <1>g, <2>1, <2>2, EndTypes DEF TypeOK, FiniteLogs
<1>14. ASSUME NEW c \in Clients, SweepSelect(c)
       PROVE  TypeInv'
  <2> DEFINE l == [NoLoc EXCEPT !.todo = Expired]
  <2>1. l \in Loc /\ l.batch = NoLoc.batch
    BY <1>d DEF Loc, NoLoc, Expired
  <2>2. Goto(c, "sweep_entries", l) /\ UNCHANGED <<row, entries, rd, drain, evicted, faults>>
    BY <1>14 DEF SweepSelect
  <2> HIDE DEF l
  <2>3. /\ pc' \in [Clients -> Labels] /\ loc' \in [Clients -> Loc]
        /\ \A d \in Clients : IsFiniteSet(loc'[d].batch)
        /\ EvictsForward'
    BY <1>a, <1>d, <2>1, <2>2, GotoTypes DEF TypeOK, Labels
  <2> QED
    BY <1>a, <2>2, <2>3 DEF TypeOK, FiniteLogs
<1>15. ASSUME NEW c \in Clients, NEW r \in Refs, SweepEntries(c, r)
       PROVE  TypeInv'
  <2> DEFINE l == [loc[c] EXCEPT !.ref = r, !.todo = @ \ {r}]
  <2>1. l \in Loc /\ l.batch = loc[c].batch
    BY <1>c DEF Loc
  <2>2. Goto(c, "sweep_row", l) /\ UNCHANGED <<row, rd, drain, evicted, faults>>
    BY <1>15 DEF SweepEntries
  <2> HIDE DEF l
  <2>3. /\ pc' \in [Clients -> Labels] /\ loc' \in [Clients -> Loc]
        /\ \A d \in Clients : IsFiniteSet(loc'[d].batch)
        /\ EvictsForward'
    BY <1>a, <1>c, <2>1, <2>2, GotoTypes DEF TypeOK, Labels
  <2>4. entries' \in [Refs -> SUBSET Entry] /\ \A q \in Refs : IsFiniteSet(entries'[q])
    BY <1>15, <1>a, FS_EmptySet DEF SweepEntries, TypeOK, FiniteLogs
  <2> QED
    BY <1>a, <2>2, <2>3, <2>4 DEF TypeOK, FiniteLogs
<1>16. ASSUME NEW c \in Clients, SweepRow(c)
       PROVE  TypeInv'
  <2>1. NoRow \in Row
    BY DEF NoRow, Row
  <2>2. row' \in [Refs -> Row] /\ evicted' \in [Refs -> Nat]
    BY <1>16, <1>a, <2>1 DEF SweepRow, TypeOK
  <2>3. UNCHANGED <<entries, rd, faults>>
    BY <1>16 DEF SweepRow
  <2>4. CASE Return(c)
    BY <1>a, <2>2, <2>3, <2>4, EndTypes DEF TypeOK, FiniteLogs
  <2>5. CASE Goto(c, "sweep_entries", loc[c]) /\ UNCHANGED drain
    <3>1. /\ pc' \in [Clients -> Labels] /\ loc' \in [Clients -> Loc]
        /\ \A d \in Clients : IsFiniteSet(loc'[d].batch)
        /\ EvictsForward'
      BY <1>a, <1>c, <2>5, GotoTypes DEF TypeOK, Labels
    <3> QED
      BY <1>a, <2>2, <2>3, <2>5, <3>1 DEF TypeOK, FiniteLogs
  <2> QED
    BY <1>16, <2>4, <2>5 DEF SweepRow
<1>17. ASSUME NEW c \in Clients, Abort(c)
       PROVE  TypeInv'
  BY <1>17, <1>a, EndTypes DEF Abort, Fault, TypeOK, FiniteLogs
<1>18. ASSUME NEW q \in Readers, Read(q)
       PROVE  TypeInv'
  <2>1. Tailed \in Refs /\ rd[q] \in Reader
    BY <1>a, <1>f DEF ConsoleAssumption, TypeOK
  <2>2. ReadPage(q) \in SUBSET Entry
    BY <1>b, <1>e, <2>1, PartsAreFinite, PageFacts DEF ReadPage
  <2>3. Seqs(ReadPage(q)) \in SUBSET Nat
    BY <2>2 DEF Seqs, Entry
  <2>4. ASSUME NEW last \in ReadPage(q)
        PROVE  [rd[q] EXCEPT !.cursor = After(last),
                             !.seen = @ \union Seqs(ReadPage(q))] \in Reader
    <3>1. After(last) \in Nat
      BY <2>2 DEF After, Entry
    <3> QED
      BY <2>1, <2>3, <3>1 DEF Reader
  <2>5. rd' \in [Readers -> Reader]
    BY <1>18, <1>a, <2>4 DEF Read, TypeOK
  <2> QED
    BY <1>18, <1>a, <2>5 DEF Read, TypeOK, FiniteLogs, EvictsForward
<1>19. ASSUME NEW r \in Refs, TtlPasses(r)
       PROVE  TypeInv'
  <2>1. [row[r] EXCEPT !.fresh = FALSE] \in Row
    BY <1>b DEF Row
  <2> QED
    BY <1>19, <1>a, <2>1 DEF TtlPasses, TypeOK, FiniteLogs, EvictsForward
<1>20. CASE UNCHANGED vars
  BY <1>20, <1>a DEF vars, TypeOK, FiniteLogs, EvictsForward
<1> QED
  BY <1>1, <1>2, <1>3, <1>4, <1>5, <1>6, <1>7, <1>8, <1>9, <1>10, <1>11, <1>12, <1>13,
     <1>14, <1>15, <1>16, <1>17, <1>18, <1>19, <1>20
  DEF Next, ClientNext

\* The variables keep their types, and logs and batches stay finite.
THEOREM ConsoleTypeInv == Spec => []TypeInv
BY TypeInvInit, TypeInvStep, PTL DEF Spec

\* The variables keep their types (TypeOK), whatever the interleaving.
THEOREM ConsoleTypeOK == Spec => []TypeOK
BY ConsoleTypeInv, PTL DEF TypeInv

----------------------------------------------------------------------------
(* What a step does to a console, when no instance sweeps: it claims no seq   *)
(* twice, and what it adds is either newly claimed or a print's own insert.   *)

Grows(r) ==
  /\ row'[r] # NoRow => 1 <= row'[r].next
  /\ Claimed(row[r]) <= Claimed(row'[r])
  /\ \A e \in entries'[r] :
       e \in entries[r] \/ (Claimed(row[r]) <= e.seq /\ e.seq < Claimed(row'[r]))

\* Raising `first` or counting drops neither claims nor unclaims a seq.
LEMMA FirstKeepsClaims ==
  ASSUME NEW R \in Row, NEW first \in Nat, NEW to \in Nat, R # NoRow => 1 <= R.next
  PROVE  /\ R # NoRow => /\ EvictRow(R, first, to) # NoRow
                        /\ EvictRow(R, first, to).next = R.next
                        /\ EvictRow(R, first, to).first = to
                        /\ Claimed(EvictRow(R, first, to)) = Claimed(R)
         /\ SetFirst(R, to) # NoRow => 1 <= SetFirst(R, to).next
         /\ SetFirst(R, to).first = to \/ SetFirst(R, to) = NoRow
         /\ Claimed(SetFirst(R, to)) = Claimed(R)
<1>1. CASE R = NoRow
  BY <1>1 DEF SetFirst, NoRow
<1>2. CASE R # NoRow
  <2>1. /\ EvictRow(R, first, to).next = R.next /\ EvictRow(R, first, to).first = to
        /\ [R EXCEPT !.first = to].next = R.next /\ [R EXCEPT !.first = to].first = to
    BY DEF EvictRow, Row
  <2>2. NoRow.next = 0 /\ R.next \in Nat
    BY DEF NoRow, Row
  <2>3. SetFirst(R, to) = [R EXCEPT !.first = to]
    BY <1>2 DEF SetFirst
  <2>4. EvictRow(R, first, to) # NoRow /\ SetFirst(R, to) # NoRow
    <3>1. \A S : S.next = R.next => S # NoRow
      BY <1>2, <2>2
    <3> QED
      BY <2>1, <2>3, <3>1
  <2> QED
    BY <1>2, <2>1, <2>2, <2>3, <2>4 DEF Claimed
<1> QED
  BY <1>1, <1>2

\* A client that starts finds the store free of any sweep, and a sweep that
\* starts finds it idle; so a sweep stays alone.
LEMMA SweepIsAloneStep ==
  ASSUME "sweep" \in Ops => SweepAlone, TypeInv, SweepIsAlone, [Next]_vars
  PROVE  SweepIsAlone'
<1>a. pc \in [Clients -> Labels] /\ loc \in [Clients -> Loc] /\ entries \in [Refs -> SUBSET Entry]
  BY DEF TypeInv, TypeOK
<1>1. ASSUME NEW c \in Clients, SweepSelect(c)
      PROVE  SweepIsAlone'
  BY <1>1, <1>a DEF SweepSelect, SweepIsAlone, Sweeping, At, Goto
<1>2. ASSUME NEW c \in Clients, NEW r \in Refs, SweepEntries(c, r)
      PROVE  SweepIsAlone'
  <2>1. SweepAlone /\ \A d \in Clients \ {c} : pc[d] = "idle"
    BY <1>2 DEF SweepEntries, SweepIsAlone, Sweeping, At
  <2>2. [loc[c] EXCEPT !.ref = r, !.todo = @ \ {r}].ref = r
    BY <1>a DEF Loc
  <2>3. loc'[c].ref = r /\ entries'[r] = {} /\ \A d \in Clients \ {c} : pc'[d] = "idle"
    BY <1>2, <1>a, <2>1, <2>2 DEF SweepEntries, Goto
  <2> QED
    BY <2>1, <2>3 DEF SweepIsAlone, Sweeping, At
<1>3. ASSUME NEW c \in Clients, SweepRow(c)
      PROVE  SweepIsAlone'
  <2>1. SweepAlone /\ \A d \in Clients \ {c} : pc[d] = "idle"
    BY <1>3 DEF SweepRow, SweepIsAlone, Sweeping, At
  <2>2. pc'[c] \in {"idle", "sweep_entries"} /\ \A d \in Clients \ {c} : pc'[d] = "idle"
    BY <1>3, <1>a, <2>1 DEF SweepRow, Goto, Return
  <2> QED
    BY <2>1, <2>2 DEF SweepIsAlone, Sweeping, At
<1>4. ASSUME NEW c \in Clients, ClientNext(c), ~SweepSelect(c), ~SweepRow(c),
             \A r \in Refs : ~SweepEntries(c, r)
      PROVE  SweepIsAlone'
  <2>1. \/ Abort(c) /\ pc' = [pc EXCEPT ![c] = "idle"]
        \/ /\ MayStart(c) \/ (~At(c, "idle") /\ ~Sweeping(c))
           /\ \/ pc' = pc
              \/ \E label \in Labels \ {"sweep_entries", "sweep_row"} :
                   pc' = [pc EXCEPT ![c] = label]
    <3> DEFINE Ends == \E label \in Labels \ {"sweep_entries", "sweep_row"} :
                         pc' = [pc EXCEPT ![c] = label]
    <3>1. ASSUME \/ \E r \in Refs, i \in Invs : PrintClaim(c, r, i)
                 \/ \E r \in Refs, i \in Invs, done \in 1 .. 4 : PrintTx(c, r, i, done)
                 \/ \E i \in Invs : CopySelect(c, i)
                 \/ \E r \in Refs, before \in 1 .. (MaxSeq + 1) : ClearMeta(c, r, before)
          PROVE  MayStart(c) /\ (pc' = pc \/ Ends)
      BY <3>1 DEF PrintClaim, PrintTx, CopySelect, ClearMeta, Goto, Labels
    <3>2. ASSUME \/ PrintInsert(c) \/ CopyTx(c)
                 \/ EvictMeta(c) \/ EvictDelete(c) \/ EvictUpdate(c)
                 \/ ClearTx(c) \/ ClearDelete(c) \/ ClearUpdate(c) \/ ClearPartial(c)
          PROVE  ~At(c, "idle") /\ ~Sweeping(c) /\ Ends
      BY <3>2 DEF PrintInsert, CopyTx, EvictMeta, EvictDelete, EvictUpdate, ClearTx,
         ClearDelete, ClearUpdate, ClearPartial, At, Sweeping, Goto, Return, Fail, Labels
    <3>3. ASSUME Abort(c) PROVE pc' = [pc EXCEPT ![c] = "idle"]
      BY <3>3 DEF Abort, Fail, Goto
    <3> DEFINE Starts == MayStart(c) /\ (pc' = pc \/ Ends)
               Goes == ~At(c, "idle") /\ ~Sweeping(c) /\ Ends
    <3> HIDE DEF Starts, Goes
    <3>4. Starts \/ Goes \/ Abort(c)
      <4>1. \/ \E r \in Refs, i \in Invs : PrintClaim(c, r, i)
            \/ \E r \in Refs, i \in Invs, done \in 1 .. 4 : PrintTx(c, r, i, done)
            \/ \E i \in Invs : CopySelect(c, i)
            \/ \E r \in Refs, before \in 1 .. (MaxSeq + 1) : ClearMeta(c, r, before)
            \/ PrintInsert(c) \/ CopyTx(c)
            \/ EvictMeta(c) \/ EvictDelete(c) \/ EvictUpdate(c)
            \/ ClearTx(c) \/ ClearDelete(c) \/ ClearUpdate(c) \/ ClearPartial(c)
            \/ Abort(c)
        BY <1>4 DEF ClientNext
      <4> QED
        BY <3>1, <3>2, <4>1 DEF Starts, Goes
    <3> QED
      BY SMTT(30), <3>3, <3>4 DEF Starts, Goes
  <2>2. CASE Abort(c)
    <3>1. loc' = [loc EXCEPT ![c] = NoLoc] /\ pc' = [pc EXCEPT ![c] = "idle"] /\ entries' = entries
      BY <2>2 DEF Abort, Fail, Goto
    <3> QED
      BY <1>a, <3>1 DEF SweepIsAlone, Sweeping, At
  <2>3. CASE /\ MayStart(c) \/ (~At(c, "idle") /\ ~Sweeping(c))
             /\ \/ pc' = pc
                \/ \E label \in Labels \ {"sweep_entries", "sweep_row"} :
                     pc' = [pc EXCEPT ![c] = label]
    <3>1. \A d \in Clients : ~Sweeping(d)
      BY <2>3 DEF SweepIsAlone, MayStart, Sweeping, At
    <3>2. \A d \in Clients : ~Sweeping(d)'
      BY <1>a, <2>3, <3>1 DEF Sweeping
    <3> QED
      BY <3>2 DEF SweepIsAlone
  <2> QED
    BY <2>1, <2>2, <2>3
<1>5. ASSUME pc' = pc, loc' = loc, entries' = entries
      PROVE  SweepIsAlone'
  BY <1>5 DEF SweepIsAlone, Sweeping, At
<1> QED
  BY <1>1, <1>2, <1>3, <1>4, <1>5 DEF Next, vars, Read, TtlPasses

\* The shape of a step that neither inserts a print's entry nor deletes a
\* console: what it adds to a log, it has just claimed.
LEMMA StoreStep ==
  ASSUME TypeInv, RowsStay, [Next]_vars,
         \A c \in Clients : ~PrintInsert(c) /\ ~SweepRow(c), NEW r \in Refs
  PROVE  Grows(r)
<1>a. /\ row \in [Refs -> Row] /\ entries \in [Refs -> SUBSET Entry]
      /\ row[r] \in Row /\ entries[r] \in SUBSET Entry
      /\ row[r] # NoRow => 1 <= row[r].next
      /\ Claimed(row[r]) \in Nat
  BY ClaimFacts DEF TypeInv, TypeOK, RowsStay
<1>b. \A c \in Clients : /\ loc[c].ref \in Refs /\ loc[c].to \in Nat /\ loc[c].first \in Nat
                         /\ loc[c].batch \in SUBSET Entry /\ IsFiniteSet(loc[c].batch)
  BY DEF TypeInv, TypeOK, FiniteLogs, Loc
<1>c. ASSUME row'[r] = row[r], entries'[r] \subseteq entries[r] PROVE Grows(r)
  BY <1>a, <1>c DEF Grows
<1>d. ASSUME NEW E, NEW s PROVE From(E, s) \subseteq E
  BY DEF From
<1>1. ASSUME NEW c \in Clients, NEW q \in Refs, NEW i \in Invs, PrintClaim(c, q, i)
      PROVE  Grows(r)
  <2>1. entries' = entries /\ row' = [row EXCEPT ![q] = ClaimRow(@, 1)]
    BY <1>1 DEF PrintClaim
  <2>2. Claimed(ClaimRow(row[r], 1)) = Claimed(row[r]) + 1
        /\ ClaimRow(row[r], 1).next = Claimed(row[r]) + 1
    BY <1>a, ClaimOne
  <2> QED
    BY <1>a, <1>c, <2>1, <2>2 DEF Grows
<1>2. ASSUME NEW c \in Clients, NEW q \in Refs, NEW i \in Invs, NEW done \in 1 .. 4,
             PrintTx(c, q, i, done)
      PROVE  Grows(r)
  <2>1. CASE q # r
    <3>1. row'[r] = row[r] /\ entries'[r] = entries[r]
      BY <1>2, <1>a, <2>1, PrintTxEffect
    <3> QED
      BY <1>c, <3>1
  <2>2. CASE q = r
    <3> DEFINE R == PrintRow(r)
    <3>1. /\ R \in Row /\ R # NoRow /\ R.next = Claimed(row[r]) + 1 /\ R.first \in Nat
          /\ Claimed(R) = Claimed(row[r]) + 1
      BY <1>a, ClaimOne DEF PrintRow
    <3>2. OverCap(R.first, R.next) =>
            /\ EvictRow(R, R.first, PrintTo(r)).next = Claimed(row[r]) + 1
            /\ Claimed(EvictRow(R, R.first, PrintTo(r))) = Claimed(row[r]) + 1
      BY <3>1, <1>a, NewFirstFacts, FirstKeepsClaims DEF PrintTo
    <3>3. \/ row'[r] = R
          \/ OverCap(R.first, R.next) /\ row'[r] = EvictRow(R, R.first, PrintTo(r))
      BY <1>2, <1>a, <2>2, PrintTxEffect
    <3>4. entries'[r] \subseteq PrintLog(r, i)
      <4>1. entries[r] \subseteq PrintLog(r, i)
        BY DEF PrintLog
      <4>2. From(PrintLog(r, i), PrintTo(r)) \subseteq PrintLog(r, i)
        BY <1>d
      <4> QED
        BY <1>2, <1>a, <2>2, <4>1, <4>2, PrintTxEffect
    <3> HIDE DEF R
    <3>5. Claimed(row'[r]) = Claimed(row[r]) + 1 /\ row'[r].next = Claimed(row[r]) + 1
      BY <3>1, <3>2, <3>3
    <3>6. ASSUME NEW e \in entries'[r], e \notin entries[r]
          PROVE  e.seq = Claimed(row[r])
      BY <3>4, <3>6 DEF PrintLog
    <3> QED
      BY <1>a, <3>5, <3>6 DEF Grows
  <2> QED
    BY <2>1, <2>2
<1>3. ASSUME NEW c \in Clients, CopyTx(c)
      PROVE  Grows(r)
  <2> DEFINE B == loc[c].batch
             new == Renumber(B, Claimed(row[CopyTo]))
             R == ClaimRow(row[CopyTo], Cardinality(B))
  <2>1. CASE UNCHANGED store
    BY <1>c, <2>1 DEF store
  <2>2. CASE /\ row' = [row EXCEPT ![CopyTo] = R]
             /\ entries' = [entries EXCEPT ![CopyTo] = @ \union new]
    <3>1. Cardinality(B) \in Nat
      BY <1>b, FS_CardinalityType
    <3>2. CASE CopyTo # r
      BY <1>a, <1>c, <2>2, <3>2
    <3>3. CASE CopyTo = r
      <4>1. \A n \in new : Claimed(row[r]) <= n.seq /\ n.seq < Claimed(row[r]) + Cardinality(B)
        BY <1>a, <1>b, <3>3, RenumberFacts
      <4>2. R.next = Claimed(row[r]) + Cardinality(B) /\ R \in Row
        BY <1>a, <3>1, <3>3, ClaimFacts
      <4>3. Claimed(R) = Claimed(row[r]) + Cardinality(B) /\ (R # NoRow => 1 <= R.next)
        <5>1. CASE Cardinality(B) > 0
          BY <1>a, <3>1, <3>3, <4>2, <5>1, ClaimFacts
        <5>2. CASE Cardinality(B) = 0
          <6>1. R.next = Claimed(row[r]) /\ 1 <= Claimed(row[r])
            BY <1>a, <4>2, <5>2 DEF Claimed
          <6>2. R # NoRow
            BY <6>1 DEF NoRow
          <6> QED
            BY <1>a, <5>2, <6>1, <6>2 DEF Claimed
        <5> QED
          BY <3>1, <5>1, <5>2
      <4> HIDE DEF R, new
      <4>4. row'[r] = R /\ entries'[r] = entries[r] \union new
        BY <1>a, <2>2, <3>3
      <4> QED
        BY <1>a, <3>1, <4>1, <4>3, <4>4 DEF Grows
    <3> QED
      BY <3>2, <3>3
  <2> QED
    BY <1>3, <2>1, <2>2 DEF CopyTx
<1>4. ASSUME NEW c \in Clients,
             \/ row' = row
             \/ row' = [row EXCEPT ![loc[c].ref] = SetFirst(@, loc[c].to)]
             \/ /\ row[loc[c].ref] # NoRow
                /\ row' = [row EXCEPT ![loc[c].ref] = EvictRow(@, loc[c].first, loc[c].to)],
             \/ entries' = entries
             \/ entries' = [entries EXCEPT ![loc[c].ref] = From(@, loc[c].to)]
      PROVE  Grows(r)
  <2>1. entries'[r] \subseteq entries[r]
    BY <1>4, <1>a, <1>d
  <2>2. CASE row'[r] = row[r]
    BY <1>c, <2>1, <2>2
  <2>3. CASE row'[r] = SetFirst(row[r], loc[c].to)
    BY <1>a, <1>b, <2>1, <2>3, FirstKeepsClaims DEF Grows
  <2>4. CASE row[r] # NoRow /\ row'[r] = EvictRow(row[r], loc[c].first, loc[c].to)
    BY <1>a, <1>b, <2>1, <2>4, FirstKeepsClaims DEF Grows
  <2> QED
    BY <1>4, <1>a, <2>2, <2>3, <2>4
<1>5. ASSUME NEW c \in Clients,
             \/ EvictDelete(c) \/ EvictUpdate(c)
             \/ ClearTx(c) \/ ClearDelete(c) \/ ClearUpdate(c) \/ ClearPartial(c)
      PROVE  Grows(r)
  BY <1>5, <1>4 DEF EvictDelete, EvictUpdate, ClearTx, ClearDelete, ClearUpdate, ClearPartial
<1>6. ASSUME UNCHANGED store PROVE Grows(r)
  BY <1>6, <1>c DEF store
<1>7. ASSUME NEW c \in Clients, NEW q \in Refs, SweepEntries(c, q) PROVE Grows(r)
  <2>1. row' = row /\ entries'[r] \subseteq entries[r]
    BY <1>7, <1>a DEF SweepEntries
  <2> QED
    BY <1>c, <2>1
<1>8. ASSUME NEW q \in Refs, TtlPasses(q) PROVE Grows(r)
  <2>1. CASE q # r
    BY <1>8, <1>a, <1>c, <2>1 DEF TtlPasses
  <2>2. CASE q = r
    <3> DEFINE R == [row[r] EXCEPT !.fresh = FALSE]
    <3>1. row[r] # NoRow /\ row'[r] = R /\ entries'[r] = entries[r]
      BY <1>8, <1>a, <2>2 DEF TtlPasses, NoRow
    <3>2. R.next = row[r].next /\ 1 <= row[r].next /\ row[r].next \in Nat
      BY <1>a, <3>1 DEF Row
    <3>3. R # NoRow
      BY <3>2 DEF NoRow
    <3> HIDE DEF R
    <3> QED
      BY <3>1, <3>2, <3>3 DEF Grows, Claimed
  <2> QED
    BY <2>1, <2>2
<1>9. \/ UNCHANGED store
      \/ \E q \in Refs : TtlPasses(q)
      \/ \E c \in Clients :
           \/ \E q \in Refs, i \in Invs : PrintClaim(c, q, i)
           \/ \E q \in Refs, i \in Invs, done \in 1 .. 4 : PrintTx(c, q, i, done)
           \/ \E q \in Refs : SweepEntries(c, q)
           \/ CopyTx(c) \/ EvictDelete(c) \/ EvictUpdate(c)
           \/ ClearTx(c) \/ ClearDelete(c) \/ ClearUpdate(c) \/ ClearPartial(c)
  BY DEF Next, ClientNext, vars, store, CopySelect, EvictMeta, ClearMeta, SweepSelect, Abort, Read
<1> QED
  BY <1>1, <1>2, <1>3, <1>5, <1>6, <1>7, <1>8, <1>9

\* A client about to insert was about to insert the same before, or has just
\* claimed.
LEMMA WhoInserts ==
  ASSUME TypeInv, [Next]_vars, NEW c \in Clients, pc'[c] = "print_insert"
  PROVE  \/ pc[c] = "print_insert" /\ loc'[c] = loc[c] /\ ~PrintInsert(c)
         \/ \E r \in Refs, i \in Invs : PrintClaim(c, r, i)
<1>1. pc \in [Clients -> Labels] /\ loc \in [Clients -> Loc]
  BY DEF TypeInv, TypeOK
<1>2. ~PrintInsert(c)
  BY <1>1 DEF PrintInsert, Fail, Goto
<1>3. ASSUME NEW d \in Clients, ClientNext(d), ~(\E r \in Refs, i \in Invs : PrintClaim(c, r, i))
      PROVE  pc[c] = "print_insert" /\ loc'[c] = loc[c]
  <2>1. CASE d = c
    <3>1. ASSUME pc' = pc, loc' = loc PROVE pc[c] = "print_insert" /\ loc'[c] = loc[c]
      BY <3>1
    <3>2. \/ pc' = pc /\ loc' = loc
          \/ \E label \in Labels \ {"print_insert"} : pc' = [pc EXCEPT ![c] = label]
      BY <1>3, <1>2, <2>1 DEF ClientNext, At, Goto, Return, Fail, Labels, PrintTx,
         CopySelect, CopyTx, EvictMeta, EvictDelete, EvictUpdate, ClearMeta,
         ClearTx, ClearDelete, ClearUpdate, ClearPartial, SweepSelect, SweepEntries,
         SweepRow, Abort
    <3> QED
      BY <1>1, <3>1, <3>2
  <2>2. CASE d # c
    <3>1. \/ pc' = pc /\ loc' = loc
          \/ \E label \in Labels : \E l : pc' = [pc EXCEPT ![d] = label] /\ loc' = [loc EXCEPT ![d] = l]
      BY <1>3 DEF ClientNext, At, Goto, Return, Fail, Labels, PrintClaim, PrintInsert, PrintTx,
         CopySelect, CopyTx, EvictMeta, EvictDelete, EvictUpdate, ClearMeta,
         ClearTx, ClearDelete, ClearUpdate, ClearPartial, SweepSelect, SweepEntries,
         SweepRow, Abort
    <3> QED
      BY <1>1, <2>2, <3>1
  <2> QED
    BY <2>1, <2>2
<1>4. ASSUME (\E q \in Readers : Read(q)) \/ (\E r \in Refs : TtlPasses(r)) \/ UNCHANGED vars
      PROVE  pc' = pc /\ loc' = loc
  BY <1>4 DEF Read, TtlPasses, vars
<1> QED
  BY <1>2, <1>3, <1>4 DEF Next

\* Every step keeps claims fresh.
LEMMA ClaimsStep ==
  ASSUME TypeInv, RowsStay, SweepIsAlone, ClaimsAreFresh, [Next]_vars
  PROVE  ClaimsAreFresh' /\ RowsStay'
<1>a. /\ row \in [Refs -> Row] /\ entries \in [Refs -> SUBSET Entry]
      /\ pc \in [Clients -> Labels] /\ loc \in [Clients -> Loc]
  BY DEF TypeInv, TypeOK
<1>b. \A r \in Refs : row[r] \in Row /\ Claimed(row[r]) \in Nat
  BY <1>a, ClaimFacts
<1>c. \A r \in Refs : \A e \in entries[r] : e.seq \in Nat
  BY <1>a DEF Entry
<1>d. \A c \in Clients : loc[c].ref \in Refs /\ loc[c].seq \in Nat /\ loc[c].inv \in Invs
  BY <1>a DEF Loc
<1>e. TypeInv'
  BY TypeInvStep
<1>g. row' \in [Refs -> Row] /\ entries' \in [Refs -> SUBSET Entry] /\ loc' \in [Clients -> Loc]
  BY <1>e DEF TypeInv, TypeOK
<1>f. /\ \A r \in Refs : Claimed(row'[r]) \in Nat /\ \A e \in entries'[r] : e.seq \in Nat
      /\ \A c \in Clients : loc'[c].ref \in Refs /\ loc'[c].seq \in Nat
  <2>1. \A r \in Refs : Claimed(row'[r]) \in Nat
    <3>1. \A r \in Refs : row'[r] \in Row
      BY <1>g
    <3> QED
      BY <3>1, ClaimFacts
  <2>2. \A r \in Refs : \A e \in entries'[r] : e.seq \in Nat
    BY <1>g DEF Entry
  <2>3. \A c \in Clients : loc'[c].ref \in Refs /\ loc'[c].seq \in Nat
    BY <1>g DEF Loc
  <2> QED
    BY <2>1, <2>2, <2>3
<1>1. ASSUME NEW d \in Clients, PrintInsert(d)
      PROVE  ClaimsAreFresh' /\ RowsStay'
  <2> DEFINE l == loc[d]
             new == [seq |-> l.seq, inv |-> l.inv, org |-> 0]
  <2>1. row' = row /\ pc[d] = "print_insert"
    BY <1>1 DEF PrintInsert, At
  <2>2. \A r \in Refs : \A e \in entries'[r] :
          e \in entries[r] \/ (r = l.ref /\ e.seq = l.seq)
    BY <1>1, <1>a, <1>d DEF PrintInsert
  <2>3. l.seq < Claimed(row[l.ref])
    BY <2>1 DEF ClaimsAreFresh, At
  <2>4. \A r \in Refs : \A e \in entries'[r] : e.seq < Claimed(row'[r])
    BY <2>1, <2>2, <2>3 DEF ClaimsAreFresh
  <2>5. \A c \in Clients : pc'[c] = "print_insert" =>
          c # d /\ pc[c] = "print_insert" /\ loc'[c] = loc[c]
    BY <1>1, <1>a DEF PrintInsert, Goto, Fail
  <2>6. ASSUME NEW c \in Clients, pc'[c] = "print_insert"
        PROVE  /\ loc'[c].seq < Claimed(row'[loc'[c].ref])
               /\ loc'[c].seq \notin Seqs(entries'[loc'[c].ref])
    <3>1. c # d /\ pc[c] = "print_insert" /\ loc'[c] = loc[c]
      BY <2>5, <2>6
    <3>2. /\ loc[c].seq < Claimed(row[loc[c].ref])
          /\ loc[c].seq \notin Seqs(entries[loc[c].ref])
          /\ loc[d].ref = loc[c].ref => loc[d].seq # loc[c].seq
      BY <2>1, <3>1 DEF ClaimsAreFresh, At
    <3> QED
      BY <1>d, <2>1, <2>2, <3>1, <3>2 DEF Seqs
  <2>7. ClaimsAreFresh'
    BY <2>4, <2>5, <2>6 DEF ClaimsAreFresh, At
  <2> QED
    BY <2>1, <2>7 DEF RowsStay
<1>2. ASSUME \A c \in Clients : ~PrintInsert(c) /\ ~SweepRow(c)
      PROVE  ClaimsAreFresh' /\ RowsStay'
  <2>1. \A r \in Refs : Grows(r)
    BY <1>2, StoreStep
  <2>2. \A r \in Refs : \A e \in entries'[r] : e.seq < Claimed(row'[r])
    BY <1>b, <1>c, <1>f, <2>1 DEF Grows, ClaimsAreFresh
  <2>3. ASSUME NEW c \in Clients, pc[c] = "print_insert", loc'[c] = loc[c]
        PROVE  /\ loc'[c].seq < Claimed(row'[loc'[c].ref])
               /\ loc'[c].seq \notin Seqs(entries'[loc'[c].ref])
    <3>1. loc[c].seq < Claimed(row[loc[c].ref]) /\ loc[c].seq \notin Seqs(entries[loc[c].ref])
      BY <2>3 DEF ClaimsAreFresh, At
    <3>2. Claimed(row[loc[c].ref]) <= Claimed(row'[loc[c].ref])
      BY <1>d, <2>1 DEF Grows
    <3>3. ASSUME NEW e \in entries'[loc[c].ref] PROVE e.seq # loc[c].seq
      <4>1. e \in entries[loc[c].ref] \/ Claimed(row[loc[c].ref]) <= e.seq
        BY <1>d, <2>1 DEF Grows
      <4> QED
        BY <1>b, <1>d, <1>f, <3>1, <4>1 DEF Seqs
    <3> QED
      BY <1>b, <1>d, <1>f, <2>3, <3>1, <3>2, <3>3 DEF Seqs
  <2>4. ASSUME NEW c \in Clients, NEW r \in Refs, NEW i \in Invs, PrintClaim(c, r, i)
        PROVE  /\ loc'[c].ref = r /\ loc'[c].seq = Claimed(row[r])
               /\ Claimed(row'[r]) = Claimed(row[r]) + 1
               /\ entries' = entries /\ pc[c] = "idle"
               /\ \A d \in Clients \ {c} : pc'[d] = pc[d] /\ loc'[d] = loc[d]
    <3>1. row'[r] = ClaimRow(row[r], 1)
      BY <2>4, <1>a DEF PrintClaim
    <3>2. [NoLoc EXCEPT !.ref = r, !.inv = i, !.seq = Claimed(row[r])].ref = r
          /\ [NoLoc EXCEPT !.ref = r, !.inv = i, !.seq = Claimed(row[r])].seq = Claimed(row[r])
      BY DEF NoLoc
    <3> QED
      BY <2>4, <1>a, <1>b, <3>1, <3>2, ClaimOne DEF PrintClaim, MayStart, Goto, At
  <2>5. ASSUME NEW c \in Clients, NEW r \in Refs, NEW i \in Invs, PrintClaim(c, r, i)
        PROVE  /\ loc'[c].seq < Claimed(row'[loc'[c].ref])
               /\ loc'[c].seq \notin Seqs(entries'[loc'[c].ref])
               /\ \A d \in Clients \ {c} : pc'[d] = "print_insert" /\ loc'[d].ref = loc'[c].ref
                     => loc'[d].seq # loc'[c].seq
    <3>1. \A e \in entries'[r] : e.seq < Claimed(row[r])
      BY <2>4, <2>5 DEF ClaimsAreFresh
    <3>2. \A d \in Clients \ {c} : pc'[d] = "print_insert" /\ loc'[d].ref = r
                     => loc'[d].seq < Claimed(row[r])
      BY <2>4, <2>5 DEF ClaimsAreFresh, At
    <3> QED
      BY <1>b, <1>c, <1>d, <1>f, <2>4, <2>5, <3>1, <3>2 DEF Seqs
  <2>6. ASSUME NEW c \in Clients, pc'[c] = "print_insert"
        PROVE  /\ loc'[c].seq < Claimed(row'[loc'[c].ref])
               /\ loc'[c].seq \notin Seqs(entries'[loc'[c].ref])
    BY <2>3, <2>5, <2>6, WhoInserts
  <2>7. ASSUME NEW c \in Clients, NEW d \in Clients \ {c}, pc'[c] = "print_insert",
               pc'[d] = "print_insert", loc'[d].ref = loc'[c].ref
        PROVE  loc'[d].seq # loc'[c].seq
    <3>1. CASE \E r \in Refs, i \in Invs : PrintClaim(c, r, i)
      BY <2>5, <2>7, <3>1
    <3>2. CASE \E r \in Refs, i \in Invs : PrintClaim(d, r, i)
      BY <2>5, <2>7, <3>2
    <3>3. CASE pc[c] = "print_insert" /\ loc'[c] = loc[c] /\ pc[d] = "print_insert" /\ loc'[d] = loc[d]
      BY <2>7, <3>3 DEF ClaimsAreFresh, At
    <3> QED
      BY <2>7, <3>1, <3>2, <3>3, WhoInserts
  <2>8. ClaimsAreFresh'
    BY <2>2, <2>6, <2>7 DEF ClaimsAreFresh, At
  <2> QED
    BY <2>1, <2>8 DEF RowsStay, Grows
<1>3. ASSUME NEW d \in Clients, SweepRow(d)
      PROVE  ClaimsAreFresh' /\ RowsStay'
  <2> DEFINE r == loc[d].ref
  <2>1. /\ entries' = entries /\ row' = [row EXCEPT ![r] = NoRow] /\ entries[r] = {}
        /\ \A c \in Clients \ {d} : pc[c] = "idle"
    BY <1>3 DEF SweepRow, SweepIsAlone, Sweeping, At
  <2>2. \A c \in Clients : pc'[c] # "print_insert"
    BY <1>3, <1>a, <2>1 DEF SweepRow, Goto, Return
  <2>3. \A q \in Refs : q = r \/ row'[q] = row[q]
    BY <1>a, <2>1
  <2>4. row'[r] = NoRow
    BY <1>a, <1>d, <2>1
  <2> QED
    BY <2>1, <2>2, <2>3, <2>4 DEF ClaimsAreFresh, RowsStay, At
<1> QED
  BY <1>1, <1>2, <1>3

\* What makes claims fresh holds in every reachable state, when a sweep, if
\* any, is alone.
LEMMA ConsoleClaimsInv ==
  ASSUME "sweep" \in Ops => SweepAlone
  PROVE  Spec => []ClaimsInv
<1>1. Init => RowsStay /\ SweepIsAlone /\ ClaimsAreFresh
  BY DEF Init, ClaimsAreFresh, RowsStay, SweepIsAlone, Sweeping, At
<1>2. ClaimsInv /\ [Next]_vars => ClaimsInv'
  BY TypeInvStep, SweepIsAloneStep, ClaimsStep DEF ClaimsInv
<1> QED
  BY <1>1, <1>2, TypeInvInit, PTL DEF Spec, ClaimsInv

\* No seq is given to two entries (console.rs:171-188), with one process on the
\* database or where nothing sweeps expired consoles: each claim is below
\* next_seq, unused and held by one printer.
THEOREM ConsoleClaimsAreFresh ==
  ASSUME "sweep" \in Ops => SweepAlone
  PROVE  Spec => []ClaimsAreFresh
BY ConsoleClaimsInv, PTL DEF ClaimsInv

\* Under the same condition a claim never covers the seq of an entry that the
\* console has: seq is never reused (console.rs:27).
THEOREM ConsoleSeqNeverReused ==
  ASSUME "sweep" \in Ops => SweepAlone
  PROVE  Spec => SeqNeverReused
<1> DEFINE Fresh(r) == row'[r] # NoRow /\ row'[r].next # row[r].next =>
             Seqs(entries[r]) \intersect (Claimed(row[r]) .. (row'[r].next - 1)) = {}
<1>1. ClaimsInv => \A r \in Refs : Fresh(r)
  <2> SUFFICES ASSUME ClaimsInv, NEW r \in Refs PROVE Fresh(r)
    OBVIOUS
  <2>1. \A e \in entries[r] : e.seq \in Nat /\ e.seq < Claimed(row[r])
    BY DEF ClaimsInv, ClaimsAreFresh, TypeInv, TypeOK, Entry
  <2>2. Claimed(row[r]) \in Nat
    BY ClaimFacts DEF ClaimsInv, TypeInv, TypeOK
  <2> QED
    BY <2>1, <2>2 DEF Seqs
<1> QED
  BY <1>1, ConsoleClaimsInv, PTL DEF Spec, SeqNeverReused

-----------------------------------------------------------------------------
(* The actions                                                               *)

\* Whatever parameters a handler is called with, what it prints goes to the
\* console of its caller and what it asks is about its caller's invocation;
\* called by nobody, it does neither (solx-console/src/actions.rs).
THEOREM HandlersKeepToCaller ==
  ASSUME NEW fn \in HandlerNames, NEW params, NEW caller
  PROVE  ScopeLaw(fn, params, caller)
<1> DEFINE does == Handle(fn, params, caller)
<1>1. /\ does.op \in {"print", "copy"} => caller # <<>> /\ does.on = caller[1]
      /\ does.op = "cancelled" => caller # <<>> /\ does.invocation = caller[2]
  <2>1. CASE does = Refuse
    BY <2>1 DEF Refuse
  <2>2. CASE does # Refuse
    <3>1. fn \in CallerScoped => caller # <<>>
      BY <2>2 DEF Handle
    <3>2. CASE fn = "console-print"
      BY <2>2, <3>1, <3>2 DEF Handle, ConsolePrint, CallerScoped
    <3>3. CASE fn = "console-copy"
      BY <2>2, <3>1, <3>3 DEF Handle, ConsoleCopy, CallerScoped
    <3>4. CASE fn = "action-cancelled"
      BY <2>2, <3>1, <3>4 DEF Handle, ActionCancelled, CallerScoped
    <3>5. CASE fn \notin CallerScoped
      <4>1. does.op \in {"read", "tail", "clear", "list", "start", "stop", "poll"}
        BY <2>2, <3>5 DEF Handle, HandlerNames, CallerScoped, ConsoleRead, ConsoleTail, ConsoleClear,
           ConsoleList, ActionStart, ActionStop, ActionPoll
      <4> QED
        BY <4>1
    <3> QED
      BY <3>2, <3>3, <3>4, <3>5 DEF CallerScoped
  <2> QED
    BY <2>1, <2>2
<1> QED
  BY <1>1 DEF ScopeLaw
=============================================================================
