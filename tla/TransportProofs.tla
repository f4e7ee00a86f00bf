--------------------------- MODULE TransportProofs ---------------------------
(* Theorems about the OAuth loopback, the HTTP streams and a run of a       *)
(* Command, for every set of flows, calls, pollers, sizes of line and       *)
(* programs and every value of the bounds.                                  *)
EXTENDS OAuthLoopback, HttpStream, Command, NaturalOrder, SequenceTheorems, TLAPS

------------------------------------------------------------------------------
(* OAuthLoopback *)

\* `stop_listener` keeps the registry, the inbox and the signals within the
\* flows.
LEMMA StopListenerTypes ==
  ASSUME OauTypeOK, NEW f \in Flows, StopListener(f)
  PROVE  oauSignal' \subseteq Flows /\ oauRegistry' \subseteq Flows /\ oauInbox' \subseteq Flows
BY DEF OauTypeOK, StopListener

\* A call's record is well formed whatever it goes on with.
LEMMA AwaitGoesTypes ==
  ASSUME OauTypeOK, NEW a \in Awaits, NEW pc \in {"idle", "wait", "release"},
         NEW f \in Flows \cup {NoFlow}, AwaitGoes(a, pc, f)
  PROVE  oauAwait' \in [Awaits -> [pc : {"idle", "wait", "release"}, flow : Flows \cup {NoFlow}]]
BY DEF OauTypeOK, AwaitGoes

\* The steps of a start leave its record well formed.
LEMMA GotoTypes ==
  ASSUME OauTypeOK, NEW f \in Flows,
         NEW pc \in {"idle", "reclaim", "failed", "bound", "inbox", "started"}, Goto(f, pc)
  PROVE  oauStart' \in [Flows -> {"idle", "reclaim", "failed", "bound", "inbox", "started"}]
BY DEF OauTypeOK, Goto

\* A call that is no longer idle holds on to a flow that was started, and an
\* idle one to none: nothing it stops, takes or puts back is made up.
AwaitsRealFlow ==
  \A a \in Awaits : IF oauAwait[a].pc = "idle" THEN oauAwait[a].flow = NoFlow
                    ELSE oauAwait[a].flow \in Flows /\ oauStart[oauAwait[a].flow] = "started"
\* Only a flow whose start returned is found on the port, stopped or signalled.
StartedOnly ==
  /\ \A f \in oauRegistry \cup oauSignal : oauStart[f] = "started"
  /\ \A f \in Flows : \A g \in oauStale[f] : oauStart[g] = "started"
\* A start that has not returned: its server is not there before the bind,
\* and after it serves undisturbed, and its receiver is where it was put.
StartInProgress ==
  \A f \in Flows :
    /\ oauStart[f] \in {"idle", "reclaim", "failed"} => oauServer[f] = "none"
    /\ oauStart[f] \in {"bound", "inbox"} => oauServer[f] = "serving"
    /\ oauStart[f] = "inbox" => f \in oauInbox
    /\ f \in oauInbox => oauStart[f] \in {"inbox", "started"}
\* The receiver of a flow has one owner.
OneOwner ==
  /\ \A f \in oauInbox : \A a \in Awaits : ~Holds(a, f)
  /\ \A f \in Flows : \A a, b \in Awaits : Holds(a, f) /\ Holds(b, f) => a = b
\* A served flow nobody stopped has its handle and its receiver.
Reachable ==
  \A f \in Flows :
    oauStart[f] = "started" /\ oauServer[f] = "serving" /\ f \notin oauSignal =>
      /\ f \in oauRegistry
      /\ f \in oauInbox \/ \E a \in Awaits : oauAwait[a].flow = f
OauIInv == AwaitsRealFlow /\ StartedOnly /\ StartInProgress /\ OneOwner /\ Reachable

\* No step takes a variable out of its type. What a timeout puts back into the
\* inbox is a flow only because a waiting call has one (AwaitsRealFlow).
LEMMA OauStepKeepsTypes ==
  ASSUME OauTypeOK, OauIInv, [OauNext]_oauVars
  PROVE  OauTypeOK'
<1>1. ASSUME NEW f \in Flows, OauReclaim(f) PROVE OauTypeOK'
  BY <1>1, GotoTypes DEF OauReclaim, OauTypeOK
<1>2. ASSUME NEW f \in Flows, OauSupersede(f) PROVE OauTypeOK'
  BY <1>2, StopListenerTypes DEF OauSupersede, OauTypeOK
<1>3. ASSUME NEW f \in Flows, OauBind(f) PROVE OauTypeOK'
  <2>1. oauServer' \in [Flows -> {"none", "serving", "closing", "closed", "gone"}]
    BY <1>3 DEF OauBind, OauTypeOK
  <2> QED
    BY <1>3, <2>1, GotoTypes DEF OauBind, OauTypeOK
<1>4. ASSUME NEW f \in Flows, OauInboxPut(f) PROVE OauTypeOK'
  BY <1>4, GotoTypes DEF OauInboxPut, OauTypeOK
<1>5. ASSUME NEW f \in Flows, OauRegister(f) PROVE OauTypeOK'
  BY <1>5, GotoTypes DEF OauRegister, OauTypeOK
<1>6. ASSUME NEW f \in Flows, OauCallback(f) PROVE OauTypeOK'
  BY <1>6 DEF OauCallback, OauTypeOK
<1>7. ASSUME NEW f \in Flows, OauExpire(f) \/ OauShutdown(f) \/ OauClosed(f) PROVE OauTypeOK'
  BY <1>7 DEF OauExpire, OauShutdown, OauClosed, ServerGoes, OauTypeOK
<1>8. ASSUME NEW f \in Flows, OauExit(f) \/ OauStop(f) PROVE OauTypeOK'
  BY <1>8, StopListenerTypes DEF OauExit, OauStop, ServerGoes, OauTypeOK
<1>9. ASSUME NEW a \in Awaits, OauAwait(a) PROVE OauTypeOK'
  <2>1. PICK f \in oauInbox : AwaitGoes(a, "wait", f) /\ oauInbox' = oauInbox \ {f}
    BY <1>9 DEF OauAwait
  <2> QED
    BY <1>9, <2>1, AwaitGoesTypes DEF OauAwait, OauTypeOK
<1>10. ASSUME NEW a \in Awaits,
              OauTake(a) \/ OauNoSender(a) \/ OauTimesOut(a) \/ OauCancelled(a)
       PROVE  OauTypeOK'
  <2>1. oauAwait[a].flow \in Flows
    BY <1>10 DEF OauTake, OauNoSender, OauTimesOut, OauCancelled, Waiting, OauIInv, AwaitsRealFlow
  <2>2. oauAwait' \in [Awaits -> [pc : {"idle", "wait", "release"}, flow : Flows \cup {NoFlow}]]
    BY <1>10, <2>1, AwaitGoesTypes DEF OauTake, OauNoSender, OauTimesOut, OauCancelled
  <2>3. oauSent' \in [Flows -> {"open", "sent", "taken", "dropped"}] /\ oauInbox' \subseteq Flows
    BY <1>10, <2>1 DEF OauTake, OauNoSender, OauTimesOut, OauCancelled, OauTypeOK
  <2>4. UNCHANGED <<oauStart, oauStale, oauServer, oauSignal, oauRegistry>>
    BY <1>10 DEF OauTake, OauNoSender, OauTimesOut, OauCancelled, Waiting
  <2> QED
    BY <2>2, <2>3, <2>4 DEF OauTypeOK
<1>11. ASSUME NEW a \in Awaits, OauRelease(a) PROVE OauTypeOK'
  <2>1. oauSignal' \subseteq Flows /\ oauRegistry' \subseteq Flows /\ oauInbox' \subseteq Flows
    BY <1>11 DEF OauTypeOK, OauRelease, StopListener
  <2> QED
    BY <1>11, <2>1, AwaitGoesTypes DEF OauRelease, OauTypeOK
<1>12. CASE UNCHANGED oauVars
  BY <1>12 DEF oauVars, OauTypeOK
<1> QED
  BY <1>1, <1>2, <1>3, <1>4, <1>5, <1>6, <1>7, <1>8, <1>9, <1>10, <1>11, <1>12
     DEF OauNext, OauServerStep
\* No step breaks the invariant: a start that has not returned is disturbed
\* by nobody, and the handle or the receiver of a started flow leaves its
\* place only together with a signal to its server, or from one owner to the
\* next.
LEMMA OauStepKeepsIInv ==
  ASSUME OauTypeOK, OauIInv, [OauNext]_oauVars
  PROVE  OauIInv'
<1> USE DEF OauTypeOK, OauIInv, AwaitsRealFlow, StartedOnly, StartInProgress, OneOwner, Reachable
<1>1. ASSUME NEW f \in Flows, OauReclaim(f) PROVE OauIInv'
  BY <1>1 DEF OauReclaim, Goto, Holds
<1>2. ASSUME NEW f \in Flows, OauSupersede(f) PROVE OauIInv'
  BY <1>2 DEF OauSupersede, StopListener, Holds
<1>3. ASSUME NEW f \in Flows, OauBind(f) PROVE OauIInv'
  BY <1>3 DEF OauBind, Goto, Holds
<1>4. ASSUME NEW f \in Flows, OauInboxPut(f) PROVE OauIInv'
  BY <1>4 DEF OauInboxPut, Goto, Holds
<1>5. ASSUME NEW f \in Flows, OauRegister(f) PROVE OauIInv'
  BY <1>5 DEF OauRegister, Goto, Holds
<1>6. ASSUME NEW f \in Flows, OauCallback(f) PROVE OauIInv'
  BY <1>6 DEF OauCallback, Holds
<1>7. ASSUME NEW f \in Flows, OauExpire(f) \/ OauShutdown(f) \/ OauClosed(f) PROVE OauIInv'
  BY <1>7 DEF OauExpire, OauShutdown, OauClosed, ServerGoes, Holds
<1>8. ASSUME NEW f \in Flows, OauExit(f) PROVE OauIInv'
  BY <1>8 DEF OauExit, ServerGoes, StopListener, Holds
<1>9. ASSUME NEW f \in Flows, OauStop(f) PROVE OauIInv'
  BY <1>9 DEF OauStop, StopListener, Holds
<1>10. ASSUME NEW a \in Awaits, OauAwait(a) PROVE OauIInv'
  BY <1>10, OauAssumption DEF OauAwait, AwaitGoes, Holds
<1>11. ASSUME NEW a \in Awaits, OauTake(a) \/ OauNoSender(a) \/ OauCancelled(a) PROVE OauIInv'
  <2>1. /\ oauAwait[a].pc = "wait"
        /\ AwaitGoes(a, "release", oauAwait[a].flow)
        /\ UNCHANGED <<oauStart, oauStale, oauServer, oauSignal, oauRegistry, oauInbox>>
    BY <1>11 DEF OauTake, OauNoSender, OauCancelled, Waiting
  <2> QED
    BY <2>1 DEF AwaitGoes, Holds
<1>12. ASSUME NEW a \in Awaits, OauTimesOut(a) PROVE OauIInv'
  BY <1>12, OauAssumption DEF OauTimesOut, Waiting, AwaitGoes, Holds
<1>13. ASSUME NEW a \in Awaits, OauRelease(a) PROVE OauIInv'
  BY <1>13, OauAssumption DEF OauRelease, StopListener, AwaitGoes, Holds
<1>14. CASE UNCHANGED oauVars
  BY <1>14 DEF oauVars, Holds
<1> QED
  BY <1>1, <1>2, <1>3, <1>4, <1>5, <1>6, <1>7, <1>8, <1>9, <1>10, <1>11, <1>12, <1>13, <1>14
     DEF OauNext, OauServerStep

\* One owner at most means at most one: what OneOwner says of two calls, said
\* of the number of them.
LEMMA OneOwnerCounted ==
  ASSUME OneOwner, NEW f \in Flows
  PROVE  Cardinality({a \in Awaits : Holds(a, f)}) <= 1
<1>1. CASE \E a \in Awaits : Holds(a, f)
  <2>1. PICK a \in Awaits : Holds(a, f)
    BY <1>1
  <2>2. {b \in Awaits : Holds(b, f)} = {a}
    BY <2>1 DEF OneOwner
  <2>3. Cardinality({a}) = 1
    BY FS_Singleton
  <2> QED
    BY <2>2, <2>3
<1>2. CASE ~\E a \in Awaits : Holds(a, f)
  <2>1. {a \in Awaits : Holds(a, f)} = {}
    BY <1>2
  <2>2. Cardinality({}) = 0
    BY FS_EmptySet
  <2> QED
    BY <2>1, <2>2
<1> QED
  BY <1>1, <1>2

\* The variables keep their types and the invariant holds, whatever order the
\* starts, the servers and the awaits take their steps in.
THEOREM OauInvariant == OauSpec => [](OauTypeOK /\ OauIInv)
<1>1. OauInit => OauTypeOK /\ OauIInv
  <2> SUFFICES ASSUME OauInit PROVE OauTypeOK /\ OauIInv
    OBVIOUS
  <2>1. OauTypeOK
    BY DEF OauInit, OauTypeOK
  <2>2. OauIInv
    BY DEF OauInit, OauIInv, AwaitsRealFlow, StartedOnly, StartInProgress, OneOwner, Reachable, Holds
  <2> QED
    BY <2>1, <2>2
<1>2. OauTypeOK /\ OauIInv /\ [OauNext]_oauVars => (OauTypeOK /\ OauIInv)'
  BY OauStepKeepsTypes, OauStepKeepsIInv
<1> QED
  BY <1>1, <1>2, PTL DEF OauSpec

\* A login in progress can be finished and superseded (LoginReachable), for
\* any number of flows and of calls that await them.
THEOREM OauLoginReachable == OauSpec => []LoginReachable
<1>1. OauIInv => LoginReachable
  BY OneOwnerCounted DEF OauIInv, OneOwner, Reachable, LoginReachable
<1> QED
  BY <1>1, OauInvariant, PTL

------------------------------------------------------------------------------
(* HttpStream *)

\* What is left of the counter after each eviction is a natural number: a
\* chunk never takes more off it than it holds (push_line's saturating_sub).
LEMMA BytesAfterType ==
  ASSUME NEW chunks \in Seq(StrLine), NEW bytes \in Nat
  PROVE  BytesAfter(chunks, bytes) \in [0 .. Len(chunks) -> Nat]
<1> DEFINE n == Len(chunks)
           After(g, k) == IF k = 0 THEN bytes
                          ELSE IF chunks[k].kept > g[k - 1] THEN 0 ELSE g[k - 1] - chunks[k].kept
           Is(g, m) == g = [k \in 0 .. m |-> After(g, k)]
           Defined == {m \in 0 .. n : \E g : Is(g, m)}
           left == BytesAfter(chunks, bytes)
<1>1. n \in Nat /\ \A k \in 1 .. n : chunks[k].kept \in Nat
  <2>1. n \in Nat /\ \A k \in 1 .. n : chunks[k] \in StrLine
    BY LenProperties, ElementOfSeq
  <2> QED
    BY <2>1 DEF StrLine
<1>2. 0 \in Defined
  <2>1. Is([k \in 0 .. 0 |-> bytes], 0)
    OBVIOUS
  <2>2. \E g : Is(g, 0)
    <3> HIDE DEF Is
    <3> QED
      BY <2>1
  <2> QED
    BY <2>2, <1>1
<1>3. ASSUME NEW m \in 0 .. n - 1, m \in Defined PROVE m + 1 \in Defined
  <2>1. PICK g : Is(g, m)
    BY <1>3
  <2> DEFINE h == [k \in 0 .. m + 1 |-> IF k <= m THEN g[k] ELSE After(g, m + 1)]
  <2>2. ASSUME NEW k \in 0 .. m + 1 PROVE h[k] = After(h, k)
    <3>1. CASE k = 0
      BY <2>1, <3>1, <1>1
    <3>2. CASE k # 0
      <4>1. k - 1 \in 0 .. m /\ h[k - 1] = g[k - 1]
        BY <3>2, <1>1
      <4>2. h[k] = After(g, k)
        <5>1. CASE k = m + 1
          BY <5>1, <1>1
        <5>2. CASE k <= m
          BY <5>2, <2>1, <1>1
        <5> QED
          BY <5>1, <5>2, <1>1
      <4> QED
        BY <4>1, <4>2, <3>2
    <3> QED
      BY <3>1, <3>2
  <2>3. h = [k \in 0 .. m + 1 |-> After(h, k)]
    BY <2>2
  <2>4. m + 1 \in 0 .. n
    BY <1>1
  <2> QED
    BY <2>3, <2>4
<1>4. n \in Defined
  <2> HIDE DEF Defined
  <2>1. 0 .. n \subseteq Defined
    BY <1>1, <1>2, <1>3, Induction
  <2> QED
    BY <1>1, <2>1
<1>5. Is(left, n)
  <2>1. left = CHOOSE g : Is(g, n)
    BY DEF BytesAfter
  <2>2. \E g : Is(g, n)
    BY <1>4
  <2> QED
    BY <2>1, <2>2
<1> DEFINE Good == {m \in 0 .. n : left[m] \in Nat}
<1>6. 0 \in Good
  BY <1>1, <1>5
<1>7. ASSUME NEW m \in 0 .. n - 1, m \in Good PROVE m + 1 \in Good
  <2>1. m + 1 \in 1 .. n /\ m + 1 - 1 = m /\ left[m] \in Nat
    BY <1>1, <1>7
  <2>2. left[m + 1] = After(left, m + 1)
    BY <1>5, <2>1
  <2>3. After(left, m + 1) \in Nat
    BY <2>1, <1>1
  <2> QED
    BY <2>1, <2>2, <2>3
<1>8. 0 .. n \subseteq Good
  <2> HIDE DEF Good
  <2> QED
    BY <1>1, <1>6, <1>7, Induction
<1> QED
  BY <1>5, <1>8

\* The lines of the body are numbered without a gap from the first line that
\* is still buffered to the last one the body has brought, and the count of
\* dropped lines is the number of the last one that is not.
LinesInPlace ==
  /\ strBuf.dropped = strBuf.base
  /\ \A i \in 1 .. Len(strBuf.chunks) : strBuf.chunks[i].no = strBuf.base + i
  /\ \A i \in 1 .. Len(strReader.lines) : strReader.lines[i].no = NextIndex + i
  /\ strCount = NextIndex + Len(strReader.lines)
\* Only a push has lines in hand, and only a reader that has stopped is done.
ReaderInPlace ==
  /\ strReader.pc \in {"push", "ending"} \/ strReader.lines = <<>>
  /\ strBuf.done => strReader.pc = "stopped"
  /\ strOpen = "none" => strReader.pc = "none"
\* What a caller that follows its cursor was told: the lines it was handed
\* ascend up to its cursor, and each that is missing was dropped by then.
Received(p) == {strPoller[p].got[i] : i \in DOMAIN strPoller[p].got}
CallerTold(p) ==
  LET r == strPoller[p]
  IN  /\ r.cursor <= NextIndex /\ r.dropped <= strBuf.base
      /\ \A i, j \in DOMAIN r.got : i < j => r.got[i] < r.got[j]
      /\ Received(p) \subseteq 1 .. r.cursor
      /\ (1 .. r.cursor) \ Received(p) \subseteq 1 .. r.dropped
      /\ r.ended /\ strOpen = "open" => strBuf.done /\ r.cursor = NextIndex
      /\ strOpen = "none" => r.pc = "idle" /\ ~r.ended
StrIInv == LinesInPlace /\ ReaderInPlace /\ \A p \in StrPollers : CallerTold(p)

StrBuffer == [base : Nat, chunks : Seq(StrLine), bytes : Nat, dropped : Nat,
              done : BOOLEAN, error : BOOLEAN]
StrReader == [pc : {"none", "check", "next", "push", "ending", "stopped"},
              lines : Seq(StrLine), partial : BOOLEAN, failed : BOOLEAN]
StrCaller == [pc : {"idle", "find", "read"}, cursor : Nat,
              got : Seq(Nat), dropped : Nat, ended : BOOLEAN]

\* However far the counter and the bytes differ, an eviction stops at the
\* latest with the line just pushed: it never empties the buffer.
LEMMA EvictCountBound ==
  ASSUME NEW chunks \in Seq(StrLine), chunks # <<>>, NEW bytes \in Nat
  PROVE  EvictCount(chunks, bytes) \in 0 .. Len(chunks) - 1
<1> DEFINE T == {k \in 0 .. Len(chunks) - 1 :
                   k = Len(chunks) - 1 \/ BytesAfter(chunks, bytes)[k] <= MaxBuffer}
<1>1. Len(chunks) \in Nat /\ Len(chunks) # 0
  BY LenProperties, EmptySeq
<1>2. T \subseteq Nat /\ T # {}
  <2>1. Len(chunks) - 1 \in T
    BY <1>1
  <2> QED
    BY <2>1
<1>3. \E m \in T : \A k \in T : m <= k
  <2> HIDE DEF T
  <2> QED
    BY <1>2, LeastNatural
<1>4. EvictCount(chunks, bytes) \in T
  BY <1>3 DEF EvictCount, Min
<1> QED
  BY <1>4

\* What a push makes of the buffer (push_line): the line goes in at the end,
\* `out` lines leave at the front, and base and dropped count them both.
LEMMA PushLineResult ==
  ASSUME NEW buf \in StrBuffer, NEW line \in StrLine
  PROVE  /\ PushLine(buf, line) \in StrBuffer
         /\ \E out \in 0 .. Len(buf.chunks) :
              /\ PushLine(buf, line).chunks =
                   SubSeq(Append(buf.chunks, line), out + 1, Len(buf.chunks) + 1)
              /\ PushLine(buf, line).base = buf.base + out
              /\ PushLine(buf, line).dropped = buf.dropped + out
              /\ PushLine(buf, line).done = buf.done
<1> DEFINE chunks == Append(buf.chunks, line)
           bytes == buf.bytes + line.raw
           out == EvictCount(chunks, bytes)
<1>1. /\ buf.chunks \in Seq(StrLine) /\ bytes \in Nat /\ Len(buf.chunks) \in Nat
      /\ buf.base \in Nat /\ buf.dropped \in Nat
  BY LenProperties DEF StrBuffer, StrLine
<1>2. chunks \in Seq(StrLine) /\ Len(chunks) = Len(buf.chunks) + 1 /\ chunks # <<>>
  BY <1>1, AppendProperties
<1>3. out \in 0 .. Len(buf.chunks)
  <2>1. out \in 0 .. Len(chunks) - 1
    <3> HIDE DEF chunks, bytes
    <3> QED
      BY <1>1, <1>2, EvictCountBound
  <2>2. Len(chunks) - 1 = Len(buf.chunks)
    BY <1>1, <1>2
  <2> HIDE DEF chunks, bytes, out
  <2> QED
    BY <2>1, <2>2
<1>4. BytesAfter(chunks, bytes)[out] \in Nat
  <2>1. BytesAfter(chunks, bytes) \in [0 .. Len(chunks) -> Nat]
    <3> HIDE DEF chunks, bytes
    <3> QED
      BY <1>1, <1>2, BytesAfterType
  <2>2. out \in 0 .. Len(chunks)
    BY <1>1, <1>2, <1>3
  <2> HIDE DEF chunks, bytes, out
  <2> QED
    BY <2>1, <2>2
<1>5. SubSeq(chunks, out + 1, Len(chunks)) \in Seq(StrLine)
  <2> HIDE DEF chunks, bytes, out
  <2> QED
    BY <1>1, <1>2, <1>3, SubSeqProperties
<1>6. PushLine(buf, line) =
        [buf EXCEPT !.chunks = SubSeq(chunks, out + 1, Len(chunks)),
                    !.bytes = BytesAfter(chunks, bytes)[out],
                    !.base = @ + out, !.dropped = @ + out]
  BY DEF PushLine
<1> HIDE DEF chunks, bytes, out
<1>7. PushLine(buf, line) \in StrBuffer
  <2>1. buf.base + out \in Nat /\ buf.dropped + out \in Nat
    BY <1>1, <1>3
  <2> QED
    BY <2>1, <1>4, <1>5, <1>6 DEF StrBuffer
<1>8. /\ PushLine(buf, line).chunks = SubSeq(chunks, out + 1, Len(chunks))
      /\ PushLine(buf, line).base = buf.base + out
      /\ PushLine(buf, line).dropped = buf.dropped + out
      /\ PushLine(buf, line).done = buf.done
  BY <1>6 DEF StrBuffer
<1> QED
  BY <1>2, <1>3, <1>7, <1>8 DEF chunks

\* The lines split off a chunk of the body go on with its numbering.
LEMMA NumberedLines ==
  ASSUME NEW n \in Nat, NEW sizes \in [1 .. n -> StrSizes], strCount \in Nat
  PROVE  /\ Numbered(sizes) \in Seq(StrLine) /\ Len(Numbered(sizes)) = n
         /\ \A i \in 1 .. n : Numbered(sizes)[i].no = strCount + i
<1>1. \A i \in 1 .. n : sizes[i][1] \in Nat /\ sizes[i][2] \in Nat
  BY StrAssumption
<1>2. Numbered(sizes) =
        [i \in 1 .. n |-> [no |-> strCount + i, raw |-> sizes[i][1], kept |-> sizes[i][2]]]
  BY DEF Numbered
<1>3. \A i \in 1 .. n : [no |-> strCount + i, raw |-> sizes[i][1], kept |-> sizes[i][2]] \in StrLine
  BY <1>1 DEF StrLine
<1>4. Numbered(sizes) \in [1 .. n -> StrLine]
  BY <1>2, <1>3
<1>5. Numbered(sizes) \in Seq(StrLine) /\ Len(Numbered(sizes)) = n
  BY <1>4, IsASeq
<1> QED
  BY <1>2, <1>5

\* The same with the names of this module for the records.
LEMMA StrTypes ==
  StrTypeOK <=> /\ strOpen \in {"none", "open", "closed"}
                /\ strBuf \in StrBuffer /\ strReader \in StrReader
                /\ strCount \in Nat /\ strAge \in 0 .. IdleTtl + 1
                /\ strPoller \in [StrPollers -> StrCaller]
BY DEF StrTypeOK, StrBuffer, StrReader, StrCaller

\* What a caller was told stays true while the buffer's numbering, its own
\* record and an open stream's state are left alone.
LEMMA CallerKept ==
  ASSUME NEW p \in StrPollers, CallerTold(p),
         UNCHANGED <<strPoller[p], strBuf.base, strBuf.chunks>>,
         strBuf.done => strBuf'.done, strOpen' = "open" => strOpen \in {"none", "open"},
         strOpen' = "none" => strOpen = "none"
  PROVE  CallerTold(p)'
BY DEF CallerTold, Received, NextIndex

\* A push moves the base and the end of the buffer up and no caller's cursor
\* beyond it; no caller of an open stream has been told it ended.
LEMMA PushKeepsCallers ==
  ASSUME StrTypeOK, StrIInv, StrPush, NEW p \in StrPollers
  PROVE  CallerTold(p)'
<1>1. /\ strBuf \in StrBuffer /\ strReader \in StrReader /\ strReader.lines # <<>>
      /\ ~strBuf.done /\ UNCHANGED <<strPoller, strOpen>>
      /\ strBuf' = PushLine(strBuf, Head(strReader.lines))
  BY StrTypes DEF StrPush, StrIInv, ReaderInPlace
<1>2. Head(strReader.lines) \in StrLine
  BY <1>1, HeadTailProperties DEF StrReader
<1>3. PICK out \in 0 .. Len(strBuf.chunks) :
        /\ strBuf'.chunks = SubSeq(Append(strBuf.chunks, Head(strReader.lines)), out + 1,
                                   Len(strBuf.chunks) + 1)
        /\ strBuf'.base = strBuf.base + out
        /\ strBuf'.done = strBuf.done
  BY <1>1, <1>2, PushLineResult
<1>4. /\ strBuf.chunks \in Seq(StrLine) /\ Len(strBuf.chunks) \in Nat /\ strBuf.base \in Nat
      /\ strBuf'.base \in Nat
  BY <1>1, <1>3, LenProperties DEF StrBuffer
<1>5. Len(strBuf'.chunks) = Len(strBuf.chunks) + 1 - out
  BY <1>2, <1>3, <1>4, AppendProperties, SubSeqProperties
<1>6. strBuf.base <= strBuf'.base /\ NextIndex' = NextIndex + 1 /\ NextIndex \in Nat
  <2> DEFINE len == Len(strBuf.chunks)
             lenNext == Len(strBuf'.chunks)
  <2>1. /\ out \in Nat /\ len \in Nat /\ strBuf.base \in Nat
        /\ strBuf'.base = strBuf.base + out /\ lenNext = len + 1 - out
    BY <1>3, <1>4, <1>5
  <2>2. NextIndex = strBuf.base + len /\ NextIndex' = strBuf'.base + lenNext
    BY DEF NextIndex
  <2> HIDE DEF len, lenNext
  <2> QED
    BY <2>1, <2>2
<1>7. CallerTold(p) /\ strPoller[p] \in StrCaller
  BY StrTypes DEF StrIInv
<1>8. strPoller[p].cursor \in Nat /\ strPoller[p].dropped \in Nat
  BY <1>7 DEF StrCaller
<1>9. UNCHANGED strPoller[p] /\ Received(p)' = Received(p)
  BY <1>1 DEF Received
<1>10. strPoller[p].cursor <= NextIndex' /\ strPoller[p].dropped <= strBuf'.base
  <2>1. strPoller[p].cursor <= NextIndex /\ strPoller[p].dropped <= strBuf.base
    BY <1>7 DEF CallerTold
  <2> QED
    BY <2>1, <1>4, <1>6, <1>8
<1>11. ~(strPoller[p].ended /\ strOpen' = "open")
  BY <1>1, <1>7 DEF CallerTold
<1> QED
  BY <1>1, <1>7, <1>9, <1>10, <1>11 DEF CallerTold

\* What a cursor has still to read is the rest of the buffer from the cursor,
\* or all of it when lines after the cursor have already left.
LEMMA SinceLines ==
  ASSUME StrTypeOK, LinesInPlace, NEW cursor \in Nat, cursor <= NextIndex
  PROVE  \E from \in Nat :
           /\ from = IF cursor > strBuf.base THEN cursor ELSE strBuf.base
           /\ NextIndex \in Nat /\ from <= NextIndex
           /\ Since(cursor) \in Seq(StrLine) /\ Len(Since(cursor)) = NextIndex - from
           /\ \A i \in 1 .. NextIndex - from : Since(cursor)[i].no = from + i
<1> DEFINE len == Len(strBuf.chunks)
           start == IF cursor > strBuf.base THEN cursor - strBuf.base ELSE 0
           from == strBuf.base + start
<1>1. strBuf.chunks \in Seq(StrLine) /\ len \in Nat /\ strBuf.base \in Nat
  BY StrTypes, LenProperties DEF StrBuffer
<1>2. NextIndex = strBuf.base + len
  BY DEF NextIndex
<1>3. start \in 0 .. len /\ from \in Nat
  BY <1>1, <1>2
<1>4. from = IF cursor > strBuf.base THEN cursor ELSE strBuf.base
  BY <1>1
<1>5. Since(cursor) = SubSeq(strBuf.chunks, start + 1, len)
  BY DEF Since
<1>6. \A i \in 1 .. len : strBuf.chunks[i] \in StrLine /\ strBuf.chunks[i].no = strBuf.base + i
  BY <1>1, ElementOfSeq DEF LinesInPlace
<1>7. /\ Since(cursor) \in Seq(StrLine) /\ Len(Since(cursor)) = len - start
      /\ \A i \in 1 .. len - start : Since(cursor)[i] = strBuf.chunks[start + i]
  <2> HIDE DEF start, len
  <2>1. start + 1 \in Int /\ len \in Int /\ \A i \in start + 1 .. len : strBuf.chunks[i] \in StrLine
    BY <1>1, <1>3, <1>6
  <2>2. /\ SubSeq(strBuf.chunks, start + 1, len) \in Seq(StrLine)
        /\ Len(SubSeq(strBuf.chunks, start + 1, len)) =
             IF start + 1 <= len THEN len - (start + 1) + 1 ELSE 0
        /\ \A i \in 1 .. len - (start + 1) + 1 :
             SubSeq(strBuf.chunks, start + 1, len)[i] = strBuf.chunks[(start + 1) + i - 1]
    BY <2>1, SubSeqProperties
  <2>3. len - (start + 1) + 1 = len - start /\ (start + 1 <= len \/ len - start = 0)
    BY <1>1, <1>3
  <2>4. \A i \in 1 .. len - start : (start + 1) + i - 1 = start + i
    BY <1>1, <1>3
  <2> QED
    BY <1>5, <2>2, <2>3, <2>4
<1> HIDE DEF start, len
<1>8. \A i \in 1 .. len - start : start + i \in 1 .. len /\ strBuf.base + (start + i) = from + i
  BY <1>1, <1>3
<1>9. NextIndex - from = len - start /\ from <= NextIndex /\ NextIndex \in Nat
  BY <1>1, <1>2, <1>3
<1> HIDE DEF from
<1>10. \A i \in 1 .. NextIndex - from : Since(cursor)[i].no = from + i
  BY <1>6, <1>7, <1>8, <1>9
<1> QED
  BY <1>3, <1>4, <1>7, <1>9, <1>10

\* `n` lines were handed out that ascend up to `cursor`, and all that is
\* missing among them is `dropped` or lower.
HandedUpTo(got, n, cursor, dropped) ==
  /\ \A x, y \in 1 .. n : x < y => got[x] < got[y]
  /\ \A x \in 1 .. n : got[x] \in 1 .. cursor
  /\ \A k \in 1 .. cursor : k <= dropped \/ \E x \in 1 .. n : got[x] = k
\* Arithmetic of a poll: m more lines that go on from where the buffer, which
\* begins after `base`, allows.
LEMMA HandedGoesOn ==
  ASSUME NEW n \in Nat, NEW m \in Nat, NEW got, NEW base \in Nat, NEW cursor \in Nat,
         NEW dropped \in Nat, NEW from \in Nat, NEW next \in Nat,
         cursor <= from, base <= from, from = cursor \/ from = base, next - from = m,
         dropped <= base, HandedUpTo(got, n, cursor, dropped),
         \A x \in n + 1 .. n + m : got[x] = from + (x - n)
  PROVE  HandedUpTo(got, n + m, next, base)
<1> USE DEF HandedUpTo
<1>1. \A x, y \in 1 .. n + m : x < y => got[x] < got[y]
  <2> SUFFICES ASSUME NEW i \in 1 .. n + m, NEW j \in 1 .. n + m, i < j PROVE got[i] < got[j]
    OBVIOUS
  <2>1. CASE j <= n
    BY <2>1
  <2>2. CASE i <= n /\ j > n
    <3>1. got[i] \in 1 .. cursor /\ got[j] = from + (j - n)
      BY <2>2
    <3> QED
      BY <3>1, <2>2
  <2>3. CASE i > n
    <3>1. got[i] = from + (i - n) /\ got[j] = from + (j - n)
      BY <2>3
    <3> QED
      BY <3>1
  <2> QED
    BY <2>1, <2>2, <2>3
<1>2. \A x \in 1 .. n + m : got[x] \in 1 .. next
  <2> SUFFICES ASSUME NEW i \in 1 .. n + m PROVE got[i] \in 1 .. next
    OBVIOUS
  <2>1. CASE i <= n
    <3>1. got[i] \in 1 .. cursor
      BY <2>1
    <3> QED
      BY <3>1
  <2>2. CASE i > n
    <3>1. got[i] = from + (i - n)
      BY <2>2
    <3> QED
      BY <3>1, <2>2
  <2> QED
    BY <2>1, <2>2
<1>3. \A k \in 1 .. next : k <= base \/ \E x \in 1 .. n + m : got[x] = k
  <2> SUFFICES ASSUME NEW k \in 1 .. next, k > base PROVE \E x \in 1 .. n + m : got[x] = k
    OBVIOUS
  <2>1. CASE k > from
    <3>1. n + (k - from) \in n + 1 .. n + m /\ from + ((n + (k - from)) - n) = k
      BY <2>1
    <3>2. got[n + (k - from)] = k /\ n + (k - from) \in 1 .. n + m
      BY <3>1
    <3> QED
      BY <3>2
  <2>2. CASE k <= from
    <3>1. k \in 1 .. cursor /\ ~(k <= dropped)
      BY SMTT(30), <2>2
    <3> QED
      BY <3>1
  <2> QED
    BY <2>1, <2>2
<1> QED
  BY <1>1, <1>2, <1>3

\* A poll hands out what its cursor has still to read: the lines it was
\* handed before and these ascend up to the new cursor, and what is missing
\* below it has left the buffer by now (poll).
LEMMA ReadTellsAll ==
  ASSUME StrTypeOK, StrIInv, NEW p \in StrPollers, StrRead(p)
  PROVE  CallerTold(p)' /\ strPoller'[p] \in StrCaller
<1> DEFINE r == strPoller[p]
           chunks == Since(r.cursor)
           nos == [i \in DOMAIN chunks |-> chunks[i].no]
           told == [pc |-> "idle", cursor |-> NextIndex, dropped |-> strBuf.dropped,
                    ended |-> strBuf.done, got |-> r.got \o nos]
<1>1. /\ CallerTold(p) /\ r \in StrCaller /\ LinesInPlace /\ strBuf \in StrBuffer
      /\ strPoller \in [StrPollers -> StrCaller]
      /\ r.pc = "read" /\ UNCHANGED <<strOpen, strBuf>>
  BY StrTypes DEF StrIInv, StrRead
<1>2. /\ r.cursor \in Nat /\ r.cursor <= NextIndex /\ r.got \in Seq(Nat) /\ r.dropped \in Nat
      /\ strBuf.base \in Nat /\ strBuf.dropped = strBuf.base /\ r.dropped <= strBuf.base
      /\ strBuf.done \in BOOLEAN
  BY <1>1 DEF StrCaller, StrBuffer, CallerTold, LinesInPlace
<1>3. PICK from \in Nat :
        /\ from = IF r.cursor > strBuf.base THEN r.cursor ELSE strBuf.base
        /\ NextIndex \in Nat /\ from <= NextIndex
        /\ chunks \in Seq(StrLine) /\ Len(chunks) = NextIndex - from
        /\ \A i \in 1 .. NextIndex - from : chunks[i].no = from + i
  BY <1>1, <1>2, SinceLines
<1>4. strPoller' = [strPoller EXCEPT ![p] = [r EXCEPT !.pc = "find"]]
      \/ strPoller' = [strPoller EXCEPT ![p] = told]
  BY DEF StrRead
<1>5. CASE strPoller' = [strPoller EXCEPT ![p] = [r EXCEPT !.pc = "find"]]
  <2>1. strPoller'[p] = [r EXCEPT !.pc = "find"]
    BY <1>1, <1>5
  <2>2. strPoller'[p] \in StrCaller /\ strOpen # "none"
    BY <1>1, <2>1 DEF StrCaller, CallerTold
  <2>3. /\ strPoller'[p].got = r.got /\ strPoller'[p].cursor = r.cursor
        /\ strPoller'[p].dropped = r.dropped /\ strPoller'[p].ended = r.ended
    BY <1>1, <2>1 DEF StrCaller
  <2> QED
    BY <1>1, <2>2, <2>3 DEF CallerTold, Received, NextIndex
<1>6. CASE strPoller' = [strPoller EXCEPT ![p] = told]
  <2> DEFINE got == r.got \o nos
             m == NextIndex - from
  <2>1. strPoller'[p] = told
    BY <1>1, <1>6
  <2>2. DOMAIN chunks = 1 .. m /\ m \in Nat
    BY <1>3, LenProperties
  <2>3. nos \in Seq(Nat) /\ Len(nos) = m /\ \A i \in 1 .. m : nos[i] = from + i
    <3>1. nos = [i \in 1 .. m |-> from + i]
      BY <1>3, <2>2
    <3>2. nos \in [1 .. m -> Nat]
      BY <3>1, <2>2
    <3> HIDE DEF nos, m
    <3> QED
      BY <3>1, <3>2, <2>2, SeqDef, LenProperties
  <2>4. /\ \A i, j \in DOMAIN r.got : i < j => r.got[i] < r.got[j]
        /\ {r.got[i] : i \in DOMAIN r.got} \subseteq 1 .. r.cursor
        /\ (1 .. r.cursor) \ {r.got[i] : i \in DOMAIN r.got} \subseteq 1 .. r.dropped
        /\ strOpen # "none"
    BY <1>1 DEF CallerTold, Received
  <2> HIDE DEF r, chunks, nos, told
  <2>5. /\ got \in Seq(Nat)
        /\ \A i, j \in DOMAIN got : i < j => got[i] < got[j]
        /\ {got[i] : i \in DOMAIN got} \subseteq 1 .. NextIndex
        /\ (1 .. NextIndex) \ {got[i] : i \in DOMAIN got} \subseteq 1 .. strBuf.base
    <3> DEFINE n == Len(r.got)
    <3>1. n \in Nat /\ DOMAIN r.got = 1 .. n
      BY <1>2, LenProperties
    <3>2. /\ got \in Seq(Nat) /\ Len(got) = n + m
          /\ \A i \in 1 .. n + m : got[i] = IF i <= n THEN r.got[i] ELSE nos[i - n]
      <4>1. r.got \in Seq(Nat) /\ nos \in Seq(Nat) /\ Len(nos) = m
        BY <1>2, <2>3
      <4> HIDE DEF m
      <4> QED
        BY <4>1, ConcatProperties
    <3> HIDE DEF n, m, got
    <3>3. DOMAIN got = 1 .. n + m
      BY <3>2, LenProperties
    <3>4. \A i \in 1 .. n : got[i] = r.got[i]
      BY <2>2, <3>1, <3>2
    <3>5. \A x \in n + 1 .. n + m : got[x] = from + (x - n)
      <4> SUFFICES ASSUME NEW i \in n + 1 .. n + m PROVE got[i] = from + (i - n)
        OBVIOUS
      <4>1. i - n \in 1 .. m /\ i \in 1 .. n + m /\ ~(i <= n)
        BY <2>2, <3>1
      <4> QED
        BY <2>3, <3>2, <4>1
    <3>6. \A x, y \in 1 .. n : x < y => got[x] < got[y]
      BY <2>4, <3>1, <3>4
    <3>7. \A x \in 1 .. n : got[x] \in 1 .. r.cursor
      BY <2>4, <3>1, <3>4
    <3>8. \A k \in 1 .. r.cursor : k <= r.dropped \/ \E x \in 1 .. n : got[x] = k
      <4> SUFFICES ASSUME NEW k \in 1 .. r.cursor, ~(k <= r.dropped)
                   PROVE  \E x \in 1 .. n : got[x] = k
        OBVIOUS
      <4>1. k \in {r.got[i] : i \in 1 .. n}
        BY <2>4, <3>1, <1>2
      <4> QED
        BY <4>1, <3>4
    <3>9. /\ r.cursor <= from /\ strBuf.base <= from /\ NextIndex - from = m
          /\ from = r.cursor \/ from = strBuf.base
      BY <1>2, <1>3 DEF m
    <3>10. HandedUpTo(got, n + m, NextIndex, strBuf.base)
      <4>1. /\ n \in Nat /\ m \in Nat /\ strBuf.base \in Nat /\ r.cursor \in Nat
            /\ r.dropped \in Nat /\ from \in Nat /\ NextIndex \in Nat /\ r.dropped <= strBuf.base
        BY <1>2, <1>3, <2>2, <3>1
      <4>2. HandedUpTo(got, n, r.cursor, r.dropped)
        BY <3>6, <3>7, <3>8 DEF HandedUpTo
      <4> QED
        BY <4>1, <4>2, <3>5, <3>9, HandedGoesOn
    <3>11. (1 .. NextIndex) \ {got[i] : i \in DOMAIN got} \subseteq 1 .. strBuf.base
      <4> SUFFICES ASSUME NEW k \in 1 .. NextIndex, ~(k <= strBuf.base)
                   PROVE  k \in {got[i] : i \in 1 .. n + m}
        <5>1. strBuf.base \in Nat /\ NextIndex \in Nat
          BY <1>2, <1>3
        <5> QED
          BY <5>1, <3>3
      <4> QED
        BY <3>10 DEF HandedUpTo
    <3> QED
      BY <3>2, <3>3, <3>10, <3>11 DEF HandedUpTo
  <2> HIDE DEF got
  <2>6. told = [pc |-> "idle", cursor |-> NextIndex, dropped |-> strBuf.base,
                ended |-> strBuf.done, got |-> got]
    BY <1>2 DEF told, got
  <2>7. told \in StrCaller
    BY <1>2, <1>3, <2>5, <2>6 DEF StrCaller
  <2>8. Received(p)' = {got[i] : i \in DOMAIN got}
    BY <2>1, <2>6 DEF Received
  <2>9. NextIndex' = NextIndex /\ strBuf'.base = strBuf.base /\ strBuf'.done = strBuf.done
    BY <1>1 DEF NextIndex
  <2>10. strBuf.base <= strBuf.base /\ NextIndex <= NextIndex
    BY <1>2, <1>3
  <2> QED
    BY <1>1, <2>1, <2>4, <2>5, <2>6, <2>7, <2>8, <2>9, <2>10 DEF CallerTold
<1> QED
  BY <1>4, <1>5, <1>6

\* A push moves the first line in hand to the end of the buffer, and the
\* numbering goes on through both.
LEMMA PushKeepsLines ==
  ASSUME StrTypeOK, StrIInv, StrPush
  PROVE  strBuf' \in StrBuffer /\ strReader' \in StrReader /\ LinesInPlace' /\ ReaderInPlace'
<1> DEFINE line == Head(strReader.lines)
           len == Len(strBuf.chunks)
<1>1. /\ strBuf \in StrBuffer /\ strReader \in StrReader /\ strReader.lines # <<>>
      /\ strReader.lines \in Seq(StrLine) /\ strReader.pc \in {"push", "ending"}
      /\ strBuf' = PushLine(strBuf, line) /\ UNCHANGED <<strCount, strOpen>>
      /\ strReader' = [strReader EXCEPT !.lines = Tail(@)]
  BY StrTypes DEF StrPush, StrReader
<1>2. /\ line \in StrLine /\ Tail(strReader.lines) \in Seq(StrLine)
      /\ Len(strReader.lines) \in Nat /\ Len(strReader.lines) # 0
      /\ Len(Tail(strReader.lines)) = Len(strReader.lines) - 1
      /\ \A i \in 1 .. Len(Tail(strReader.lines)) : Tail(strReader.lines)[i] = strReader.lines[i + 1]
      /\ line = strReader.lines[1]
  BY <1>1, HeadTailProperties, LenProperties, EmptySeq
<1>3. /\ strReader' \in StrReader /\ strReader'.lines = Tail(strReader.lines)
      /\ strReader'.pc = strReader.pc
  BY <1>1, <1>2 DEF StrReader
<1>4. PICK out \in 0 .. len :
        /\ strBuf'.chunks = SubSeq(Append(strBuf.chunks, line), out + 1, len + 1)
        /\ strBuf'.base = strBuf.base + out /\ strBuf'.dropped = strBuf.dropped + out
        /\ strBuf'.done = strBuf.done
  BY <1>1, <1>2, PushLineResult
<1>5. strBuf' \in StrBuffer
  BY <1>1, <1>2, PushLineResult
<1>6. /\ strBuf.chunks \in Seq(StrLine) /\ len \in Nat /\ strBuf.base \in Nat
  BY <1>1, LenProperties DEF StrBuffer
<1>7. /\ strBuf.dropped = strBuf.base /\ line.no = NextIndex + 1
      /\ \A i \in 1 .. len : strBuf.chunks[i].no = strBuf.base + i
      /\ \A i \in 1 .. Len(strReader.lines) : strReader.lines[i].no = NextIndex + i
      /\ strCount = NextIndex + Len(strReader.lines)
  BY <1>2 DEF StrIInv, LinesInPlace
<1> DEFINE all == Append(strBuf.chunks, line)
<1>8. \A i \in 1 .. len + 1 : all[i] \in StrLine /\ all[i].no = strBuf.base + i
  <2>1. \A i \in 1 .. len + 1 : all[i] = IF i <= len THEN strBuf.chunks[i] ELSE line
    BY <1>2, <1>6, AppendProperties
  <2>2. line.no = strBuf.base + (len + 1)
    BY <1>6, <1>7 DEF NextIndex
  <2>3. \A i \in 1 .. len : strBuf.chunks[i] \in StrLine
    BY <1>6, ElementOfSeq
  <2> HIDE DEF all, line, len
  <2> SUFFICES ASSUME NEW i \in 1 .. len + 1
               PROVE  all[i] \in StrLine /\ all[i].no = strBuf.base + i
    OBVIOUS
  <2>4. CASE i <= len
    BY <2>1, <2>3, <2>4, <1>6, <1>7
  <2>5. CASE i = len + 1
    BY <2>1, <2>2, <2>5, <1>2, <1>6
  <2> QED
    BY <2>4, <2>5, <1>6
<1> HIDE DEF all, line, len
<1>9. /\ Len(strBuf'.chunks) = len + 1 - out
      /\ \A i \in 1 .. len + 1 - out : strBuf'.chunks[i] = all[out + i]
  <2>1. out + 1 \in Int /\ len + 1 \in Int /\ \A i \in out + 1 .. len + 1 : all[i] \in StrLine
    BY <1>6, <1>8
  <2>2. /\ Len(SubSeq(all, out + 1, len + 1)) =
             IF out + 1 <= len + 1 THEN (len + 1) - (out + 1) + 1 ELSE 0
        /\ \A i \in 1 .. (len + 1) - (out + 1) + 1 :
             SubSeq(all, out + 1, len + 1)[i] = all[(out + 1) + i - 1]
    BY <2>1, SubSeqProperties
  <2>3. (len + 1) - (out + 1) + 1 = len + 1 - out /\ out + 1 <= len + 1
        /\ \A i \in 1 .. len + 1 - out : (out + 1) + i - 1 = out + i
    BY <1>6
  <2> QED
    BY <1>4, <2>2, <2>3 DEF all
<1>10. NextIndex' = NextIndex + 1 /\ NextIndex \in Nat
  <2>1. NextIndex' = strBuf'.base + (len + 1 - out)
    BY <1>9 DEF NextIndex
  <2>2. NextIndex = strBuf.base + len
    BY DEF NextIndex, len
  <2>3. strBuf'.base = strBuf.base + out
    BY <1>4
  <2> QED
    BY <1>6, <2>1, <2>2, <2>3
<1>11. \A i \in 1 .. Len(strBuf'.chunks) : strBuf'.chunks[i].no = strBuf'.base + i
  <2> SUFFICES ASSUME NEW i \in 1 .. len + 1 - out
               PROVE  strBuf'.chunks[i].no = strBuf'.base + i
    BY <1>9
  <2>1. out + i \in 1 .. len + 1
    BY <1>6
  <2>2. strBuf'.chunks[i].no = strBuf.base + (out + i)
    BY <1>8, <1>9, <2>1
  <2>3. strBuf'.base = strBuf.base + out
    BY <1>4
  <2> QED
    BY <1>6, <2>2, <2>3
<1>12. \A i \in 1 .. Len(strReader'.lines) : strReader'.lines[i].no = NextIndex' + i
  <2> DEFINE left == Len(strReader.lines)
  <2>1. Len(strReader'.lines) = left - 1 /\ left \in Nat
    BY <1>2, <1>3
  <2>2. \A i \in 1 .. left - 1 : strReader'.lines[i] = strReader.lines[i + 1]
    BY <1>2, <1>3
  <2>3. \A i \in 1 .. left : strReader.lines[i].no = NextIndex + i
    BY <1>7
  <2> HIDE DEF left
  <2> SUFFICES ASSUME NEW i \in 1 .. left - 1 PROVE strReader'.lines[i].no = NextIndex' + i
    BY <2>1
  <2>4. i + 1 \in 1 .. left
    BY <2>1
  <2>5. strReader'.lines[i].no = NextIndex + (i + 1)
    BY <2>2, <2>3, <2>4
  <2> QED
    BY <1>10, <2>5
<1>13. strCount' = NextIndex' + Len(strReader'.lines)
  <2> DEFINE left == Len(strReader.lines)
             leftNext == Len(strReader'.lines)
  <2>1. strCount' = NextIndex + left /\ leftNext = left - 1 /\ left \in Nat
    BY <1>1, <1>2, <1>3, <1>7
  <2>2. NextIndex' = NextIndex + 1 /\ NextIndex \in Nat
    BY <1>10
  <2> HIDE DEF left, leftNext
  <2>3. strCount' = NextIndex' + leftNext
    BY <2>1, <2>2
  <2> QED
    BY <2>3 DEF leftNext
<1>14. strBuf'.dropped = strBuf'.base
  BY <1>4, <1>7
<1>15. ReaderInPlace'
  BY <1>1, <1>3, <1>4 DEF StrIInv, ReaderInPlace
<1> QED
  BY <1>3, <1>5, <1>11, <1>12, <1>13, <1>14, <1>15 DEF LinesInPlace

\* The lines new bytes or the end of the body bring are numbered on from the
\* last one: the reader had none in hand.
LEMMA BytesKeepLines ==
  ASSUME StrTypeOK, StrIInv, StrBytes \/ StrEnd
  PROVE  /\ strReader' \in StrReader /\ strCount' \in Nat /\ LinesInPlace' /\ ReaderInPlace'
         /\ UNCHANGED <<strOpen, strBuf, strAge, strPoller>>
<1>1. /\ strReader.pc = "next" /\ strOpen = "open" /\ UNCHANGED <<strOpen, strBuf, strAge, strPoller>>
      /\ strReader \in StrReader /\ strCount \in Nat /\ ~strBuf.done
  BY StrTypes DEF StrBytes, StrEnd, StrNext, StrIInv, ReaderInPlace
<1>2. strReader.lines = <<>> /\ strCount = NextIndex /\ NextIndex' = NextIndex
  <2>1. strReader.lines = <<>>
    BY <1>1 DEF StrIInv, ReaderInPlace
  <2>2. strCount = NextIndex + Len(strReader.lines) /\ NextIndex \in Nat
    BY StrTypes, LenProperties DEF StrIInv, LinesInPlace, NextIndex, StrBuffer
  <2>3. strCount = NextIndex + 0
    BY <2>1, <2>2, EmptySeq
  <2> QED
    BY <1>1, <2>1, <2>2, <2>3 DEF NextIndex
<1>3. ASSUME NEW n \in Nat, strReader'.lines \in Seq(StrLine), Len(strReader'.lines) = n,
             \A i \in 1 .. n : strReader'.lines[i].no = strCount + i, strCount' = strCount + n
      PROVE  LinesInPlace' /\ strCount' \in Nat
  <2>1. \A i \in 1 .. Len(strReader'.lines) : strReader'.lines[i].no = NextIndex' + i
    BY <1>2, <1>3
  <2>2. strCount' = NextIndex' + Len(strReader'.lines)
    BY <1>2, <1>3
  <2>3. strCount' \in Nat
    BY <1>1, <1>3
  <2> QED
    BY <1>1, <2>1, <2>2, <2>3 DEF StrIInv, LinesInPlace
<1>4. CASE StrBytes
  <2> PICK n \in 0 .. 2 : \E sizes \in [1 .. n -> StrSizes], rest \in BOOLEAN :
          /\ strCount' = strCount + n
          /\ strReader' = [strReader EXCEPT !.pc = "push", !.lines = Numbered(sizes), !.partial = rest]
    BY <1>4 DEF StrBytes
  <2>1. PICK sizes \in [1 .. n -> StrSizes], rest \in BOOLEAN :
          /\ strCount' = strCount + n
          /\ strReader' = [strReader EXCEPT !.pc = "push", !.lines = Numbered(sizes), !.partial = rest]
    OBVIOUS
  <2>2. /\ Numbered(sizes) \in Seq(StrLine) /\ Len(Numbered(sizes)) = n
        /\ \A i \in 1 .. n : Numbered(sizes)[i].no = strCount + i
    BY <1>1, NumberedLines
  <2>3. strReader' \in StrReader /\ strReader'.lines = Numbered(sizes) /\ strReader'.pc = "push"
    BY <1>1, <2>1, <2>2 DEF StrReader
  <2>4. LinesInPlace' /\ strCount' \in Nat
    BY <1>3, <2>1, <2>2, <2>3
  <2> QED
    BY <1>1, <2>3, <2>4 DEF ReaderInPlace
<1>5. CASE StrEnd
  <2>1. PICK fails \in BOOLEAN, size \in StrSizes :
          strReader' = [pc |-> "ending", failed |-> fails, partial |-> FALSE,
                        lines |-> IF strReader.partial THEN Numbered(<<size>>) ELSE <<>>]
    BY <1>5 DEF StrEnd
  <2>2. strCount' = strCount + Len(strReader'.lines)
    BY <1>5 DEF StrEnd
  <2>3. <<size>> \in [1 .. 1 -> StrSizes]
    OBVIOUS
  <2>4. /\ Numbered(<<size>>) \in Seq(StrLine) /\ Len(Numbered(<<size>>)) = 1
        /\ \A i \in 1 .. 1 : Numbered(<<size>>)[i].no = strCount + i
    BY <1>1, <2>3, NumberedLines
  <2>5. strReader'.pc = "ending" /\ strReader' \in StrReader
        /\ strReader'.lines = IF strReader.partial THEN Numbered(<<size>>) ELSE <<>>
    BY <2>1, <2>4, EmptySeq DEF StrReader
  <2>6. LinesInPlace' /\ strCount' \in Nat
    <3>1. CASE strReader.partial
      BY <3>1, <1>3, <2>2, <2>4, <2>5
    <3>2. CASE ~strReader.partial
      <4>1. strReader'.lines \in Seq(StrLine) /\ Len(strReader'.lines) = 0
        BY <3>2, <2>5, EmptySeq
      <4> QED
        BY <4>1, <1>3, <2>2
    <3> QED
      BY <3>1, <3>2
  <2> QED
    BY <1>1, <2>5, <2>6 DEF ReaderInPlace
<1> QED
  BY <1>4, <1>5

\* Every step keeps the types and the invariant.
LEMMA StrStepKeepsIInv ==
  ASSUME StrTypeOK, StrIInv, [StrNextStep]_strVars
  PROVE  StrTypeOK' /\ StrIInv'
<1> DEFINE Typed == /\ strOpen' \in {"none", "open", "closed"}
                    /\ strBuf' \in StrBuffer /\ strReader' \in StrReader
                    /\ strCount' \in Nat /\ strAge' \in 0 .. IdleTtl + 1
                    /\ strPoller' \in [StrPollers -> StrCaller]
           Kept == strBuf.done => strBuf'.done
<1>1. /\ strOpen \in {"none", "open", "closed"}
      /\ strBuf \in StrBuffer /\ strReader \in StrReader
      /\ strCount \in Nat /\ strAge \in 0 .. IdleTtl + 1
      /\ strPoller \in [StrPollers -> StrCaller]
      /\ LinesInPlace /\ ReaderInPlace /\ \A p \in StrPollers : CallerTold(p)
  BY StrTypes DEF StrIInv
<1>2. SUFFICES Typed /\ LinesInPlace' /\ ReaderInPlace' /\ \A p \in StrPollers : CallerTold(p)'
  BY DEF StrIInv, StrTypeOK, StrBuffer, StrReader, StrCaller
\* A step that leaves the numbering, the callers and what is done alone.
<1>3. ASSUME UNCHANGED <<strPoller, strBuf.base, strBuf.chunks, strBuf.dropped>>, Kept,
             strOpen' = strOpen \/ strOpen = "none" \/ strOpen' = "closed",
             strOpen' = "none" => strOpen = "none"
      PROVE  \A p \in StrPollers : CallerTold(p)'
  <2>1. TAKE p \in StrPollers
  <2>2. strOpen' = "open" => strOpen \in {"none", "open"}
    BY <1>1, <1>3
  <2> QED
    BY <1>1, <1>3, <2>2, CallerKept
<1>4. ASSUME UNCHANGED <<strBuf.base, strBuf.chunks, strBuf.dropped, strReader.lines, strCount>>
      PROVE  LinesInPlace'
  BY <1>1, <1>4 DEF LinesInPlace, NextIndex
<1>5. CASE StrStart
  <2>1. Typed /\ ReaderInPlace' /\ strReader'.lines = strReader.lines
    BY <1>1, <1>5 DEF StrStart, StrReader, ReaderInPlace
  <2> QED
    BY <1>3, <1>4, <1>5, <2>1 DEF StrStart
<1>6. CASE StrCheck
  <2>1. Typed /\ ReaderInPlace' /\ strReader'.lines = strReader.lines /\ Kept
        /\ UNCHANGED <<strBuf.base, strBuf.chunks, strBuf.dropped, strCount, strPoller, strOpen>>
    BY ZenonT(60), <1>1, <1>6 DEF StrCheck, StrReader, StrBuffer, ReaderInPlace
  <2> QED
    BY <1>3, <1>4, <2>1
<1>7. CASE StrWait \/ StrAborted
  <2>1. Typed /\ ReaderInPlace' /\ strReader'.lines = strReader.lines
        /\ UNCHANGED <<strBuf, strCount, strPoller, strOpen>>
    BY <1>1, <1>7 DEF StrWait, StrAborted, StrNext, StrReader, ReaderInPlace
  <2> QED
    BY <1>3, <1>4, <2>1
<1>8. CASE StrPush
  BY <1>1, <1>8, PushKeepsLines, PushKeepsCallers DEF StrPush
<1>9. CASE StrPushed
  <2>1. Typed /\ ReaderInPlace' /\ strReader'.lines = strReader.lines
        /\ UNCHANGED <<strBuf, strCount, strPoller, strOpen>>
    BY <1>1, <1>9 DEF StrPushed, StrReader, ReaderInPlace
  <2> QED
    BY <1>3, <1>4, <2>1
<1>10. CASE StrFinish
  <2>1. Typed /\ ReaderInPlace' /\ strReader'.lines = strReader.lines /\ Kept
        /\ UNCHANGED <<strBuf.base, strBuf.chunks, strBuf.dropped, strCount, strPoller, strOpen>>
    BY <1>1, <1>10 DEF StrFinish, StrReader, StrBuffer, ReaderInPlace
  <2> QED
    BY <1>3, <1>4, <2>1
<1>11. CASE StrBytes \/ StrEnd
  <2>1. /\ strReader' \in StrReader /\ strCount' \in Nat /\ LinesInPlace' /\ ReaderInPlace'
        /\ UNCHANGED <<strOpen, strBuf, strAge, strPoller>>
    BY <1>11, BytesKeepLines
  <2> QED
    BY <1>1, <1>3, <2>1
<1>12. CASE StrClose
  BY <1>1, <1>3, <1>4, <1>12 DEF StrClose, ReaderInPlace
<1>13. CASE StrTick
  <2>1. strAge' \in 0 .. IdleTtl + 1
    BY <1>1, <1>13, StrAssumption DEF StrTick
  <2> QED
    BY <1>1, <1>3, <1>4, <1>13, <2>1 DEF StrTick, ReaderInPlace
<1>14. ASSUME NEW p \in StrPollers, StrPoll(p) \/ StrFind(p)
       PROVE  Typed /\ LinesInPlace' /\ ReaderInPlace' /\ \A q \in StrPollers : CallerTold(q)'
  <2>1. UNCHANGED <<strOpen, strBuf, strReader, strCount, strAge>>
    BY <1>14 DEF StrPoll, StrFind
  <2>2. strPoller' \in [StrPollers -> StrCaller] /\ \A q \in StrPollers \ {p} : UNCHANGED strPoller[q]
    <3>1. \A q \in StrPollers : strPoller[q] \in StrCaller
      BY <1>1
    <3>2. CASE StrPoll(p)
      BY <1>1, <3>1, <3>2 DEF StrPoll, StrCaller
    <3>3. CASE StrFind(p)
      <4> DEFINE found == [strPoller[p] EXCEPT !.pc = IF strOpen = "open" THEN "read" ELSE "idle",
                                               !.ended = strOpen # "open"]
      <4>1. strPoller' = [strPoller EXCEPT ![p] = found]
        BY <3>3 DEF StrFind
      <4>2. found \in StrCaller
        BY <3>1 DEF StrCaller
      <4> QED
        BY <1>1, <4>1, <4>2
    <3> QED
      BY <1>14, <3>2, <3>3
  <2>3. /\ strPoller'[p].cursor = strPoller[p].cursor /\ strPoller'[p].got = strPoller[p].got
        /\ strPoller'[p].dropped = strPoller[p].dropped
        /\ strPoller'[p].ended => strPoller[p].ended \/ strOpen # "open"
        /\ strOpen # "none"
    BY <1>1, <1>14 DEF StrPoll, StrFind, StrCaller, CallerTold
  <2>4. CallerTold(p)'
    BY <1>1, <2>1, <2>3 DEF CallerTold, Received, NextIndex
  <2>5. ASSUME NEW q \in StrPollers \ {p} PROVE CallerTold(q)'
    BY <1>1, <2>1, <2>2, CallerKept
  <2> QED
    BY <1>1, <1>4, <2>1, <2>2, <2>4, <2>5 DEF ReaderInPlace
<1>15. ASSUME NEW p \in StrPollers, StrRead(p)
       PROVE  Typed /\ LinesInPlace' /\ ReaderInPlace' /\ \A q \in StrPollers : CallerTold(q)'
  <2>1. UNCHANGED <<strOpen, strBuf, strReader, strCount>> /\ strAge' = 0
    BY <1>15 DEF StrRead
  <2>2. \E told : strPoller' = [strPoller EXCEPT ![p] = told]
    BY <1>15 DEF StrRead
  <2>3. CallerTold(p)' /\ strPoller'[p] \in StrCaller
    BY <1>15, ReadTellsAll
  <2>4. strPoller' \in [StrPollers -> StrCaller] /\ \A q \in StrPollers \ {p} : UNCHANGED strPoller[q]
    BY <1>1, <2>2, <2>3
  <2>5. ASSUME NEW q \in StrPollers \ {p} PROVE CallerTold(q)'
    BY <1>1, <2>1, <2>4, CallerKept
  <2>6. 0 \in 0 .. IdleTtl + 1
    BY StrAssumption
  <2> QED
    BY <1>1, <1>4, <2>1, <2>3, <2>4, <2>5, <2>6 DEF ReaderInPlace
<1>16. CASE UNCHANGED strVars
  BY <1>1, <1>3, <1>4, <1>16 DEF strVars, ReaderInPlace
<1> QED
  BY <1>5, <1>6, <1>7, <1>8, <1>9, <1>10, <1>11, <1>12, <1>13, <1>14, <1>15, <1>16
     DEF StrNextStep, Reader

\* The variables keep their types and the invariant holds, whatever the body
\* brings and whenever its callers poll.
THEOREM StrInvariant == StrSpec => [](StrTypeOK /\ StrIInv)
<1>1. StrInit => StrTypeOK /\ StrIInv
  <2> SUFFICES ASSUME StrInit PROVE StrTypeOK /\ StrIInv
    OBVIOUS
  <2>1. <<>> \in Seq(StrLine) /\ <<>> \in Seq(Nat) /\ Len(<<>>) = 0
    BY EmptySeq
  <2>2. StrTypeOK
    BY <2>1, StrAssumption DEF StrInit, StrTypeOK, NoBuffer
  <2>3. LinesInPlace /\ ReaderInPlace
    BY <2>1 DEF StrInit, NoBuffer, LinesInPlace, ReaderInPlace, NextIndex
  <2>4. ASSUME NEW p \in StrPollers PROVE CallerTold(p)
    BY <2>1 DEF StrInit, NoBuffer, CallerTold, Received, NextIndex
  <2> QED
    BY <2>2, <2>3, <2>4 DEF StrIInv
<1>2. StrTypeOK /\ StrIInv /\ [StrNextStep]_strVars => (StrTypeOK /\ StrIInv)'
  BY StrStepKeepsIInv
<1> QED
  BY <1>1, <1>2, PTL DEF StrSpec

\* The invariant is about numbers of lines, StreamAccounted counts them.
LEMMA AllAccounted ==
  ASSUME StrTypeOK, StrIInv
  PROVE  StreamAccounted
<1> SUFFICES ASSUME NEW p \in StrPollers
             PROVE  LET r == strPoller[p]
                        handed == {r.got[i] : i \in DOMAIN r.got}
                        missed == (1 .. r.cursor) \ handed
                    IN  /\ \A i, j \in DOMAIN r.got : i < j => r.got[i] < r.got[j]
                        /\ handed \subseteq 1 .. r.cursor
                        /\ \A n \in missed : n <= strBuf.base
                        /\ Cardinality(missed) <= r.dropped
                        /\ r.ended /\ strOpen = "open" => r.cursor = strCount
  BY DEF StreamAccounted
<1> DEFINE r == strPoller[p]
           missed == (1 .. r.cursor) \ Received(p)
<1>1. CallerTold(p) /\ r \in StrCaller /\ strBuf \in StrBuffer
  BY StrTypes DEF StrIInv
<1>2. r.dropped \in Nat /\ strBuf.base \in Nat /\ missed \subseteq 1 .. r.dropped /\ r.dropped <= strBuf.base
  BY <1>1 DEF StrCaller, StrBuffer, CallerTold
<1>3. Cardinality(missed) <= r.dropped
  <2>1. IsFiniteSet(1 .. r.dropped) /\ Cardinality(1 .. r.dropped) = r.dropped
    <3> HIDE DEF r
    <3>1. r.dropped \in Int /\ 1 \in Int /\ r.dropped - 1 + 1 = r.dropped
      BY <1>2
    <3>2. 1 > r.dropped => r.dropped = 0
      BY <1>2
    <3> QED
      BY <3>1, <3>2, FS_Interval
  <2> HIDE DEF missed, r
  <2>2. Cardinality(missed) <= Cardinality(1 .. r.dropped)
    BY <1>2, <2>1, FS_Subset
  <2> QED
    BY <2>1, <2>2
<1>4. \A n \in missed : n <= strBuf.base
  BY <1>2
<1>5. r.ended /\ strOpen = "open" => r.cursor = strCount
  <2> SUFFICES ASSUME r.ended, strOpen = "open" PROVE r.cursor = strCount
    OBVIOUS
  <2>1. strBuf.done /\ r.cursor = NextIndex
    BY <1>1 DEF CallerTold
  <2>2. strReader.lines = <<>>
    BY <2>1 DEF StrIInv, ReaderInPlace
  <2>3. strCount = NextIndex + Len(strReader.lines) /\ Len(strReader.lines) = 0 /\ NextIndex \in Nat
    BY <1>1, <2>2, EmptySeq, LenProperties DEF StrIInv, LinesInPlace, NextIndex, StrBuffer
  <2> QED
    BY <2>1, <2>3
<1> QED
  BY <1>1, <1>3, <1>4, <1>5 DEF CallerTold, Received

\* What a caller of a stream is handed and what it is told it missed add up
\* to the lines before its cursor (StreamAccounted), for any number of
\* callers, any sizes of line and any cap.
THEOREM StrAccounted == StrSpec => []StreamAccounted
BY StrInvariant, AllAccounted, PTL

------------------------------------------------------------------------------
(* Command *)

\* A run's result, child and token go with its stage: its token is registered
\* only while it runs, and no child of its own outlives it.
CmdStages ==
  /\ cmdPc = "idle" => /\ cmdResult = "none" /\ ~cmdChild.alive /\ ~cmdForked
                       /\ cmdToken = "none" /\ cmdRequest = {}
  /\ cmdPc = "running" => cmdResult = "none" /\ cmdToken # "dropped"
  /\ cmdPc = "done" => cmdResult # "none" /\ ~cmdChild.alive /\ cmdToken # "registered"

CmdInv == CmdTypeOK /\ CmdStages

CmdSteps == {"in", "out", "err", "print", "cancelled", "fork"}
CmdForm == [todo : Seq(CmdSteps), alive : BOOLEAN, ok : BOOLEAN]

\* A child that has done a step is still a child.
LEMMA ChildGoesOn ==
  ASSUME NEW S, NEW child \in [todo : S, alive : BOOLEAN, ok : BOOLEAN],
         NEW todo \in S, NEW alive \in BOOLEAN
  PROVE  /\ [child EXCEPT !.todo = todo] \in [todo : S, alive : BOOLEAN, ok : BOOLEAN]
         /\ [child EXCEPT !.alive = alive] \in [todo : S, alive : BOOLEAN, ok : BOOLEAN]
         /\ [child EXCEPT !.alive = alive, !.todo = todo]
              \in [todo : S, alive : BOOLEAN, ok : BOOLEAN]
         /\ [child EXCEPT !.alive = alive, !.todo = todo].alive = alive
OBVIOUS

\* One unit more or less in a pipe.
LEMMA PipeHolds ==
  ASSUME NEW pipe \in [Ends -> 0 .. PipeCap], NEW e \in Ends
  PROVE  /\ pipe[e] < PipeCap => [pipe EXCEPT ![e] = @ + 1] \in [Ends -> 0 .. PipeCap]
         /\ pipe[e] > 0 => [pipe EXCEPT ![e] = @ - 1] \in [Ends -> 0 .. PipeCap]
<1>1. PipeCap \in Nat /\ pipe[e] \in 0 .. PipeCap
  BY CmdAssumption
<1>2. pipe[e] < PipeCap => pipe[e] + 1 \in 0 .. PipeCap
  BY <1>1
<1>3. pipe[e] > 0 => pipe[e] - 1 \in 0 .. PipeCap
  BY <1>1
<1> QED
  BY <1>2, <1>3

\* A run starts, or is refused.
LEMMA CmdStartStep ==
  ASSUME CmdInv, NEW key \in CmdKeys, CmdStart(key)
  PROVE  CmdInv'
<1>1. UNCHANGED <<cmdFeed, cmdPipe, cmdForked, cmdRequest, cmdAnswers>> /\ cmdPc = "idle"
  BY DEF CmdStart
<1>2. CASE key \in Allowed
  <2>1. PICK program \in Programs, ok \in BOOLEAN : cmdChild' = [todo |-> program, alive |-> TRUE, ok |-> ok]
    BY <1>2 DEF CmdStart
  <2>2. cmdToken' \in {"none", "registered"} /\ cmdPc' = "running" /\ cmdResult' = cmdResult
    BY <1>2 DEF CmdStart, Register
  <2>3. program \in Seq({"in", "out", "err", "print", "cancelled", "fork"})
    BY CmdAssumption
  <2>4. CmdTypeOK'
    BY <1>1, <2>1, <2>2, <2>3 DEF CmdInv, CmdTypeOK
  <2>5. CmdStages'
    BY <1>1, <2>2 DEF CmdInv, CmdStages
  <2> QED
    BY <2>4, <2>5 DEF CmdInv
<1>3. CASE key \notin Allowed
  <2>1. cmdPc' = "done" /\ cmdResult' = "refused" /\ cmdChild' = cmdChild /\ cmdToken' = cmdToken
    BY <1>3 DEF CmdStart
  <2> QED
    BY <1>1, <2>1 DEF CmdInv, CmdTypeOK, CmdStages
<1> QED
  BY <1>2, <1>3

\* The parent's side of the pipes.
LEMMA CmdParentStep ==
  ASSUME CmdInv, CmdFeed \/ \E e \in Ends : CmdDrain(e)
  PROVE  CmdInv'
<1>1. /\ cmdPc = "running" /\ UNCHANGED <<cmdPc, cmdResult, cmdChild, cmdForked, cmdToken, cmdRequest, cmdAnswers>>
  BY DEF CmdFeed, CmdDrain, Running
<1>2. cmdFeed \in 0 .. Payload /\ cmdPipe \in [Ends -> 0 .. PipeCap] /\ Payload \in Nat
  BY CmdAssumption DEF CmdInv, CmdTypeOK
<1>3. cmdFeed' \in 0 .. Payload /\ cmdPipe' \in [Ends -> 0 .. PipeCap]
  <2>1. CASE CmdFeed
    <3>1. cmdFeed' = cmdFeed - 1 /\ cmdFeed > 0 /\ "stdin" \in Ends
      BY <2>1 DEF CmdFeed, Ends
    <3>2. cmdPipe' = cmdPipe \/ (cmdPipe["stdin"] < PipeCap /\ cmdPipe' = [cmdPipe EXCEPT !["stdin"] = @ + 1])
      BY <2>1, <1>2 DEF CmdFeed
    <3> QED
      BY <1>2, <3>1, <3>2, PipeHolds
  <2>2. ASSUME NEW e \in Ends, CmdDrain(e)
        PROVE  cmdFeed' \in 0 .. Payload /\ cmdPipe' \in [Ends -> 0 .. PipeCap]
    BY <1>2, <2>2, PipeHolds DEF CmdDrain
  <2> QED
    BY <2>1, <2>2
<1> QED
  BY <1>1, <1>3 DEF CmdInv, CmdTypeOK, CmdStages

\* The run returns: its token and its child go.
LEMMA CmdReturnStep ==
  ASSUME CmdInv, NEW result \in {"ok", "failed", "timeout", "aborted"}, Return(result)
  PROVE  CmdInv'
<1>1. /\ cmdPc = "running" /\ cmdPc' = "done" /\ cmdResult' = result
      /\ cmdToken' = IF cmdToken = "registered" THEN "dropped" ELSE cmdToken
      /\ cmdChild' = [cmdChild EXCEPT !.alive = FALSE, !.todo = <<>>]
      /\ UNCHANGED <<cmdFeed, cmdPipe, cmdForked, cmdRequest, cmdAnswers>>
  BY DEF Return, Deregister
<1>2. cmdChild \in CmdForm
  BY DEF CmdInv, CmdTypeOK, CmdForm, CmdSteps
<1>3. cmdChild' \in CmdForm /\ cmdChild'.alive = FALSE
  <2> DEFINE S == Seq(CmdSteps)
  <2>1. <<>> \in S /\ FALSE \in BOOLEAN
    OBVIOUS
  <2>2. CmdForm = [todo : S, alive : BOOLEAN, ok : BOOLEAN]
    BY DEF CmdForm
  <2> HIDE DEF S
  <2>3. cmdChild \in [todo : S, alive : BOOLEAN, ok : BOOLEAN]
    BY <1>2, <2>2
  <2>4. [cmdChild EXCEPT !.alive = FALSE, !.todo = <<>>] \in CmdForm
        /\ [cmdChild EXCEPT !.alive = FALSE, !.todo = <<>>].alive = FALSE
    BY <2>1, <2>2, <2>3, ChildGoesOn
  <2> QED
    BY <1>1, <2>4
<1>4. CmdTypeOK'
  BY <1>1, <1>3 DEF CmdInv, CmdTypeOK, CmdForm, CmdSteps
<1>5. CmdStages'
  BY <1>1, <1>3 DEF CmdInv, CmdTypeOK, CmdStages
<1> QED
  BY <1>4, <1>5 DEF CmdInv

\* What the child does, and what the listener makes of it.
LEMMA CmdChildStep ==
  ASSUME CmdInv, Child
  PROVE  CmdInv'
<1>1. /\ cmdChild.alive /\ cmdPc = "running"
      /\ UNCHANGED <<cmdPc, cmdResult, cmdFeed, cmdToken>>
  <2>1. cmdChild.alive /\ UNCHANGED <<cmdPc, cmdResult, cmdFeed, cmdToken>>
    BY DEF Child, ChildReads, ChildWrites, ChildForks, ChildExits, ChildPosts, Step, Live
  <2> QED
    BY <2>1 DEF CmdInv, CmdTypeOK, CmdStages
<1>2. cmdChild \in CmdForm /\ cmdPipe \in [Ends -> 0 .. PipeCap]
  BY DEF CmdInv, CmdTypeOK, CmdForm, CmdSteps
<1>3. cmdChild' \in CmdForm
  <2>1. \/ cmdChild' = [cmdChild EXCEPT !.alive = FALSE]
        \/ cmdChild.todo # <<>> /\ cmdChild' = [cmdChild EXCEPT !.todo = Tail(@)]
    BY DEF Child, ChildReads, ChildWrites, ChildForks, ChildExits, ChildPosts, Step
  <2> DEFINE S == Seq(CmdSteps)
  <2>2. CmdForm = [todo : S, alive : BOOLEAN, ok : BOOLEAN]
    BY DEF CmdForm
  <2>3. cmdChild.todo \in Seq(CmdSteps)
    BY <1>2 DEF CmdForm
  <2>4. cmdChild.todo # <<>> => Tail(cmdChild.todo) \in S
    BY <2>3
  <2> HIDE DEF S
  <2>5. cmdChild \in [todo : S, alive : BOOLEAN, ok : BOOLEAN]
    BY <1>2, <2>2
  <2>6. FALSE \in BOOLEAN /\ cmdChild.alive \in BOOLEAN /\ cmdChild.todo \in S
    BY <2>5
  <2>7. [cmdChild EXCEPT !.alive = FALSE] \in CmdForm
    BY <2>2, <2>5, <2>6, ChildGoesOn
  <2>8. cmdChild.todo # <<>> => [cmdChild EXCEPT !.todo = Tail(@)] \in CmdForm
    BY <2>2, <2>4, <2>5, <2>6, ChildGoesOn
  <2> QED
    BY <2>1, <2>7, <2>8
<1>4. cmdPipe' \in [Ends -> 0 .. PipeCap]
  <2>1. \/ cmdPipe' = cmdPipe
        \/ cmdPipe["stdin"] > 0 /\ cmdPipe' = [cmdPipe EXCEPT !["stdin"] = @ - 1]
        \/ \E step \in {"out", "err"} :
             cmdPipe[Pipe(step)] < PipeCap /\ cmdPipe' = [cmdPipe EXCEPT ![Pipe(step)] = @ + 1]
    BY DEF Child, ChildReads, ChildWrites, ChildForks, ChildExits, ChildPosts
  <2>2. "stdin" \in Ends /\ \A step \in {"out", "err"} : Pipe(step) \in Ends
    BY DEF Ends, Pipe
  <2> QED
    BY <1>2, <2>1, <2>2, PipeHolds
<1>5. /\ cmdForked' \in BOOLEAN /\ cmdRequest' \subseteq {"print", "cancelled"}
      /\ cmdAnswers' \subseteq {"unauthorized", "printed", "printed late", "told", "store failed"}
  <2>1. cmdForked' = cmdForked \/ cmdForked' = TRUE
    BY DEF Child, ChildReads, ChildWrites, ChildForks, ChildExits, ChildPosts
  <2>2. \/ cmdRequest' = cmdRequest /\ cmdAnswers' = cmdAnswers
        \/ \E kind \in {"print", "cancelled"} : Request(kind)
    BY DEF Child, ChildReads, ChildWrites, ChildForks, ChildExits, ChildPosts, Step, Live
  <2> QED
    BY <2>1, <2>2 DEF Request, CmdInv, CmdTypeOK
<1>6. CmdTypeOK'
  BY <1>1, <1>3, <1>4, <1>5 DEF CmdInv, CmdTypeOK, CmdForm, CmdSteps
<1>7. CmdStages'
  BY <1>1 DEF CmdInv, CmdStages
<1> QED
  BY <1>6, <1>7 DEF CmdInv

\* What a process left behind does, and what the listener does.
LEMMA CmdOutsideStep ==
  ASSUME CmdInv, ForkExits \/ ForkPosts \/ Handle
  PROVE  CmdInv'
<1>1. UNCHANGED <<cmdPc, cmdResult, cmdFeed, cmdPipe, cmdChild, cmdToken>>
  BY DEF ForkExits, ForkPosts, Handle
<1>2. \/ cmdForked /\ cmdForked' = FALSE /\ UNCHANGED <<cmdRequest, cmdAnswers>>
      \/ cmdForked' = cmdForked /\ cmdForked /\ \E kind \in {"print", "cancelled"} : Request(kind)
      \/ /\ cmdForked' = cmdForked
         /\ \E kind \in cmdRequest, answer \in {"printed late", "printed", "told", "store failed"} :
              cmdRequest' = cmdRequest \ {kind} /\ cmdAnswers' = cmdAnswers \cup {answer}
  BY DEF ForkExits, ForkPosts, Handle, Answered
<1>3. CmdTypeOK'
  BY <1>1, <1>2 DEF CmdInv, CmdTypeOK, Request
<1>4. CmdStages'
  BY <1>1, <1>2 DEF CmdInv, CmdTypeOK, CmdStages
<1> QED
  BY <1>3, <1>4 DEF CmdInv

\* The inductive invariant of a run.
THEOREM CmdInvariant == CmdSpec => []CmdInv
<1>1. CmdInit => CmdInv
  <2> SUFFICES ASSUME CmdInit PROVE CmdInv
    OBVIOUS
  <2>1. Payload \in Nat /\ PipeCap \in Nat /\ <<>> \in Seq({"in", "out", "err", "print", "cancelled", "fork"})
    BY CmdAssumption
  <2>2. cmdPipe \in [Ends -> 0 .. PipeCap] /\ cmdFeed \in 0 .. Payload
    BY <2>1 DEF CmdInit
  <2>3. cmdChild = NoChild /\ ~NoChild.alive
    BY DEF CmdInit, NoChild
  <2>4. CmdTypeOK
    BY <2>1, <2>2 DEF CmdInit, CmdTypeOK, NoChild
  <2>5. CmdStages
    BY <2>3 DEF CmdInit, CmdStages
  <2> QED
    BY <2>4, <2>5 DEF CmdInv
<1>2. CmdInv /\ [CmdNext]_cmdVars => CmdInv'
  <2> SUFFICES ASSUME CmdInv, [CmdNext]_cmdVars PROVE CmdInv'
    OBVIOUS
  <2>1. CASE UNCHANGED cmdVars
    BY <2>1 DEF cmdVars, CmdInv, CmdTypeOK, CmdStages
  <2>2. ASSUME CmdEnds \/ CmdTimeout \/ CmdAborted
        PROVE  CmdInv'
    <3>1. \E result \in {"ok", "failed", "timeout", "aborted"} : Return(result)
      BY <2>2 DEF CmdEnds, CmdTimeout, CmdAborted
    <3> QED
      BY <3>1, CmdReturnStep
  <2> QED
    BY <2>1, <2>2, CmdStartStep, CmdParentStep, CmdChildStep, CmdOutsideStep DEF CmdNext, Parent
<1> QED
  BY <1>1, <1>2, PTL DEF CmdSpec

\* Somebody at a pipe can go on: the guards of the parent and of the child.
CanFeed == cmdFeed > 0 /\ (cmdChild.alive => cmdPipe["stdin"] < PipeCap)
CanDrain == \E e \in Ends \ {"stdin"} : cmdPipe[e] > 0
CanEnd == /\ cmdFeed = 0 /\ ~cmdChild.alive /\ ~cmdForked
          /\ cmdPipe["stdout"] = 0 /\ cmdPipe["stderr"] = 0
ChildCanGoOn ==
  /\ cmdChild.alive
  /\ cmdChild.todo # <<>> =>
       /\ Head(cmdChild.todo) = "in" => cmdPipe["stdin"] > 0 \/ cmdFeed = 0
       /\ Head(cmdChild.todo) \in {"out", "err"} => cmdPipe[Pipe(Head(cmdChild.todo))] < PipeCap

\* However large the parameters and the pipes are and whatever the child does
\* in whatever order, a run that no process left behind holds up is never
\* stuck: parent and child never wait for each other (exec.rs, run_command).
\* It is the part of CommandSettles that is not about fairness.
THEOREM CmdNeverStuck ==
  CmdSpec => [](cmdPc = "running" /\ ~cmdForked => CanFeed \/ CanDrain \/ CanEnd \/ ChildCanGoOn)
<1>1. ASSUME CmdInv, cmdPc = "running", ~cmdForked
      PROVE  CanFeed \/ CanDrain \/ CanEnd \/ ChildCanGoOn
  <2>1. /\ PipeCap \in Nat \ {0} /\ cmdFeed \in 0 .. Payload /\ Payload \in Nat
        /\ \A e \in Ends : cmdPipe[e] \in 0 .. PipeCap
        /\ "stdin" \in Ends /\ "stdout" \in Ends \ {"stdin"} /\ "stderr" \in Ends \ {"stdin"}
    BY <1>1, CmdAssumption DEF CmdInv, CmdTypeOK, Ends
  <2>2. CASE ~cmdChild.alive
    <3>1. CASE cmdFeed > 0
      BY <2>2, <3>1 DEF CanFeed
    <3>2. CASE cmdFeed = 0
      BY <1>1, <2>1, <2>2, <3>2 DEF CanDrain, CanEnd
    <3> QED
      BY <2>1, <3>1, <3>2
  <2>3. CASE cmdChild.alive
    <3> DEFINE next == Head(cmdChild.todo)
    <3>1. CASE cmdChild.todo = <<>>
      BY <2>3, <3>1 DEF ChildCanGoOn
    <3>2. CASE next = "in"
      <4>1. cmdPipe["stdin"] > 0 \/ cmdFeed = 0 \/ (cmdFeed > 0 /\ cmdPipe["stdin"] < PipeCap)
        BY <2>1
      <4> QED
        BY <2>3, <3>2, <4>1 DEF ChildCanGoOn, CanFeed
    <3>3. CASE next \in {"out", "err"}
      <4>1. Pipe(next) \in Ends \ {"stdin"}
        BY <3>3 DEF Pipe, Ends
      <4>2. cmdPipe[Pipe(next)] < PipeCap \/ cmdPipe[Pipe(next)] > 0
        BY <2>1, <4>1
      <4> QED
        BY <2>3, <3>3, <4>1, <4>2 DEF ChildCanGoOn, CanDrain
    <3>4. CASE next \notin {"in", "out", "err"}
      BY <2>3, <3>4 DEF ChildCanGoOn
    <3> QED
      BY <3>1, <3>2, <3>3, <3>4
  <2> QED
    BY <2>2, <2>3
<1>2. CmdInv => (cmdPc = "running" /\ ~cmdForked => CanFeed \/ CanDrain \/ CanEnd \/ ChildCanGoOn)
  BY <1>1
<1> QED
  BY <1>2, CmdInvariant, PTL

\* Once a run has returned, whatever way, its result stands and the listener
\* lets in no request of its child or of a process that it left behind
\* (loopback.rs: the registration goes with the run).
THEOREM CmdTokenEndsWithRun ==
  CmdSpec => [][cmdPc = "done" => cmdResult' = cmdResult /\ cmdRequest' \subseteq cmdRequest]_cmdVars
<1>1. ASSUME CmdInv, [CmdNext]_cmdVars, cmdPc = "done"
      PROVE  cmdResult' = cmdResult /\ cmdRequest' \subseteq cmdRequest
  <2>1. ~cmdChild.alive /\ cmdToken # "registered"
    BY <1>1 DEF CmdInv, CmdStages
  <2>2. UNCHANGED cmdVars \/ ForkExits \/ ForkPosts \/ Handle
    BY <1>1, <2>1 DEF CmdNext, CmdStart, Parent, CmdFeed, CmdDrain, Running, CmdEnds, CmdTimeout, CmdAborted,
       Return, Child, ChildReads, ChildWrites, ChildForks, ChildExits, ChildPosts, Step, Live
  <2> QED
    BY <2>1, <2>2 DEF cmdVars, ForkExits, ForkPosts, Handle, Request
<1>2. CmdInv /\ [CmdNext]_cmdVars =>
        [cmdPc = "done" => cmdResult' = cmdResult /\ cmdRequest' \subseteq cmdRequest]_cmdVars
  BY <1>1
<1> QED
  BY <1>2, CmdInvariant, PTL DEF CmdSpec

------------------------------------------------------------------------------
(* How they wind down                                                       *)

\* What a run still has to do: steps of the child, units to be written, read
\* or drained, and the exit.
CmdHeld == cmdPipe["stdin"] + cmdPipe["stdout"] + cmdPipe["stderr"]
CmdWork == 2 * Len(cmdChild.todo) + 2 * cmdFeed + CmdHeld + (IF cmdChild.alive THEN 1 ELSE 0)

\* A step of the child or a unit written may put one unit in a pipe.
LEMMA WorkGoesDown ==
  ASSUME NEW t \in Nat, NEW f \in Nat, NEW h \in Nat, NEW a \in Nat,
         NEW t2 \in Nat, NEW f2 \in Nat, NEW h2 \in Nat, NEW a2 \in Nat,
         t2 <= t, f2 <= f, a2 <= a,
         \/ (t2 < t \/ f2 < f) /\ h2 <= h + 1
         \/ h2 < h
         \/ h2 <= h /\ a2 < a
  PROVE  /\ 2 * t2 + 2 * f2 + h2 + a2 \in Nat
         /\ 2 * t2 + 2 * f2 + h2 + a2 < 2 * t + 2 * f + h + a
OBVIOUS

\* One unit into a pipe or out of it.
LEMMA HeldByOne ==
  ASSUME CmdInv, NEW e \in Ends, NEW n \in Nat, cmdPipe' = [cmdPipe EXCEPT ![e] = n]
  PROVE  /\ CmdHeld \in Nat /\ CmdHeld' \in Nat
         /\ n = cmdPipe[e] - 1 => CmdHeld' < CmdHeld
         /\ n <= cmdPipe[e] + 1 => CmdHeld' <= CmdHeld + 1
<1>1. PipeCap \in Nat /\ cmdPipe \in [Ends -> 0 .. PipeCap]
  BY CmdAssumption DEF CmdInv, CmdTypeOK
<1>2. /\ cmdPipe["stdin"] \in Nat /\ cmdPipe["stdout"] \in Nat /\ cmdPipe["stderr"] \in Nat
      /\ e \in {"stdin", "stdout", "stderr"}
  BY <1>1 DEF Ends
<1>3. /\ cmdPipe'["stdin"] = IF e = "stdin" THEN n ELSE cmdPipe["stdin"]
      /\ cmdPipe'["stdout"] = IF e = "stdout" THEN n ELSE cmdPipe["stdout"]
      /\ cmdPipe'["stderr"] = IF e = "stderr" THEN n ELSE cmdPipe["stderr"]
  BY <1>1 DEF Ends
<1>4. CASE e = "stdin"
  BY <1>2, <1>3, <1>4 DEF CmdHeld
<1>5. CASE e = "stdout"
  BY <1>2, <1>3, <1>5 DEF CmdHeld
<1>6. CASE e = "stderr"
  BY <1>2, <1>3, <1>6 DEF CmdHeld
<1> QED
  BY <1>2, <1>4, <1>5, <1>6

\* A child that does a step has one step less to do.
LEMMA StepTaken ==
  ASSUME CmdInv, cmdChild.todo # <<>>, cmdChild' = [cmdChild EXCEPT !.todo = Tail(@)]
  PROVE  /\ Len(cmdChild.todo) \in Nat /\ Len(cmdChild'.todo) \in Nat
         /\ Len(cmdChild'.todo) < Len(cmdChild.todo) /\ cmdChild'.alive = cmdChild.alive
<1>1. cmdChild \in CmdForm
  BY DEF CmdInv, CmdTypeOK, CmdForm, CmdSteps
<1>2. cmdChild.todo \in Seq(CmdSteps) /\ cmdChild'.todo = Tail(cmdChild.todo)
      /\ cmdChild'.alive = cmdChild.alive
  BY <1>1 DEF CmdForm
<1>3. Len(Tail(cmdChild.todo)) = Len(cmdChild.todo) - 1 /\ Len(cmdChild.todo) \in Nat
      /\ Len(cmdChild.todo) > 0
  BY <1>2
<1> QED
  BY <1>2, <1>3

\* The parts of CmdWork are numbers.
LEMMA WorkIsNumbers ==
  ASSUME NEW child \in CmdForm, NEW feed \in 0 .. Payload, NEW pipe \in [Ends -> 0 .. PipeCap]
  PROVE  /\ Len(child.todo) \in Nat /\ feed \in Nat /\ (IF child.alive THEN 1 ELSE 0) \in Nat
         /\ pipe["stdin"] + pipe["stdout"] + pipe["stderr"] \in Nat
<1>1. PipeCap \in Nat /\ Payload \in Nat
  BY CmdAssumption
<1>2. pipe["stdin"] \in Nat /\ pipe["stdout"] \in Nat /\ pipe["stderr"] \in Nat
  BY <1>1 DEF Ends
<1>3. child.todo \in Seq(CmdSteps)
  BY DEF CmdForm
<1> QED
  BY <1>1, <1>2, <1>3, LenProperties

\* While a run goes on, whatever the parent or the child does brings its end
\* nearer, and nobody else puts it off: it takes no more steps than CmdWork
\* counts (exec.rs, run_command). With CmdNeverStuck it is what CommandSettles
\* says but for fairness.
THEOREM CmdWindsDown ==
  CmdSpec => [][cmdPc = "running" /\ cmdPc' = "running" =>
                  \/ CmdWork' \in Nat /\ CmdWork' < CmdWork
                  \/ UNCHANGED <<cmdFeed, cmdPipe, cmdChild>>]_cmdVars
<1> DEFINE Down == CmdWork' \in Nat /\ CmdWork' < CmdWork
           Kept == UNCHANGED <<cmdFeed, cmdPipe, cmdChild>>
<1>1. ASSUME CmdInv, CmdInv', [CmdNext]_cmdVars, cmdPc = "running", cmdPc' = "running"
      PROVE  Down \/ Kept
  <2> DEFINE t == Len(cmdChild.todo)
             a == IF cmdChild.alive THEN 1 ELSE 0
             Moves == /\ t' <= t /\ cmdFeed' <= cmdFeed /\ a' <= a
                      /\ \/ (t' < t \/ cmdFeed' < cmdFeed) /\ CmdHeld' <= CmdHeld + 1
                         \/ CmdHeld' < CmdHeld
                         \/ CmdHeld' <= CmdHeld /\ a' < a
  <2>1. /\ t \in Nat /\ cmdFeed \in Nat /\ CmdHeld \in Nat /\ a \in Nat
        /\ t' \in Nat /\ cmdFeed' \in Nat /\ CmdHeld' \in Nat /\ a' \in Nat
    <3>1. /\ cmdChild \in CmdForm /\ cmdFeed \in 0 .. Payload /\ cmdPipe \in [Ends -> 0 .. PipeCap]
          /\ cmdChild' \in CmdForm /\ cmdFeed' \in 0 .. Payload /\ cmdPipe' \in [Ends -> 0 .. PipeCap]
      BY <1>1 DEF CmdInv, CmdTypeOK, CmdForm, CmdSteps
    <3>2. t \in Nat /\ cmdFeed \in Nat /\ CmdHeld \in Nat /\ a \in Nat
      BY <3>1, WorkIsNumbers DEF CmdHeld
    <3>3. t' \in Nat /\ cmdFeed' \in Nat /\ CmdHeld' \in Nat /\ a' \in Nat
      BY <3>1, WorkIsNumbers DEF CmdHeld
    <3> QED
      BY <3>2, <3>3
  <2>2. \A e \in Ends : cmdPipe[e] \in Nat /\ cmdPipe[e] + 1 \in Nat
                          /\ (cmdPipe[e] > 0 => cmdPipe[e] - 1 \in Nat)
    <3>1. PipeCap \in Nat /\ cmdPipe \in [Ends -> 0 .. PipeCap]
      BY <1>1, CmdAssumption DEF CmdInv, CmdTypeOK
    <3> QED
      BY <3>1
  <2>3. Moves => Down
    <3> DEFINE n == 2 * t + 2 * cmdFeed + CmdHeld + a
    <3>1. ASSUME Moves PROVE n' < n /\ n' \in Nat
      <4> HIDE DEF t, a
      <4> QED
        BY <2>1, <3>1, WorkGoesDown
    <3>2. CmdWork = n /\ CmdWork' = n'
      BY DEF CmdWork
    <3> QED
      BY <3>1, <3>2
  <2>4. ASSUME UNCHANGED cmdFeed, UNCHANGED cmdChild
        PROVE  t' <= t /\ cmdFeed' <= cmdFeed /\ a' <= a /\ t' = t
    <3>1. t' = t /\ a' = a /\ cmdFeed' = cmdFeed
      BY <2>4
    <3> HIDE DEF t, a
    <3> QED
      BY <2>1, <3>1
  <2>5. ASSUME UNCHANGED cmdPipe PROVE CmdHeld' = CmdHeld /\ CmdHeld' <= CmdHeld + 1
    <3>1. CmdHeld' = CmdHeld
      BY <2>5 DEF CmdHeld
    <3> QED
      BY <2>1, <3>1
  <2>6. ASSUME CmdFeed PROVE Moves
    <3>1. cmdFeed' = cmdFeed - 1 /\ UNCHANGED cmdChild
      BY <2>6 DEF CmdFeed
    <3>2. cmdFeed' < cmdFeed /\ t' = t /\ a' = a
      BY <2>1, <3>1
    <3>3. CmdHeld' <= CmdHeld + 1
      <4>1. CASE cmdChild.alive
        <5>1. cmdPipe' = [cmdPipe EXCEPT !["stdin"] = cmdPipe["stdin"] + 1] /\ "stdin" \in Ends
          BY <2>6, <4>1 DEF CmdFeed, Ends
        <5>2. cmdPipe["stdin"] + 1 \in Nat /\ cmdPipe["stdin"] + 1 <= cmdPipe["stdin"] + 1
          BY <2>2, <5>1
        <5> QED
          BY <1>1, <5>1, <5>2, HeldByOne
      <4>2. CASE ~cmdChild.alive
        <5>1. UNCHANGED cmdPipe
          BY <1>1, <2>6, <4>2 DEF CmdFeed, CmdInv, CmdTypeOK
        <5> QED
          BY <2>5, <5>1
      <4> QED
        BY <4>1, <4>2
    <3> HIDE DEF t, a
    <3> QED
      BY <2>1, <3>2, <3>3
  <2>7. ASSUME NEW e \in Ends, CmdDrain(e) PROVE Moves
    <3>1. cmdPipe' = [cmdPipe EXCEPT ![e] = cmdPipe[e] - 1] /\ cmdPipe[e] > 0
          /\ UNCHANGED <<cmdFeed, cmdChild>>
      BY <2>7 DEF CmdDrain
    <3>2. CmdHeld' < CmdHeld
      BY <1>1, <2>2, <3>1, HeldByOne
    <3> QED
      BY <2>4, <3>1, <3>2
  <2>8. ASSUME NEW step, Step(step), CmdHeld' <= CmdHeld + 1 PROVE Moves
    <3>1. cmdChild.todo # <<>> /\ cmdChild' = [cmdChild EXCEPT !.todo = Tail(@)] /\ UNCHANGED cmdFeed
      BY <2>8 DEF Step, Live
    <3>2. t' < t /\ a' = a
      BY <1>1, <3>1, StepTaken
    <3> HIDE DEF t, a
    <3> QED
      BY <2>1, <2>8, <3>1, <3>2
  <2>9. ASSUME ChildReads PROVE Moves
    <3>1. \/ cmdPipe' = [cmdPipe EXCEPT !["stdin"] = cmdPipe["stdin"] - 1] /\ cmdPipe["stdin"] > 0
          \/ UNCHANGED cmdPipe
      BY <2>9 DEF ChildReads
    <3>2. "stdin" \in Ends
      BY DEF Ends
    <3>3. CmdHeld' < CmdHeld \/ CmdHeld' = CmdHeld
      BY <1>1, <2>2, <2>5, <3>1, <3>2, HeldByOne
    <3>4. CmdHeld' <= CmdHeld + 1
      BY <2>1, <3>3
    <3> QED
      BY <2>8, <2>9, <3>4 DEF ChildReads
  <2>10. ASSUME ChildWrites PROVE Moves
    <3>1. PICK step \in {"out", "err"} :
            Step(step) /\ cmdPipe' = [cmdPipe EXCEPT ![Pipe(step)] = cmdPipe[Pipe(step)] + 1]
      BY <2>10 DEF ChildWrites
    <3>2. Pipe(step) \in Ends
      BY DEF Pipe, Ends
    <3>3. CmdHeld' <= CmdHeld + 1
      <4> DEFINE m == cmdPipe[Pipe(step)] + 1
      <4>1. m \in Nat /\ m <= cmdPipe[Pipe(step)] + 1
        BY <2>2, <3>2
      <4> QED
        BY <1>1, <3>1, <3>2, <4>1, HeldByOne
    <3> QED
      BY <2>8, <3>1, <3>3
  <2>11. ASSUME ChildForks \/ ChildPosts PROVE Moves
    <3>1. cmdChild.todo # <<>> /\ cmdChild' = [cmdChild EXCEPT !.todo = Tail(@)]
          /\ UNCHANGED <<cmdFeed, cmdPipe>>
      BY <2>11 DEF ChildForks, ChildPosts, Step, Live
    <3>2. t' < t /\ a' = a
      BY <1>1, <3>1, StepTaken
    <3>3. CmdHeld' <= CmdHeld + 1 /\ cmdFeed' = cmdFeed
      BY <2>5, <3>1
    <3> HIDE DEF t, a
    <3> QED
      BY <2>1, <3>2, <3>3
  <2>12. ASSUME ChildExits PROVE Moves
    <3>1. cmdChild.alive /\ cmdChild' = [cmdChild EXCEPT !.alive = FALSE] /\ UNCHANGED <<cmdFeed, cmdPipe>>
      BY <2>12 DEF ChildExits, Live
    <3>2. ~cmdChild'.alive /\ cmdChild'.todo = cmdChild.todo
      BY <1>1, <3>1 DEF CmdInv, CmdTypeOK
    <3>3. a = 1 /\ a' = 0 /\ t' = t /\ CmdHeld' = CmdHeld /\ cmdFeed' = cmdFeed
      BY <2>5, <3>1, <3>2
    <3> HIDE DEF t, a
    <3> QED
      BY <2>1, <3>3
  <2>13. CASE UNCHANGED cmdVars
    BY <2>13 DEF cmdVars
  <2>14. ASSUME ForkExits \/ ForkPosts \/ Handle PROVE Kept
    BY <2>14 DEF ForkExits, ForkPosts, Handle
  <2>15. ~CmdEnds /\ ~CmdTimeout /\ ~CmdAborted /\ \A key \in CmdKeys : ~CmdStart(key)
    BY <1>1 DEF CmdEnds, CmdTimeout, CmdAborted, Return, CmdStart
  <2> HIDE DEF Moves, Down, Kept
  <2> QED
    BY <1>1, <2>3, <2>6, <2>7, <2>9, <2>10, <2>11, <2>12, <2>13, <2>14, <2>15
       DEF CmdNext, Parent, Child, Kept, cmdVars
<1>2. CmdInv /\ CmdInv' /\ [CmdNext]_cmdVars =>
        [cmdPc = "running" /\ cmdPc' = "running" => Down \/ Kept]_cmdVars
  <2> HIDE DEF Down, Kept
  <2> QED
    BY <1>1
<1> QED
  BY <1>2, CmdInvariant, PTL DEF CmdSpec

\* How many steps the reader takes at most before it looks at the clock and
\* stops, once nobody has polled for idle_ttl.
StrLeft ==
  CASE strReader.pc \in {"none", "stopped"} -> 0
    [] strReader.pc = "check" -> 1
    [] strReader.pc = "push" -> 2 + Len(strReader.lines)
    [] strReader.pc = "ending" -> 1 + Len(strReader.lines)
    [] OTHER -> 5

\* A stream that nobody has polled for idle_ttl is about to end, whatever bytes
\* still come: each step of its reader, of any kind, is one of the at most
\* StrLeft that it has left, unless a poll comes in between (read_stream,
\* is_idle). It is what AbandonedStreamEnds says but for fairness.
THEOREM StrWindsDown ==
  StrSpec => [][strAge > IdleTtl /\ strReader.pc # "none" /\ strReader' # strReader =>
                  StrLeft' \in Nat /\ StrLeft' < StrLeft]_strVars
<1> DEFINE Goes == StrLeft' \in Nat /\ StrLeft' < StrLeft
<1>1. ASSUME StrTypeOK, StrIInv, StrNextStep, strAge > IdleTtl, strReader.pc # "none",
             strReader' # strReader
      PROVE  Goes
  <2> DEFINE n == Len(strReader.lines)
  <2>1. /\ strReader \in StrReader /\ strReader.lines \in Seq(StrLine) /\ n \in Nat
        /\ strReader.pc \in {"check", "next", "push", "ending", "stopped"}
    <3>1. strReader \in StrReader
      BY <1>1 DEF StrTypeOK, StrReader
    <3>2. strReader.lines \in Seq(StrLine)
      BY <3>1 DEF StrReader
    <3> QED
      BY <1>1, <3>1, <3>2, LenProperties DEF StrReader
  <2>3. ASSUME StrCheck PROVE Goes
    <3>1. strReader.pc = "check" /\ strReader' = [strReader EXCEPT !.pc = "stopped"]
      BY <1>1, <2>3 DEF StrCheck
    <3>2. strReader'.pc = "stopped"
      BY <2>1, <3>1 DEF StrReader
    <3> QED
      BY <3>1, <3>2 DEF StrLeft
  <2>4. ASSUME StrWait \/ StrAborted PROVE Goes
    <3>1. strReader.pc = "next" /\ strReader'.pc \in {"check", "stopped"}
      BY <2>1, <2>4 DEF StrWait, StrAborted, StrNext, StrReader
    <3> QED
      BY <3>1 DEF StrLeft
  <2>5. ASSUME StrBytes PROVE Goes
    <3>1. PICK k \in 0 .. 2 : \E sizes \in [1 .. k -> StrSizes], rest \in BOOLEAN :
            strReader' = [strReader EXCEPT !.pc = "push", !.lines = Numbered(sizes), !.partial = rest]
      BY <2>5 DEF StrBytes
    <3>2. PICK sizes \in [1 .. k -> StrSizes] :
            strReader'.pc = "push" /\ strReader'.lines = Numbered(sizes)
      BY <2>1, <3>1 DEF StrReader
    <3>3. Len(Numbered(sizes)) = k
      BY <3>2 DEF Numbered
    <3>4. StrLeft = 5 /\ StrLeft' = 2 + k
      BY <2>5, <3>2, <3>3 DEF StrLeft, StrBytes, StrNext
    <3> QED
      BY <3>4
  <2>6. ASSUME StrEnd PROVE Goes
    <3>1. PICK size \in StrSizes :
            /\ strReader'.pc = "ending"
            /\ strReader'.lines = IF strReader.partial THEN Numbered(<<size>>) ELSE <<>>
      BY <2>6 DEF StrEnd
    <3>2. Len(Numbered(<<size>>)) = 1 /\ Len(<<>>) = 0
      BY DEF Numbered
    <3>3. Len(strReader'.lines) \in {0, 1}
      BY <3>1, <3>2
    <3>4. StrLeft = 5 /\ StrLeft' = 1 + Len(strReader'.lines)
      BY <2>6, <3>1 DEF StrLeft, StrEnd, StrNext
    <3>5. \A m \in {0, 1} : 1 + m \in {1, 2}
      OBVIOUS
    <3>6. StrLeft' \in {1, 2}
      BY <3>3, <3>4, <3>5, Zenon
    <3> QED
      BY <3>4, <3>6
  <2>7. ASSUME StrPush PROVE Goes
    <3>1. /\ strReader.pc \in {"push", "ending"} /\ strReader.lines # <<>>
          /\ strReader'.pc = strReader.pc /\ strReader'.lines = Tail(strReader.lines)
      BY <2>1, <2>7 DEF StrPush, StrReader
    <3>2. Len(strReader'.lines) = n - 1 /\ n > 0
      BY <2>1, <3>1
    <3> QED
      BY <2>1, <3>1, <3>2 DEF StrLeft
  <2>8. ASSUME StrPushed \/ StrFinish PROVE Goes
    <3>1. \/ strReader.pc = "push" /\ strReader'.pc = "check"
          \/ strReader.pc = "ending" /\ strReader'.pc = "stopped"
      BY <2>1, <2>8 DEF StrPushed, StrFinish, StrReader
    <3> QED
      BY <2>1, <3>1 DEF StrLeft
  <2>9. ~StrStart
    BY <1>1 DEF StrStart, StrIInv, ReaderInPlace
  <2>10. ~StrClose /\ ~StrTick /\ \A p \in StrPollers : ~StrPoll(p) /\ ~StrFind(p) /\ ~StrRead(p)
    BY <1>1 DEF StrClose, StrTick, StrPoll, StrFind, StrRead
  <2> HIDE DEF Goes
  <2> QED
    BY <1>1, <2>3, <2>4, <2>5, <2>6, <2>7, <2>8, <2>9, <2>10 DEF StrNextStep, Reader
<1>2. StrTypeOK /\ StrIInv /\ [StrNextStep]_strVars =>
        [strAge > IdleTtl /\ strReader.pc # "none" /\ strReader' # strReader => Goes]_strVars
  <2> HIDE DEF Goes
  <2> QED
    BY <1>1
<1> QED
  BY <1>2, StrInvariant, PTL DEF StrSpec

\* A started flow on its way out: its server no longer serves or was told to
\* stop, or a call that is done with it is about to stop it.
OauWinds(f) ==
  /\ oauStart[f] = "started"
  /\ \/ oauServer[f] # "serving" \/ f \in oauSignal
     \/ \E a \in Awaits : oauAwait[a].pc = "release" /\ oauAwait[a].flow = f
\* The order in which a server ends.
OauServerGoesOn(f) ==
  \/ oauServer[f] = "serving" /\ oauServer'[f] = "closing"
  \/ oauServer[f] = "closing" /\ oauServer'[f] = "closed"
  \/ oauServer[f] = "closed" /\ oauServer'[f] = "gone"

\* A flow on its way out stays on its way out. The call that is about to stop
\* it finds its handle in the registry, or the flow was signalled before it
\* (Reachable): no order of a stop, a supersede, a timeout and a release takes
\* the handle away without the signal.
LEMMA OauWindsOn ==
  OauTypeOK /\ OauIInv /\ [OauNext]_oauVars =>
    \A f \in Flows : OauWinds(f) => OauWinds(f)' /\ (oauServer'[f] = oauServer[f] \/ OauServerGoesOn(f))
<1> SUFFICES ASSUME OauTypeOK, OauIInv, [OauNext]_oauVars, NEW f \in Flows, OauWinds(f)
             PROVE  OauWinds(f)' /\ (oauServer'[f] = oauServer[f] \/ OauServerGoesOn(f))
  OBVIOUS
<1> DEFINE Goal == OauWinds(f)' /\ (oauServer'[f] = oauServer[f] \/ OauServerGoesOn(f))
<1>0. OauTypeOK /\ AwaitsRealFlow /\ Reachable
  BY DEF OauIInv
<1>1. ASSUME NEW g \in Flows, OauReclaim(g) \/ OauSupersede(g) \/ OauInboxPut(g) \/ OauRegister(g)
      PROVE  Goal
  BY <1>0, <1>1 DEF OauWinds, OauTypeOK, OauReclaim, OauSupersede, OauInboxPut, OauRegister, Goto, StopListener
<1>2. ASSUME NEW g \in Flows, OauBind(g) PROVE Goal
  <2>1. g # f /\ oauStart'[f] = oauStart[f] /\ oauServer'[f] = oauServer[f]
    BY <1>0, <1>2 DEF OauWinds, OauTypeOK, OauBind, Goto
  <2> QED
    BY <1>2, <2>1 DEF OauWinds, OauBind
<1>3. ASSUME NEW g \in Flows, OauCallback(g) \/ OauStop(g) PROVE Goal
  BY <1>0, <1>3 DEF OauWinds, OauTypeOK, OauCallback, OauStop, StopListener
<1>4. ASSUME NEW g \in Flows, OauShutdown(g) \/ OauClosed(g) \/ OauExit(g) \/ OauExpire(g)
      PROVE  Goal
  <2>1. /\ oauServer'[f] = oauServer[f] \/ OauServerGoesOn(f)
        /\ oauSignal \subseteq oauSignal' /\ UNCHANGED <<oauStart, oauAwait>>
    BY <1>0, <1>4
    DEF OauTypeOK, OauShutdown, OauClosed, OauExit, OauExpire, ServerGoes, StopListener, OauServerGoesOn
  <2> QED
    BY <2>1 DEF OauWinds, OauServerGoesOn
<1>5. ASSUME NEW b \in Awaits,
             OauAwait(b) \/ OauTake(b) \/ OauNoSender(b) \/ OauTimesOut(b) \/ OauCancelled(b)
      PROVE  Goal
  <2>1. /\ oauAwait[b].pc # "release" /\ UNCHANGED <<oauStart, oauServer, oauSignal>>
        /\ \A a \in Awaits \ {b} : oauAwait'[a] = oauAwait[a]
    BY <1>0, <1>5
    DEF OauTypeOK, OauAwait, OauTake, OauNoSender, OauTimesOut, OauCancelled, Waiting, AwaitGoes
  <2> QED
    BY <2>1 DEF OauWinds
<1>6. ASSUME NEW b \in Awaits, OauRelease(b) PROVE Goal
  <2>1. /\ UNCHANGED <<oauStart, oauServer>> /\ oauSignal \subseteq oauSignal'
        /\ \A a \in Awaits \ {b} : oauAwait'[a] = oauAwait[a]
    BY <1>0, <1>6 DEF OauTypeOK, OauRelease, StopListener, AwaitGoes
  <2>2. oauAwait[b].flow = f => oauServer[f] # "serving" \/ f \in oauSignal'
    BY <1>0, <1>6 DEF OauRelease, StopListener, Reachable, OauWinds
  <2> QED
    BY <2>1, <2>2 DEF OauWinds
<1>7. ASSUME UNCHANGED oauVars PROVE Goal
  BY <1>7 DEF oauVars, OauWinds
<1> HIDE DEF Goal
<1>8. ASSUME OauNext PROVE Goal
  <2>1. CASE OauServerStep
    BY <1>4, <2>1 DEF OauServerStep
  <2>2. CASE \E g \in Flows : \/ OauReclaim(g) \/ OauSupersede(g) \/ OauBind(g) \/ OauInboxPut(g)
                             \/ OauRegister(g) \/ OauCallback(g) \/ OauExpire(g) \/ OauStop(g)
    BY <1>1, <1>2, <1>3, <1>4, <2>2
  <2>3. CASE \E a \in Awaits : \/ OauAwait(a) \/ OauTake(a) \/ OauNoSender(a) \/ OauTimesOut(a)
                              \/ OauCancelled(a) \/ OauRelease(a)
    BY <1>5, <1>6, <2>3
  <2> QED
    BY <1>8, <2>1, <2>2, <2>3 DEF OauNext
<1> QED
  BY <1>7, <1>8 DEF Goal

\* The listener of a flow whose result was taken, that was stopped, or whose
\* call is on its way out ends without waiting for its lifetime: from the
\* moment its result is taken it is on its way out, it stays so whoever else
\* stops, supersedes or awaits it, and its server only goes from closing to
\* closed to gone (StopOnDrop, stop_listener). It is what PortGivenBack says
\* but for fairness.
THEOREM OauWindsDown ==
  OauSpec => /\ [](\A f \in Flows :
                     \/ oauSent[f] = "taken" \/ f \in oauSignal
                     \/ \E a \in Awaits : oauAwait[a].pc = "release" /\ oauAwait[a].flow = f
                     => OauWinds(f))
             /\ [][\A f \in Flows : OauWinds(f) =>
                     OauWinds(f)' /\ (oauServer'[f] = oauServer[f] \/ OauServerGoesOn(f))]_oauVars
<1> DEFINE Taken == \A f \in Flows : oauSent[f] = "taken" => OauWinds(f)
<1>1. OauInit => Taken
  BY DEF OauInit
<1>2. ASSUME OauTypeOK, OauIInv, Taken, [OauNext]_oauVars PROVE Taken'
  <2> SUFFICES ASSUME NEW f \in Flows, oauSent'[f] = "taken" PROVE OauWinds(f)'
    OBVIOUS
  <2>1. CASE oauSent[f] = "taken"
    BY <1>2, <2>1, OauWindsOn
  <2>2. CASE oauSent[f] # "taken"
    <3>1. PICK b \in Awaits : OauTake(b) /\ oauAwait[b].flow = f
      <4>1. \A g \in Flows : ~OauCallback(g) /\ ~OauClosed(g)
        BY <1>2, <2>2 DEF OauTypeOK, OauCallback, OauClosed
      <4>2. oauSent' # oauSent
        BY <2>2
      <4>3. PICK b \in Awaits : OauTake(b)
        BY <1>2, <4>1, <4>2
        DEF OauNext, OauServerStep, oauVars, OauReclaim, OauSupersede, OauBind, OauInboxPut, OauRegister,
            OauExpire, OauStop, OauShutdown, OauExit, OauAwait, OauNoSender, OauTimesOut, OauCancelled,
            OauRelease, Waiting
      <4>4. oauAwait[b].flow = f
        BY <1>2, <2>2, <4>3 DEF OauTake, OauTypeOK
      <4> QED
        BY <4>3, <4>4
    <3>2. oauStart[f] = "started"
      BY <1>2, <3>1 DEF OauTake, Waiting, OauIInv, AwaitsRealFlow
    <3> QED
      BY <1>2, <3>1, <3>2 DEF OauWinds, OauTake, Waiting, AwaitGoes, OauTypeOK
  <2> QED
    BY <2>1, <2>2
<1>3. OauIInv /\ Taken =>
        \A f \in Flows :
          \/ oauSent[f] = "taken" \/ f \in oauSignal
          \/ \E a \in Awaits : oauAwait[a].pc = "release" /\ oauAwait[a].flow = f
          => OauWinds(f)
  <2> SUFFICES ASSUME OauIInv, Taken, NEW f \in Flows,
                      \/ oauSent[f] = "taken" \/ f \in oauSignal
                      \/ \E a \in Awaits : oauAwait[a].pc = "release" /\ oauAwait[a].flow = f
               PROVE  OauWinds(f)
    OBVIOUS
  <2> QED
    BY DEF OauIInv, StartedOnly, AwaitsRealFlow, OauWinds
<1>4. OauTypeOK /\ OauIInv /\ [OauNext]_oauVars =>
        [\A f \in Flows : OauWinds(f) =>
           OauWinds(f)' /\ (oauServer'[f] = oauServer[f] \/ OauServerGoesOn(f))]_oauVars
  BY OauWindsOn
<1> HIDE DEF Taken
<1> QED
  BY <1>1, <1>2, <1>3, <1>4, OauInvariant, PTL DEF OauSpec
============================================================================
