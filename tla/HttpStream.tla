----------------------------- MODULE HttpStream -----------------------------
(***************************************************************************)
(* One HTTP stream of solx-actions/src/internal/http_stream.rs: the task   *)
(* that reads the response body into a buffer of lines, the callers that   *)
(* poll it by cursor, and the close.  Streams share nothing but the        *)
(* registry's lock, so one stands for all.                                 *)
(*                                                                         *)
(* A line is [no, raw, kept]: its number in the body, the bytes it came in *)
(* and the bytes its JSON value is written in (a line that is no JSON is   *)
(* kept as {"raw": ...}, which is longer; blanks inside JSON are dropped,  *)
(* which makes it shorter).  Time is strAge, the time since the last poll; *)
(* the deadline of a long poll may pass at any moment.                     *)
(***************************************************************************)
EXTENDS Naturals, Sequences, FiniteSetsExt

CONSTANTS StrPollers,   \* the callers of http-stream-poll
          StrSizes,     \* the pairs <<raw, kept>> a line may have
          MaxBuffer,    \* max_buffer_bytes
          IdleTtl,      \* idle_ttl, in ticks
          MaxLines      \* bound: lines the body may hold

ASSUME StrAssumption == /\ StrSizes \subseteq (Nat \ {0}) \X (Nat \ {0})
                        /\ MaxBuffer \in Nat /\ IdleTtl \in Nat /\ MaxLines \in Nat

VARIABLES strOpen,    \* "none", "open" (in the registry), "closed"
          strBuf,     \* StreamState: base, chunks, bytes, dropped, done, error
          strReader,  \* the reader task: pc, lines split off and not yet pushed,
                      \* whether `pending` holds an unfinished line, the end it saw
          strCount,   \* lines the body has brought so far
          strAge,     \* time since last_polled
          strPoller   \* per caller: pc, its cursor, what it was handed
strVars == <<strOpen, strBuf, strReader, strCount, strAge, strPoller>>

StrLine == [no : Nat, raw : Nat, kept : Nat]
NoBuffer == [base |-> 0, chunks |-> <<>>, bytes |-> 0, dropped |-> 0,
             done |-> FALSE, error |-> FALSE]

StrInit == /\ strOpen = "none" /\ strBuf = NoBuffer
           /\ strReader = [pc |-> "none", lines |-> <<>>, partial |-> FALSE, failed |-> FALSE]
           /\ strCount = 0 /\ strAge = 0
           /\ strPoller = [p \in StrPollers |->
                [pc |-> "idle", cursor |-> 0, got |-> <<>>, dropped |-> 0, ended |-> FALSE]]

NextIndex == strBuf.base + Len(strBuf.chunks)


(* Eviction goes on while the counter is over the cap and more than one    *)
(* chunk is left. A chunk added its raw size to the counter and takes its  *)
(* written size off it, never below 0.                                     *)
BytesAfter(chunks, bytes) ==
  LET left[k \in 0 .. Len(chunks)] ==
        IF k = 0 THEN bytes
        ELSE IF chunks[k].kept > left[k - 1] THEN 0 ELSE left[k - 1] - chunks[k].kept
  IN  left
EvictCount(chunks, bytes) ==
  Min({k \in 0 .. Len(chunks) - 1 :
         k = Len(chunks) - 1 \/ BytesAfter(chunks, bytes)[k] <= MaxBuffer})
PushLine(buf, line) ==
  LET chunks == Append(buf.chunks, line)
      bytes == buf.bytes + line.raw
      out == EvictCount(chunks, bytes)
  IN  [buf EXCEPT !.chunks = SubSeq(chunks, out + 1, Len(chunks)),
                  !.bytes = BytesAfter(chunks, bytes)[out],
                  !.base = @ + out, !.dropped = @ + out]

(* The request is sent, the task spawned and the stream entered.           *)
StrStart == /\ strOpen = "none"
            /\ strOpen' = "open" /\ strReader' = [strReader EXCEPT !.pc = "check"]
            /\ UNCHANGED <<strBuf, strCount, strAge, strPoller>>

------------------------------------------------------------------------------
(* The reader task *)
StrCheck == /\ strReader.pc = "check"
            /\ IF strAge > IdleTtl
               THEN /\ strReader' = [strReader EXCEPT !.pc = "stopped"]
                    /\ strBuf' = [strBuf EXCEPT !.done = TRUE, !.error = TRUE]
               ELSE strReader' = [strReader EXCEPT !.pc = "next"] /\ UNCHANGED strBuf
            /\ UNCHANGED <<strOpen, strCount, strAge, strPoller>>

(* The only place the task can be aborted is where it waits.               *)
StrNext == strReader.pc = "next" /\ UNCHANGED <<strOpen, strAge, strPoller, strBuf>>
(* What would break it: a reader that waits for bytes without a tick.     *)
StrWaitForBytes == StrNext /\ strOpen = "open" /\ UNCHANGED <<strReader, strCount>>
StrWait == /\ StrNext /\ strOpen = "open"
           /\ strReader' = [strReader EXCEPT !.pc = "check"] /\ UNCHANGED strCount
StrAborted == /\ StrNext /\ strOpen = "closed"
              /\ strReader' = [strReader EXCEPT !.pc = "stopped"] /\ UNCHANGED strCount

Numbered(sizes) == [i \in DOMAIN sizes |->
                      [no |-> strCount + i, raw |-> sizes[i][1], kept |-> sizes[i][2]]]
(* Bytes that complete some lines and may leave the start of another.      *)
StrBytes == /\ StrNext /\ strOpen = "open"
            /\ \E n \in 0 .. 2 : \E sizes \in [1 .. n -> StrSizes], rest \in BOOLEAN :
                 /\ strCount + n <= MaxLines
                 /\ n = 0 => rest
                 /\ strCount' = strCount + n
                 /\ strReader' = [strReader EXCEPT !.pc = "push", !.lines = Numbered(sizes),
                                                   !.partial = rest]
(* The body ends or its transport fails: what is pending is a line too.    *)
StrEnd == /\ StrNext /\ strOpen = "open"
          /\ \E fails \in BOOLEAN, size \in StrSizes :
               strReader' = [pc |-> "ending", failed |-> fails, partial |-> FALSE,
                             lines |-> IF strReader.partial THEN Numbered(<<size>>) ELSE <<>>]
          /\ strCount' = strCount + Len(strReader'.lines)

StrPush == /\ strReader.pc \in {"push", "ending"} /\ strReader.lines # <<>>
           /\ strBuf' = PushLine(strBuf, Head(strReader.lines))
           /\ strReader' = [strReader EXCEPT !.lines = Tail(@)]
           /\ UNCHANGED <<strOpen, strCount, strAge, strPoller>>
StrPushed == /\ strReader.pc = "push" /\ strReader.lines = <<>>
             /\ strReader' = [strReader EXCEPT !.pc = "check"]
             /\ UNCHANGED <<strOpen, strBuf, strCount, strAge, strPoller>>
StrFinish == /\ strReader.pc = "ending" /\ strReader.lines = <<>>
             /\ strBuf' = [strBuf EXCEPT !.done = TRUE, !.error = strReader.failed]
             /\ strReader' = [strReader EXCEPT !.pc = "stopped"]
             /\ UNCHANGED <<strOpen, strCount, strAge, strPoller>>

(* What the task does by itself; what the network brings is another matter.*)
Reader == StrCheck \/ StrWait \/ StrAborted \/ StrPush \/ StrPushed \/ StrFinish

------------------------------------------------------------------------------
(* Each poll of a caller goes on from the cursor the last one gave it.     *)
StrPoll(p) == /\ strPoller[p].pc = "idle" /\ strOpen # "none" /\ ~strPoller[p].ended
              /\ strPoller' = [strPoller EXCEPT ![p].pc = "find"]
              /\ UNCHANGED <<strOpen, strBuf, strReader, strCount, strAge>>
StrFind(p) == /\ strPoller[p].pc = "find"
              /\ strPoller' = [strPoller EXCEPT ![p].pc = IF strOpen = "open" THEN "read" ELSE "idle",
                                                ![p].ended = strOpen # "open"]
              /\ UNCHANGED <<strOpen, strBuf, strReader, strCount, strAge>>

(* What would break it: a cursor that ignores what was evicted.           *)
SinceIndex(cursor) == SubSeq(strBuf.chunks, cursor + 1, Len(strBuf.chunks))
(* What a cursor still has to read: `start` is where it is in the buffer.  *)
Since(cursor) == LET start == IF cursor > strBuf.base THEN cursor - strBuf.base ELSE 0
                 IN  SubSeq(strBuf.chunks, start + 1, Len(strBuf.chunks))
StrRead(p) ==
  LET chunks == Since(strPoller[p].cursor)
  IN  /\ strPoller[p].pc = "read"
      /\ strAge' = 0
      /\ \E again \in IF chunks # <<>> \/ strBuf.done THEN {FALSE} ELSE BOOLEAN :
           strPoller' = [strPoller EXCEPT ![p] =
             IF again THEN [@ EXCEPT !.pc = "find"]
             ELSE [pc |-> "idle", cursor |-> NextIndex, dropped |-> strBuf.dropped,
                   ended |-> strBuf.done,
                   got |-> @.got \o [i \in DOMAIN chunks |-> chunks[i].no]]]
      /\ UNCHANGED <<strOpen, strBuf, strReader, strCount>>

StrClose == /\ strOpen = "open" /\ strOpen' = "closed"
            /\ UNCHANGED <<strBuf, strReader, strCount, strAge, strPoller>>
StrTick == /\ strOpen # "none" /\ strReader.pc # "stopped" /\ strAge <= IdleTtl
           /\ strAge' = strAge + 1
           /\ UNCHANGED <<strOpen, strBuf, strReader, strCount, strPoller>>

StrNextStep == \/ StrStart \/ Reader \/ StrBytes \/ StrEnd \/ StrClose \/ StrTick
               \/ \E p \in StrPollers : StrPoll(p) \/ StrFind(p) \/ StrRead(p)
(* The runtime wakes the reader, at the latest by its tick, and time goes  *)
(* on; no byte, no end of the body and no caller is counted on.            *)
StrFairness == WF_strVars(Reader) /\ WF_strVars(StrTick)
StrSpec == StrInit /\ [][StrNextStep]_strVars /\ StrFairness

------------------------------------------------------------------------------
StrTypeOK ==
  /\ strOpen \in {"none", "open", "closed"}
  /\ strBuf \in [base : Nat, chunks : Seq(StrLine), bytes : Nat, dropped : Nat,
                 done : BOOLEAN, error : BOOLEAN]
  /\ strReader \in [pc : {"none", "check", "next", "push", "ending", "stopped"},
                    lines : Seq(StrLine), partial : BOOLEAN, failed : BOOLEAN]
  /\ strCount \in Nat /\ strAge \in 0 .. IdleTtl + 1
  /\ strPoller \in [StrPollers -> [pc : {"idle", "find", "read"}, cursor : Nat,
                                   got : Seq(Nat), dropped : Nat, ended : BOOLEAN]]

(* A caller that follows its cursor is handed lines in the order of the    *)
(* body and none of them twice; each line before its cursor that it was    *)
(* not handed had left the buffer, and the count of lines dropped that it  *)
(* was told covers it; and once it is told the stream is done there is no  *)
(* line it has yet to ask for (poll, push_line and finish).                *)
StreamAccounted ==
  \A p \in StrPollers :
    LET r == strPoller[p]
        handed == {r.got[i] : i \in DOMAIN r.got}
        missed == (1 .. r.cursor) \ handed
    IN  /\ \A i, j \in DOMAIN r.got : i < j => r.got[i] < r.got[j]
        /\ handed \subseteq 1 .. r.cursor
        /\ \A n \in missed : n <= strBuf.base
        /\ Cardinality(missed) <= r.dropped
        /\ r.ended /\ strOpen = "open" => r.cursor = strCount

(* The buffer keeps to its cap: with more than one line in it, the lines   *)
(* it holds have no more than max_buffer_bytes, be it those they came in   *)
(* or those they are written in. The module's doc promises it ("a          *)
(* max-buffered-bytes cap"); push_line does not keep it.                   *)
BytesOf(sizes) == LET sum[k \in 0 .. Len(sizes)] ==
                          IF k = 0 THEN 0 ELSE sum[k - 1] + sizes[k]
                  IN  sum[Len(sizes)]
BufferWithinCap ==
  LET held == strBuf.chunks
  IN  Len(held) > 1 =>
        \/ BytesOf([i \in DOMAIN held |-> held[i].raw]) <= MaxBuffer
        \/ BytesOf([i \in DOMAIN held |-> held[i].kept]) <= MaxBuffer

(* A stream nobody polls ends by itself (read_stream, is_idle): again and  *)
(* again the reader has stopped, or a caller has just polled.              *)
AbandonedStreamEnds == []<>(strReader.pc \in {"none", "stopped"} \/ strAge = 0)
==============================================================================
