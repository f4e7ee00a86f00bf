--------------------------- MODULE ExecutionProofs ---------------------------
(* Theorems about the dispatch of actions, about authorization and about   *)
(* the types of all that runs beside it, for every set of actions, URLs,    *)
(* calls and configs and every value of the bounds.                         *)
EXTENDS Actors, TransportProofs, NaturalOrder, SequenceTheorems, TLAPS

------------------------------------------------------------------------------
(* Dispatch *)

Frame == [action : DspActions, version : Nat, type : Types, caller : Callers,
          failing : BOOLEAN, stage : {"new", "checked", "ready", "sent"},
          list : SUBSET Urls, hops : Seq(Urls), asked : SUBSET Urls,
          lists : SUBSET SUBSET Urls]

\* What a frame keeps of the lists: the one in force is among those of its
\* time, and so is the one last read, unless the config read as empty; what
\* the frame checked was on one of them, and its policy holds a copy of one,
\* or of an empty config.
FrameInBounds(frame, allowed, last) ==
  /\ allowed \in frame.lists /\ last \in frame.lists \cup {{}}
  /\ frame.stage = "new" <=> frame.hops = <<>>
  /\ frame.stage # "new" => \E list \in frame.lists : frame.hops[1] \in list
  /\ frame.stage # "sent" => Len(frame.hops) <= 1
  /\ frame.stage \in {"ready", "sent"} => frame.list \in frame.lists \cup {{}}
  /\ \A k \in 2 .. Len(frame.hops) : frame.hops[k] \in frame.list

\* Two frames alike in what they asked for and under which lists.
SameHops(frame, other) == frame.stage = other.stage /\ frame.list = other.list
                          /\ frame.hops = other.hops /\ frame.lists = other.lists

\* The inductive invariant.
DspInv == /\ DspTypeOK /\ SecretsOfNearest
          /\ \A i \in 1 .. Depth : FrameInBounds(dspStack[i], dspAllowed, dspLast)

\* The same with the name of this module for the frames.
LEMMA DspTypesNamed ==
  DspTypeOK <=> /\ dspRow \in [DspActions -> [present : BOOLEAN, version : Nat]]
                /\ dspAllowed \subseteq Urls /\ dspLast \subseteq Urls
                /\ dspEdits \in 0 .. MaxEdits
                /\ dspResult \in {"none", "ok", "failed", "error"}
                /\ dspStack \in Seq(Frame) /\ Depth <= MaxDepth
BY DEF DspTypeOK, Frame

\* The invariant keeps requests within the lists of their time.
LEMMA DspInvBounds ==
  ASSUME DspInv
  PROVE  DspTypeOK /\ CallsStayInBounds
<1>1. ASSUME NEW i \in 1 .. Depth, dspStack[i].hops # <<>>
      PROVE  /\ \E list \in dspStack[i].lists : dspStack[i].hops[1] \in list
             /\ \E list \in dspStack[i].lists :
                  \A k \in 2 .. Len(dspStack[i].hops) : dspStack[i].hops[k] \in list
  <2>1. FrameInBounds(dspStack[i], dspAllowed, dspLast)
    BY DEF DspInv
  <2>2. dspStack[i] \in Frame
    <3>1. dspStack \in Seq(Frame) /\ Depth = Len(dspStack)
      BY DspTypesNamed DEF DspInv, Depth
    <3> QED
      BY <3>1, ElementOfSeq
  <2>3. Len(dspStack[i].hops) \in Nat
    BY <2>2, LenProperties DEF Frame
  <2>4. dspStack[i].stage # "new"
    BY <1>1, <2>1 DEF FrameInBounds
  <2>5. CASE dspStack[i].stage \in {"ready", "sent"} /\ dspStack[i].list \in dspStack[i].lists
    BY <2>1, <2>4, <2>5 DEF FrameInBounds
  <2>6. CASE \A k \in 2 .. Len(dspStack[i].hops) : FALSE
    BY <2>1, <2>4, <2>6 DEF FrameInBounds
  <2>7. CASE dspStack[i].stage \in {"ready", "sent"} /\ dspStack[i].list = {}
    BY <2>1, <2>6, <2>7 DEF FrameInBounds
  <2>8. CASE dspStack[i].stage = "checked"
    <3>1. Len(dspStack[i].hops) <= 1
      BY <2>1, <2>8 DEF FrameInBounds
    <3> QED
      BY <2>3, <2>6, <3>1
  <2> QED
    BY <2>1, <2>2, <2>4, <2>5, <2>7, <2>8 DEF FrameInBounds, Frame
<1>2. HopsAllowed
  BY <1>1, Zenon DEF HopsAllowed
<1> QED
  BY <1>2 DEF DspInv, CallsStayInBounds

\* The nearest guest or stored script below a frame exists where there is one.
LEMMA NearestExists ==
  ASSUME NEW i \in Nat, Around(i) # {}
  PROVE  Max(Around(i)) \in Around(i) /\ \A j \in Around(i) : j <= Max(Around(i))
<1>1. Around(i) \subseteq 0 .. i
  BY DEF Around
<1>2. \E m \in Around(i) : \A j \in Around(i) : j <= m
  BY <1>1, GreatestNatural
<1> QED
  BY <1>2 DEF Max

\* What a stack of frames was begun as stays with the frames that are left:
\* a step that keeps whose calls they are, and leaves each of them in bounds,
\* keeps the invariant.
LEMMA FramesKept ==
  ASSUME DspInv, DspTypeOK', Len(dspStack') \in 0 .. Depth,
         \A i \in 1 .. Len(dspStack') :
           /\ dspStack'[i].action = dspStack[i].action
           /\ dspStack'[i].version = dspStack[i].version
           /\ dspStack'[i].type = dspStack[i].type
           /\ dspStack'[i].caller = dspStack[i].caller
           /\ FrameInBounds(dspStack'[i], dspAllowed', dspLast')
  PROVE  DspInv'
<1>1. Depth \in Nat
  BY DspTypesNamed, LenProperties DEF Depth, DspInv
<1>2. \A i \in 1 .. Depth' : FrameInBounds(dspStack'[i], dspAllowed', dspLast')
  BY DEF Depth
<1>3. ASSUME NEW i \in 1 .. Len(dspStack')
      PROVE  LET caller == dspStack'[i].caller
             IN  IF Around(i)' = {} THEN caller \in {Nobody, Anon}
                 ELSE caller = Identity(dspStack'[Max(Around(i)')])
  <2>1. i \in 1 .. Depth /\ i \in Nat
    BY <1>1
  <2>2. \A j \in 1 .. i - 1 : j \in 1 .. Len(dspStack')
    BY <1>1
  <2>3. Around(i)' = Around(i)
    BY <2>2 DEF Around
  <2>4. IF Around(i) = {} THEN dspStack[i].caller \in {Nobody, Anon}
        ELSE dspStack[i].caller = Identity(dspStack[Max(Around(i))])
    BY <2>1 DEF DspInv, SecretsOfNearest
  <2>5. ASSUME Around(i) # {}
        PROVE  Identity(dspStack'[Max(Around(i))]) = Identity(dspStack[Max(Around(i))])
    <3>1. Max(Around(i)) \in 1 .. i - 1
      BY <2>1, <2>5, NearestExists DEF Around
    <3> QED
      BY <3>1, <2>2 DEF Identity
  <2> QED
    BY <2>3, <2>4, <2>5
<1> QED
  BY <1>2, <1>3 DEF DspInv, SecretsOfNearest, Depth

\* The frames left by an end, at whatever depth it comes, are frames of
\* before; one of them may be failing now.
LEMMA UnwindKeepsFrames ==
  ASSUME DspTypeOK, NEW depth \in 1 .. Depth, NEW outcome \in {"ok", "failed", "error"},
         Unwind(depth, outcome)
  PROVE  /\ dspStack' \in Seq(Frame) /\ Len(dspStack') = depth - 1
         /\ dspResult' \in {"none", "ok", "failed", "error"}
         /\ \A i \in 1 .. depth - 1 :
              /\ dspStack'[i].action = dspStack[i].action
              /\ dspStack'[i].version = dspStack[i].version
              /\ dspStack'[i].type = dspStack[i].type
              /\ dspStack'[i].caller = dspStack[i].caller
              /\ SameHops(dspStack'[i], dspStack[i])
<1>1. dspStack \in Seq(Frame) /\ Depth \in Nat /\ dspResult \in {"none", "ok", "failed", "error"}
  BY DspTypesNamed, LenProperties DEF Depth
<1>2. \A i \in 1 .. Depth : dspStack[i] \in Frame
  BY <1>1, ElementOfSeq DEF Depth
<1>3. CASE depth = 1
  BY <1>3, EmptySeq DEF Unwind
<1>4. CASE depth # 1
  <2> DEFINE left(i) == IF i = depth - 1 /\ Fails(dspStack[i], outcome)
                        THEN [dspStack[i] EXCEPT !.failing = TRUE] ELSE dspStack[i]
  <2>1. dspStack' = [i \in 1 .. depth - 1 |-> left(i)] /\ UNCHANGED dspResult
    BY <1>4 DEF Unwind
  <2>2. ASSUME NEW i \in 1 .. depth - 1
        PROVE  /\ left(i) \in Frame
               /\ left(i).action = dspStack[i].action /\ left(i).version = dspStack[i].version
               /\ left(i).type = dspStack[i].type /\ left(i).caller = dspStack[i].caller
               /\ SameHops(left(i), dspStack[i])
    <3>1. dspStack[i] \in Frame
      BY <1>1, <1>2
    <3> QED
      BY <3>1 DEF Frame, SameHops
  <2> HIDE DEF left
  <2>3. dspStack' \in [1 .. depth - 1 -> Frame] /\ depth - 1 \in Nat
    BY <1>1, <2>1, <2>2
  <2>4. dspStack' \in Seq(Frame) /\ Len(dspStack') = depth - 1
    BY <2>3, SeqDef, LenProperties
  <2> QED
    BY <1>1, <2>1, <2>2, <2>4
<1> QED
  BY <1>3, <1>4

\* A reading of the list leaves a frame in bounds.
LEMMA ReadingKeepsBounds ==
  ASSUME NEW frame, FrameInBounds(frame, dspAllowed, dspLast), dspLast' \in DspReads
  PROVE  FrameInBounds(frame, dspAllowed, dspLast')
BY DEF FrameInBounds, DspReads

\* So an end keeps the types and the invariant.
LEMMA UnwindKeepsBounds ==
  ASSUME DspInv, NEW depth \in 1 .. Depth,
         NEW outcome \in {"ok", "failed", "error"}, Unwind(depth, outcome),
         dspLast' \in DspReads, UNCHANGED <<dspRow, dspAllowed, dspEdits>>
  PROVE  DspInv'
<1>a. DspTypeOK
  BY DEF DspInv
<1>1. Depth \in Nat /\ Depth <= MaxDepth
  BY <1>a, DspTypesNamed, LenProperties DEF Depth
<1>2. /\ dspStack' \in Seq(Frame) /\ Len(dspStack') = depth - 1
      /\ dspResult' \in {"none", "ok", "failed", "error"}
  BY <1>a, UnwindKeepsFrames
<1>3. Depth' <= MaxDepth
  BY <1>1, <1>2, DspAssumption DEF Depth
<1>4. DspTypeOK'
  BY <1>a, <1>2, <1>3, DspTypesNamed DEF DspTypeOK, Frame, DspReads
<1>5. \A i \in 1 .. depth - 1 : FrameInBounds(dspStack[i], dspAllowed, dspLast)
  BY <1>1 DEF DspInv
<1>6. Len(dspStack') \in 0 .. Depth
  BY <1>1, <1>2
<1>7. \A i \in 1 .. Len(dspStack') :
           /\ dspStack'[i].action = dspStack[i].action
           /\ dspStack'[i].version = dspStack[i].version
           /\ dspStack'[i].type = dspStack[i].type
           /\ dspStack'[i].caller = dspStack[i].caller
           /\ FrameInBounds(dspStack'[i], dspAllowed', dspLast')
  <2>1. \A i \in 1 .. depth - 1 : FrameInBounds(dspStack'[i], dspAllowed, dspLast)
    BY <1>a, <1>5, UnwindKeepsFrames DEF FrameInBounds, SameHops
  <2>2. \A i \in 1 .. depth - 1 : FrameInBounds(dspStack'[i], dspAllowed, dspLast')
    BY <2>1, ReadingKeepsBounds
  <2> QED
    BY <1>a, <1>2, <2>2, UnwindKeepsFrames
<1> QED
  BY <1>4, <1>6, <1>7, FramesKept

\* The frame that is at work, if any.
LEMMA TopIsFrame ==
  ASSUME DspTypeOK, dspStack # <<>>
  PROVE  Top \in Frame /\ Depth \in 1 .. Depth /\ Top = dspStack[Depth]
<1>1. dspStack \in Seq(Frame) /\ Depth \in Nat /\ Depth # 0 /\ Depth = Len(dspStack)
  BY DspTypesNamed, LenProperties, EmptySeq DEF Depth
<1>2. Depth \in 1 .. Depth
  BY <1>1
<1> QED
  BY <1>1, <1>2, ElementOfSeq DEF Top

\* The innermost frame, changed in how far its request is or whether it fails.
LEMMA TopChanged ==
  ASSUME DspInv, dspStack # <<>>, NEW frame \in Frame,
         frame.action = Top.action, frame.version = Top.version, frame.type = Top.type,
         frame.caller = Top.caller, FrameInBounds(frame, dspAllowed, dspLast),
         dspStack' = [dspStack EXCEPT ![Depth] = frame], dspLast' \in DspReads,
         UNCHANGED <<dspRow, dspAllowed, dspEdits, dspResult>>
  PROVE  DspInv'
<1>a. DspTypeOK
  BY DEF DspInv
<1>1. dspStack \in Seq(Frame) /\ Depth \in Nat /\ Depth # 0 /\ Depth <= MaxDepth
  BY <1>a, DspTypesNamed, LenProperties, EmptySeq DEF Depth
<1>2. Depth \in 1 .. Len(dspStack)
  BY <1>1 DEF Depth
<1>3. /\ dspStack' \in Seq(Frame) /\ Len(dspStack') = Depth
      /\ \A i \in 1 .. Depth : dspStack'[i] = IF i = Depth THEN frame ELSE dspStack[i]
  BY <1>1, <1>2, ExceptSeq DEF Depth
<1>4. DspTypeOK'
  BY <1>a, <1>1, <1>3, DspTypesNamed DEF DspTypeOK, Frame, Depth, DspReads
<1>5. \A i \in 1 .. Len(dspStack') :
           /\ dspStack'[i].action = dspStack[i].action
           /\ dspStack'[i].version = dspStack[i].version
           /\ dspStack'[i].type = dspStack[i].type
           /\ dspStack'[i].caller = dspStack[i].caller
           /\ FrameInBounds(dspStack'[i], dspAllowed', dspLast')
  <2>1. \A i \in 1 .. Depth : FrameInBounds(dspStack'[i], dspAllowed, dspLast)
    BY <1>3 DEF DspInv
  <2>2. \A i \in 1 .. Depth : FrameInBounds(dspStack'[i], dspAllowed, dspLast')
    BY <2>1, ReadingKeepsBounds
  <2> QED
    BY <1>3, <2>2 DEF Top
<1> QED
  BY <1>1, <1>3, <1>4, <1>5, FramesKept

\* A frame is entered as whoever the one below it acts as, and the nearest
\* guest or script below the new frame is the one below it, if it is one, or
\* else the nearest below that: script-exec passes its caller on.
LEMMA EnterKeepsBounds ==
  ASSUME DspInv, NEW a \in DspActions, DspEnter(a)
  PROVE  DspInv'
<1>a. DspTypeOK
  BY DEF DspInv
<1> DEFINE caller == IF dspStack = <<>> THEN Nobody ELSE ActsAs(Top)
           new == NewFrame(a, caller)
<1>1. dspStack \in Seq(Frame) /\ Depth \in Nat /\ Depth <= MaxDepth /\ Depth = Len(dspStack)
  BY <1>a, DspTypesNamed, LenProperties DEF Depth
<1>2. dspStack' = Append(dspStack, new)
      /\ UNCHANGED <<dspRow, dspAllowed, dspLast, dspResult, dspEdits>>
      /\ MayCall
  BY DEF DspEnter
<1>3. dspStack = <<>> => Depth = 0
  BY <1>1, EmptySeq
<1>4. dspStack # <<>> => /\ Depth \in 1 .. Depth /\ Top \in Frame /\ Top = dspStack[Depth]
                         /\ Top.type \in {"Wasm", "Script", "script-exec"} /\ Depth + 1 <= MaxDepth
  <2> SUFFICES ASSUME dspStack # <<>>
               PROVE  /\ Depth \in 1 .. Depth /\ Top \in Frame /\ Top = dspStack[Depth]
                      /\ Top.type \in {"Wasm", "Script", "script-exec"} /\ Depth + 1 <= MaxDepth
    OBVIOUS
  <2>1. Depth \in 1 .. Depth
    BY <1>1, EmptySeq
  <2>2. Top \in Frame /\ Top = dspStack[Depth]
    BY <1>1, <2>1, ElementOfSeq DEF Top
  <2>3. Calls(Top) /\ Depth < MaxDepth
    BY <1>2 DEF MayCall
  <2> QED
    BY <1>1, <2>1, <2>2, <2>3, DspAssumption DEF Calls
<1>5. caller \in Callers
  BY <1>4 DEF ActsAs, Callers, Identity, Frame
<1>6. new \in Frame /\ new.caller = caller /\ FrameInBounds(new, dspAllowed, dspLast)
  <2> HIDE DEF caller
  <2>1. /\ dspRow[a].version \in Nat /\ DspTypes[a] \in Types
        /\ <<>> \in Seq(Urls) /\ Len(<<>>) = 0
    BY <1>a, DspTypesNamed, DspAssumption, EmptySeq
  <2>2. dspAllowed \in SUBSET Urls /\ dspLast \in SUBSET Urls
    BY <1>a, DspTypesNamed
  <2>3. new \in Frame /\ new.caller = caller
    BY <1>5, <2>1, <2>2 DEF NewFrame, Frame
  <2>4. /\ new.lists = {dspAllowed, dspLast} /\ new.stage = "new" /\ new.hops = <<>>
    BY DEF NewFrame
  <2> HIDE DEF new
  <2> QED
    BY <2>1, <2>3, <2>4 DEF FrameInBounds
<1> HIDE DEF new, caller
<1>7. /\ dspStack' \in Seq(Frame) /\ Len(dspStack') = Depth + 1
      /\ \A i \in 1 .. Depth : dspStack'[i] = dspStack[i]
      /\ dspStack'[Depth + 1] = new
  BY <1>1, <1>2, <1>6, AppendProperties
<1>8. Depth' = Depth + 1 /\ Depth + 1 <= MaxDepth
  BY <1>1, <1>3, <1>4, <1>7, DspAssumption DEF Depth
<1>9. DspTypeOK'
  BY <1>a, <1>2, <1>7, <1>8, DspTypesNamed DEF DspTypeOK, Frame
<1>10. \A i \in 1 .. Depth' : FrameInBounds(dspStack'[i], dspAllowed', dspLast')
  BY <1>1, <1>2, <1>6, <1>7, <1>8 DEF DspInv
<1>11. \A i \in 1 .. Depth + 1 : Around(i)' = Around(i)
  <2> SUFFICES ASSUME NEW i \in 1 .. Depth + 1 PROVE Around(i)' = Around(i)
    OBVIOUS
  <2>1. \A j \in 1 .. i - 1 : j \in 1 .. Depth
    BY <1>1
  <2> QED
    BY <1>7, <2>1 DEF Around
<1>12. \A i \in 1 .. Depth + 1 : Around(i) # {} => Max(Around(i)) \in 1 .. Depth /\ Max(Around(i)) < i
                                                   /\ Max(Around(i)) \in Around(i)
  <2> SUFFICES ASSUME NEW i \in 1 .. Depth + 1, Around(i) # {}
               PROVE  Max(Around(i)) \in 1 .. Depth /\ Max(Around(i)) < i /\ Max(Around(i)) \in Around(i)
    OBVIOUS
  <2>1. Max(Around(i)) \in Around(i) /\ i \in Nat
    BY <1>1, NearestExists
  <2>2. Max(Around(i)) \in 1 .. i - 1
    BY <2>1 DEF Around
  <2> QED
    BY <1>1, <2>1, <2>2
<1>13. IF Around(Depth + 1) = {} THEN caller \in {Nobody, Anon}
       ELSE caller = Identity(dspStack[Max(Around(Depth + 1))])
  <2>1. CASE dspStack = <<>>
    <3>1. Around(Depth + 1) = {}
      BY <1>3, <2>1 DEF Around
    <3> QED
      BY <2>1, <3>1 DEF caller
  <2>2. CASE dspStack # <<>> /\ Top.type \in {"Wasm", "Script"}
    <3>1. Depth \in Around(Depth + 1)
      BY <1>1, <1>4, <2>2 DEF Around
    <3>2. Max(Around(Depth + 1)) \in 1 .. Depth /\ Depth <= Max(Around(Depth + 1))
      BY <1>1, <1>12, <3>1, NearestExists
    <3>3. Max(Around(Depth + 1)) = Depth
      BY <1>1, <3>2
    <3> QED
      BY <1>4, <2>2, <3>1, <3>3 DEF caller, ActsAs
  <2>3. CASE dspStack # <<>> /\ Top.type = "script-exec"
    <3>1. Around(Depth + 1) = Around(Depth)
      <4>1. ASSUME NEW j \in 1 .. Depth, dspStack[j].type \in {"Wasm", "Script"}
            PROVE  j \in 1 .. Depth - 1
        <5>1. j # Depth
          BY <1>4, <2>3, <4>1
        <5> QED
          BY <1>1, <5>1
      <4> DEFINE asks(j) == dspStack[j].type \in {"Wasm", "Script"}
      <4>2. (Depth + 1) - 1 = Depth
        BY <1>1
      <4>3. Around(Depth + 1) = {j \in 1 .. Depth : asks(j)}
        BY <4>2, Zenon DEF Around
      <4>4. Around(Depth) = {j \in 1 .. Depth - 1 : asks(j)}
        BY DEF Around
      <4>5. \A j \in 1 .. Depth : asks(j) => j \in 1 .. Depth - 1
        BY <4>1
      <4>6. 1 .. Depth - 1 \subseteq 1 .. Depth
        BY <1>1
      <4> DEFINE all == 1 .. Depth
                 below == 1 .. Depth - 1
      <4> HIDE DEF asks, all, below
      <4> QED
        BY <4>3, <4>4, <4>5, <4>6, Zenon DEF all, below
    <3>2. caller = IF Top.caller = Nobody THEN Anon ELSE Top.caller
      BY <2>3 DEF caller, ActsAs
    <3>3. IF Around(Depth) = {} THEN Top.caller \in {Nobody, Anon}
          ELSE Top.caller = Identity(dspStack[Max(Around(Depth))])
      BY <1>4, <2>3 DEF DspInv, SecretsOfNearest
    <3>4. ASSUME Around(Depth) # {} PROVE Identity(dspStack[Max(Around(Depth))]) # Nobody
      <4>1. Max(Around(Depth)) \in 1 .. Depth
        BY <1>4, <1>12, <2>3, <3>1, <3>4
      <4>2. dspStack[Max(Around(Depth))] \in Frame
        BY <1>1, <4>1, ElementOfSeq
      <4>3. Identity(dspStack[Max(Around(Depth))]) \in DspActions \X Nat
        BY <4>2 DEF Identity, Frame
      <4> QED
        BY <4>3, DspAssumption
    <3> QED
      BY <3>1, <3>2, <3>3, <3>4
  <2> QED
    BY <1>4, <2>1, <2>2, <2>3
<1>14. ASSUME NEW i \in 1 .. Depth + 1
       PROVE  IF Around(i)' = {} THEN dspStack'[i].caller \in {Nobody, Anon}
              ELSE dspStack'[i].caller = Identity(dspStack'[Max(Around(i)')])
  <2>1. Around(i) # {} => dspStack'[Max(Around(i))] = dspStack[Max(Around(i))]
    BY <1>7, <1>12
  <2>2. CASE i = Depth + 1
    BY <1>6, <1>7, <1>11, <1>13, <2>1, <2>2
  <2>3. CASE i \in 1 .. Depth
    <3>1. IF Around(i) = {} THEN dspStack[i].caller \in {Nobody, Anon}
          ELSE dspStack[i].caller = Identity(dspStack[Max(Around(i))])
      BY <2>3 DEF DspInv, SecretsOfNearest
    <3> QED
      BY <1>7, <1>11, <2>1, <2>3, <3>1
  <2> QED
    BY <1>1, <2>2, <2>3
<1> QED
  BY <1>8, <1>9, <1>10, <1>14 DEF DspInv, SecretsOfNearest

\* The frame that is at work is in bounds.
LEMMA TopInBounds ==
  ASSUME DspInv, dspStack # <<>>
  PROVE  FrameInBounds(Top, dspAllowed, dspLast)
<1>1. Depth \in 1 .. Depth /\ Top = dspStack[Depth]
  BY TopIsFrame DEF DspInv
<1> QED
  BY <1>1 DEF DspInv

\* A request that may not be made: the request itself fails, or the one that
\* made it is told.
LEMMA RefusedKeepsBounds ==
  ASSUME DspInv, DspRefused
  PROVE  DspInv'
<1>a. DspTypeOK
  BY DEF DspInv
<1>1. CASE dspStack = <<>>
  <2>1. /\ dspResult' = "error" /\ dspStack' = dspStack
        /\ UNCHANGED <<dspRow, dspAllowed, dspLast, dspEdits>>
    BY <1>1 DEF DspRefused, Within
  <2>2. DspTypeOK'
    BY <1>a, <2>1, DspTypesNamed DEF DspTypeOK, Frame, Depth
  <2> QED
    BY <2>1, <2>2 DEF DspInv, SecretsOfNearest, Around, Depth, Identity
<1>2. CASE dspStack # <<>>
  <2> DEFINE frame == [Top EXCEPT !.failing = Fails(Top, "error")]
  <2>1. /\ dspStack' = [dspStack EXCEPT ![Depth].failing = Fails(Top, "error")]
        /\ UNCHANGED <<dspRow, dspAllowed, dspLast, dspEdits, dspResult>>
    BY <1>2 DEF DspRefused, Within
  <2>2. Top \in Frame /\ Depth \in 1 .. Depth
    BY <1>a, <1>2, TopIsFrame
  <2>3. /\ frame \in Frame /\ frame.action = Top.action /\ frame.version = Top.version
        /\ frame.type = Top.type /\ frame.caller = Top.caller /\ SameHops(frame, Top)
    BY <2>2 DEF Frame, Fails, SameHops
  <2>4. dspStack' = [dspStack EXCEPT ![Depth] = frame]
    BY <2>1 DEF Top
  <2> HIDE DEF frame
  <2>5. FrameInBounds(frame, dspAllowed, dspLast)
    BY <1>2, <2>3, TopInBounds DEF SameHops, FrameInBounds
  <2> QED
    BY <1>2, <2>1, <2>3, <2>4, <2>5, TopChanged DEF DspReads
<1> QED
  BY <1>1, <1>2

\* What was checked was on the list in force just then, or on the one last read.
LEMMA CheckKeepsBounds ==
  ASSUME DspInv, NEW url \in Urls, DspCheck(url)
  PROVE  DspInv'
<1>a. DspTypeOK
  BY DEF DspInv
<1>1. dspStack # <<>> /\ Top \in Frame /\ Depth \in 1 .. Depth /\ Top.stage = "new"
  BY <1>a, TopIsFrame DEF DspCheck, At
<1>2. PICK list \in DspReads :
        /\ dspLast' = list /\ UNCHANGED <<dspRow, dspAllowed, dspEdits>>
        /\ IF url \in list
           THEN /\ dspStack' = [dspStack EXCEPT ![Depth].stage = "checked", ![Depth].hops = <<url>>]
                /\ UNCHANGED dspResult
           ELSE Unwind(Depth, "error")
  BY DEF DspCheck, Reading
<1>3. CASE url \in list
  <2> DEFINE frame == [Top EXCEPT !.stage = "checked", !.hops = <<url>>]
  <2>1. /\ dspStack' = [dspStack EXCEPT ![Depth].stage = "checked", ![Depth].hops = <<url>>]
        /\ UNCHANGED <<dspRow, dspAllowed, dspEdits, dspResult>>
    BY <1>2, <1>3
  <2>2. /\ frame \in Frame /\ frame.action = Top.action /\ frame.version = Top.version
        /\ frame.type = Top.type /\ frame.caller = Top.caller
        /\ frame.stage = "checked" /\ frame.hops = <<url>> /\ frame.lists = Top.lists
    <3>1. <<url>> \in Seq(Urls)
      OBVIOUS
    <3> QED
      BY <1>1, <3>1 DEF Frame
  <2>3. dspStack' = [dspStack EXCEPT ![Depth] = frame]
    BY <2>1 DEF Top
  <2>4. list \in Top.lists /\ dspAllowed \in Top.lists /\ dspLast \in Top.lists \cup {{}}
    BY <1>1, <1>2, <1>3, TopInBounds DEF DspReads, FrameInBounds
  <2>5. Len(<<url>>) = 1 /\ <<url>>[1] = url /\ <<url>> # <<>>
    OBVIOUS
  <2> HIDE DEF frame
  <2>6. FrameInBounds(frame, dspAllowed, dspLast)
    BY <1>3, <2>2, <2>4, <2>5 DEF FrameInBounds
  <2> QED
    BY <1>1, <1>2, <2>1, <2>2, <2>3, <2>6, TopChanged
<1>4. CASE url \notin list
  BY <1>1, <1>2, <1>4, UnwindKeepsBounds
<1> QED
  BY <1>3, <1>4

\* The policy's copy is the list in force just then, the one last read, or of
\* an empty config.
LEMMA PolicyKeepsBounds ==
  ASSUME DspInv, DspPolicy
  PROVE  DspInv'
<1>a. DspTypeOK
  BY DEF DspInv
<1>1. /\ dspStack # <<>> /\ Top \in Frame /\ Depth \in 1 .. Depth /\ Top.stage = "checked"
      /\ UNCHANGED <<dspRow, dspAllowed, dspEdits, dspResult>>
  BY <1>a, TopIsFrame DEF DspPolicy, At, Reading
<1>2. PICK list \in DspReads :
        /\ dspLast' = list
        /\ dspStack' = [dspStack EXCEPT ![Depth].stage = "ready", ![Depth].list = list]
  BY DEF DspPolicy, Reading
<1> DEFINE frame == [Top EXCEPT !.stage = "ready", !.list = list]
<1>3. list \in SUBSET Urls /\ list \in {dspAllowed, {}, dspLast}
  BY <1>a, DspTypesNamed DEF DspReads
<1>4. /\ frame \in Frame /\ frame.action = Top.action /\ frame.version = Top.version
      /\ frame.type = Top.type /\ frame.caller = Top.caller /\ frame.stage = "ready"
      /\ frame.list = list /\ frame.hops = Top.hops /\ frame.lists = Top.lists
  BY <1>1, <1>3 DEF Frame
<1>5. dspStack' = [dspStack EXCEPT ![Depth] = frame]
  BY <1>2 DEF Top
<1>6. FrameInBounds(Top, dspAllowed, dspLast) /\ Len(Top.hops) \in Nat
  BY <1>1, TopInBounds, LenProperties DEF Frame
<1> HIDE DEF frame
<1>7. FrameInBounds(frame, dspAllowed, dspLast)
  BY <1>1, <1>3, <1>4, <1>6 DEF FrameInBounds
<1> QED
  BY <1>1, <1>2, <1>4, <1>5, <1>7, TopChanged

\* A request to a token endpoint and the request itself leave the lists as
\* they are.
LEMMA SendKeepsBounds ==
  ASSUME DspInv, DspSend \/ \E url \in Urls : DspToken(url)
  PROVE  DspInv'
<1>a. DspTypeOK
  BY DEF DspInv
<1>1. /\ dspStack # <<>> /\ Top \in Frame /\ Depth \in 1 .. Depth /\ Top.stage = "ready"
      /\ UNCHANGED <<dspRow, dspAllowed, dspEdits, dspResult>> /\ dspLast' \in DspReads
  BY <1>a, TopIsFrame DEF DspSend, DspToken, At, Within, DspReads
<1>2. FrameInBounds(Top, dspAllowed, dspLast)
  BY <1>1, TopInBounds
<1>3. CASE DspSend
  <2> DEFINE frame == [Top EXCEPT !.stage = "sent"]
  <2>1. dspStack' = [dspStack EXCEPT ![Depth] = frame]
    BY <1>3 DEF DspSend, Top
  <2>2. /\ frame \in Frame /\ frame.action = Top.action /\ frame.version = Top.version
        /\ frame.type = Top.type /\ frame.caller = Top.caller /\ frame.stage = "sent"
        /\ frame.list = Top.list /\ frame.hops = Top.hops /\ frame.lists = Top.lists
    BY <1>1 DEF Frame
  <2> HIDE DEF frame
  <2>3. FrameInBounds(frame, dspAllowed, dspLast)
    BY <1>1, <1>2, <2>2 DEF FrameInBounds
  <2> QED
    BY <1>1, <2>1, <2>2, <2>3, TopChanged
<1>4. CASE \E url \in Urls : DspToken(url)
  <2>1. PICK url \in Urls : DspToken(url)
    BY <1>4
  <2> DEFINE frame == [Top EXCEPT !.asked = Top.asked \cup {url}]
  <2>2. dspStack' = [dspStack EXCEPT ![Depth] = frame]
    BY <2>1 DEF DspToken, Top
  <2>3. /\ frame \in Frame /\ frame.action = Top.action /\ frame.version = Top.version
        /\ frame.type = Top.type /\ frame.caller = Top.caller /\ SameHops(frame, Top)
    BY <1>1 DEF Frame, SameHops
  <2> HIDE DEF frame
  <2>4. FrameInBounds(frame, dspAllowed, dspLast)
    BY <1>2, <2>3 DEF FrameInBounds, SameHops
  <2> QED
    BY <1>1, <2>2, <2>3, <2>4, TopChanged
<1> QED
  BY <1>3, <1>4

\* A later hop is on the policy's copy of the list.
LEMMA RedirectKeepsBounds ==
  ASSUME DspInv, NEW url \in Urls, DspRedirect(url)
  PROVE  DspInv'
<1>a. DspTypeOK
  BY DEF DspInv
<1>1. dspStack # <<>> /\ Top \in Frame /\ Depth \in 1 .. Depth /\ Top.stage = "sent"
      /\ UNCHANGED <<dspRow, dspAllowed, dspEdits>> /\ dspLast' \in DspReads
  BY <1>a, TopIsFrame DEF DspRedirect, At, Within, DspReads
<1>2. CASE Len(Top.hops) < MaxRedirects /\ url \in Top.list
  <2> DEFINE longer == Append(Top.hops, url)
             frame == [Top EXCEPT !.hops = longer]
  <2>1. /\ dspStack' = [dspStack EXCEPT ![Depth].hops = Append(@, url)]
        /\ UNCHANGED <<dspRow, dspAllowed, dspEdits, dspResult>>
    BY <1>1, <1>2 DEF DspRedirect
  <2>2. Top.hops \in Seq(Urls) /\ longer \in Seq(Urls)
    BY <1>1, AppendProperties DEF Frame
  <2>3. /\ frame \in Frame /\ frame.action = Top.action /\ frame.version = Top.version
        /\ frame.type = Top.type /\ frame.caller = Top.caller /\ frame.stage = "sent"
        /\ frame.list = Top.list /\ frame.hops = longer /\ frame.lists = Top.lists
    BY <1>1, <2>2 DEF Frame
  <2>4. dspStack' = [dspStack EXCEPT ![Depth] = frame]
    BY <2>1 DEF Top
  <2>5. FrameInBounds(Top, dspAllowed, dspLast)
    BY <1>1, TopInBounds
  <2>6. /\ Len(longer) = Len(Top.hops) + 1 /\ Len(Top.hops) \in Nat
        /\ \A k \in 1 .. Len(Top.hops) : longer[k] = Top.hops[k]
        /\ longer[Len(Top.hops) + 1] = url
    BY <2>2, AppendProperties, LenProperties
  <2>7. Top.hops # <<>> /\ Len(Top.hops) # 0
    BY <1>1, <2>2, <2>5, EmptySeq DEF FrameInBounds
  <2>8. longer # <<>> /\ longer[1] = Top.hops[1]
    BY <2>2, <2>6, <2>7, EmptySeq
  <2> HIDE DEF frame, longer
  <2>9. ASSUME NEW k \in 2 .. Len(longer) PROVE longer[k] \in Top.list
    <3>1. CASE k \in 2 .. Len(Top.hops)
      <4>1. longer[k] = Top.hops[k]
        BY <2>6, <3>1
      <4> QED
        BY <2>5, <3>1, <4>1 DEF FrameInBounds
    <3>2. CASE k = Len(Top.hops) + 1
      BY <1>2, <2>6, <3>2
    <3> QED
      BY <2>6, <3>1, <3>2
  <2>10. FrameInBounds(frame, dspAllowed, dspLast)
    BY <1>1, <2>3, <2>5, <2>8, <2>9 DEF FrameInBounds
  <2> QED
    BY <1>1, <2>1, <2>3, <2>4, <2>10, TopChanged
<1>3. CASE ~(Len(Top.hops) < MaxRedirects /\ url \in Top.list)
  BY <1>1, <1>3, UnwindKeepsBounds DEF DspRedirect
<1> QED
  BY <1>2, <1>3

\* Edits of the rows do not reach the frames at work, nor do readings by others;
\* an edited list is one more that was in force in the time of each.
LEMMA EditKeepsBounds ==
  ASSUME DspInv, DspEdit \/ DspLook \/ UNCHANGED dspVars
  PROVE  DspInv'
<1>a. DspTypeOK
  BY DEF DspInv
<1>0. /\ dspStack \in Seq(Frame) /\ Depth = Len(dspStack) /\ Depth \in Nat /\ Depth <= MaxDepth
      /\ \A i \in 1 .. Depth : dspStack[i] \in Frame /\ FrameInBounds(dspStack[i], dspAllowed, dspLast)
  BY <1>a, DspTypesNamed, LenProperties, ElementOfSeq DEF Depth, DspInv
<1>1. dspResult' = dspResult /\ dspResult' \in {"none", "ok", "failed", "error"}
  BY <1>a, DspTypesNamed DEF DspEdit, DspLook, dspVars
<1>2. dspEdits' \in 0 .. MaxEdits
  BY <1>a, DspTypesNamed, DspAssumption DEF DspEdit, DspLook, dspVars
<1>3. dspAllowed' \subseteq Urls /\ dspLast' \subseteq Urls
  BY <1>a, DspTypesNamed DEF DspEdit, DspLook, dspVars
<1>4. dspRow' \in [DspActions -> [present : BOOLEAN, version : Nat]]
  <2>1. CASE \E a \in DspActions, present \in BOOLEAN :
               dspRow' = [dspRow EXCEPT ![a] = [present |-> present, version |-> @.version + 1]]
    <3>1. PICK a \in DspActions, present \in BOOLEAN :
            dspRow' = [dspRow EXCEPT ![a] = [present |-> present, version |-> @.version + 1]]
      BY <2>1
    <3>2. dspRow[a].version + 1 \in Nat
      BY <1>a, DspTypesNamed
    <3> QED
      BY <1>a, <3>1, <3>2, DspTypesNamed
  <2>2. CASE UNCHANGED dspRow
    BY <1>a, <2>2, DspTypesNamed
  <2> QED
    BY <2>1, <2>2 DEF DspEdit, DspLook, dspVars
<1> DEFINE known(i) == [dspStack[i] EXCEPT !.lists = @ \cup {dspAllowed'}]
<1>5. CASE dspStack' = dspStack /\ dspAllowed' = dspAllowed /\ dspLast' \in DspReads
  <2>0. dspStack' \in Seq(Frame) /\ Depth' = Depth
    BY <1>0, <1>5 DEF Depth
  <2>1. DspTypeOK'
    BY <1>0, <1>1, <1>2, <1>3, <1>4, <2>0 DEF DspTypeOK, Frame
  <2>2. \A i \in 1 .. Depth : FrameInBounds(dspStack[i], dspAllowed, dspLast')
    BY <1>0, <1>5, ReadingKeepsBounds
  <2> QED
    BY <1>0, <1>5, <2>1, <2>2, FramesKept
<1>6. CASE dspStack' = [i \in 1 .. Depth |-> known(i)] /\ dspLast' = dspLast
  <2>1. ASSUME NEW i \in 1 .. Depth
        PROVE  /\ known(i) \in Frame
               /\ known(i).action = dspStack[i].action /\ known(i).version = dspStack[i].version
               /\ known(i).type = dspStack[i].type /\ known(i).caller = dspStack[i].caller
               /\ FrameInBounds(known(i), dspAllowed', dspLast')
    <3>1. dspStack[i] \in Frame /\ FrameInBounds(dspStack[i], dspAllowed, dspLast)
      BY <1>0
    <3>2. /\ known(i) \in Frame
          /\ known(i).action = dspStack[i].action /\ known(i).version = dspStack[i].version
          /\ known(i).type = dspStack[i].type /\ known(i).caller = dspStack[i].caller
          /\ known(i).stage = dspStack[i].stage /\ known(i).hops = dspStack[i].hops
          /\ known(i).list = dspStack[i].list
          /\ known(i).lists = dspStack[i].lists \cup {dspAllowed'}
      BY <1>3, <3>1 DEF Frame
    <3> HIDE DEF known
    <3> QED
      BY <1>6, <3>1, <3>2 DEF FrameInBounds
  <2> HIDE DEF known
  <2>2. dspStack' \in [1 .. Depth -> Frame]
    BY <1>6, <2>1
  <2>3. dspStack' \in Seq(Frame) /\ Len(dspStack') = Depth
    BY <1>0, <2>2, SeqDef, LenProperties
  <2>a. Depth' = Depth
    BY <1>0, <2>3 DEF Depth
  <2>4. DspTypeOK'
    BY <1>0, <1>1, <1>2, <1>3, <1>4, <2>3, <2>a DEF DspTypeOK, Frame
  <2> QED
    BY <1>0, <1>6, <2>1, <2>3, <2>4, FramesKept
<1> QED
  BY <1>5, <1>6 DEF DspEdit, DspLook, DspReads, dspVars

\* The frames of a request, and every step of Dispatch on them.
THEOREM DspInvariant == DspSpec => [](DspTypeOK /\ CallsStayInBounds)
<1>1. DspInit => DspInv
  <2> SUFFICES ASSUME DspInit PROVE DspInv
    OBVIOUS
  <2>1. dspStack = <<>> /\ dspStack \in Seq(Frame) /\ Depth = 0
    BY EmptySeq DEF DspInit, Depth
  <2>2. DspTypeOK
    BY <2>1, DspTypesNamed, DspAssumption DEF DspInit
  <2> QED
    BY <2>1, <2>2 DEF DspInv, SecretsOfNearest
<1>2. DspInv /\ [DspNext]_dspVars => DspInv'
  <2> SUFFICES ASSUME DspInv, [DspNext]_dspVars
               PROVE  DspInv'
    OBVIOUS
  <2>a. DspTypeOK
    BY DEF DspInv
  <2>1. CASE \E a \in DspActions : DspEnter(a)
    BY <2>1, EnterKeepsBounds
  <2>2. CASE \/ \E url \in Urls : DspCheck(url) \/ DspToken(url) \/ DspRedirect(url)
             \/ DspPolicy \/ DspSend
    BY <2>2, CheckKeepsBounds, PolicyKeepsBounds, SendKeepsBounds, RedirectKeepsBounds
  <2>3. CASE \E i \in 1 .. MaxDepth : DspTimeout(i)
    <3>1. PICK i \in 1 .. MaxDepth : DspTimeout(i)
      BY <2>3
    <3>2. /\ i \in 1 .. Depth /\ dspLast' \in DspReads
          /\ UNCHANGED <<dspRow, dspAllowed, dspEdits>>
          /\ Unwind(i, "failed") \/ Unwind(i, "error")
      BY <3>1 DEF DspTimeout, Within, DspReads
    <3> QED
      BY <3>2, UnwindKeepsBounds
  <2>4. CASE DspRefused
    BY <2>4, RefusedKeepsBounds
  <2>5. CASE DspReturn
    <3>1. PICK outcome \in Outcomes(Top) : Unwind(Depth, outcome)
      BY <2>5 DEF DspReturn
    <3>2. outcome \in {"ok", "failed", "error"}
      BY <3>1 DEF Outcomes
    <3>3. /\ Depth \in 1 .. Depth /\ dspLast' \in DspReads
          /\ UNCHANGED <<dspRow, dspAllowed, dspEdits>>
      BY <2>a, <2>5, TopIsFrame DEF DspReturn, Within, DspReads
    <3> QED
      BY <3>1, <3>2, <3>3, UnwindKeepsBounds
  <2>6. CASE DspDropped
    <3>1. dspStack' = <<>> /\ dspResult' = "error" /\ UNCHANGED <<dspRow, dspAllowed, dspLast, dspEdits>>
      BY <2>6 DEF DspDropped, Within
    <3>2. dspStack' \in Seq(Frame) /\ Depth' = 0
      BY <3>1, EmptySeq DEF Depth
    <3>3. DspTypeOK'
      BY <2>a, <3>1, <3>2, DspTypesNamed, DspAssumption DEF DspTypeOK, Frame
    <3> QED
      BY <3>2, <3>3 DEF DspInv, SecretsOfNearest
  <2>7. CASE DspEdit \/ DspLook \/ UNCHANGED dspVars
    BY <2>7, EditKeepsBounds
  <2> QED
    BY <2>1, <2>2, <2>3, <2>4, <2>5, <2>6, <2>7 DEF DspNext
<1> QED
  BY <1>1, <1>2, DspInvBounds, PTL DEF DspSpec

\* Whatever calls what, to any depth, and whatever is edited, times out or
\* is dropped meanwhile: get-secret uses the keys of the nearest guest or
\* stored script, as its row was when it began; what a request asks for was on
\* a list of its time (in force since its frame began, or read last by then),
\* and all that it is redirected to on one such list, which an edit may make
\* another (dispatch.rs, net.rs).
THEOREM DspCallsStayInBounds == DspSpec => []CallsStayInBounds
<1> QED
  BY DspInvariant, PTL

------------------------------------------------------------------------------
(* Authorization: what is assumed of the constants, and the invariant        *)

\* A config names one place for its refresh token. With two, it is read from
\* one and written to another, and RotationKept is false.
OnePlace == \A places \in AuthSources : \E p \in Places : places = {p}
\* A response is cached before the margin is over, and before it expires.
CachedInTime == MaxDelay <= AuthSkew /\ \A lifetime \in Lifetimes : MaxDelay < lifetime

\* A token is one that was made.
TokensMade ==
  /\ authConfig.inline <= authMade /\ \A p \in {"keyring", "secret"} : authStore[p] <= authMade
  /\ \A c \in AuthCalls : authCall[c].token <= authMade /\ authCall[c].config.inline <= authMade
\* The config a call has read names the type and the place of the stored one.
ConfigsAlike ==
  /\ authConfig.places \in AuthSources
  /\ \A c \in AuthCalls : Busy(c) => /\ authCall[c].config.type = authConfig.type
                                     /\ authCall[c].config.places = authConfig.places
\* The token honoured is the one stored, or one call has it and will store it;
\* then no other has it, sends it or will read it before.
OneWriter ==
  ~authUndone =>
    /\ (\A c \in AuthCalls : authCall[c].pc # "persist") => Held(authConfig) = authValid
    /\ \A c \in AuthCalls : authCall[c].pc = "persist" =>
         /\ authCall[c].token = authValid /\ Held(authConfig) # authValid
         /\ \A d \in AuthCalls : /\ d # c => authCall[d].pc # "persist"
                                 /\ Busy(d) => Held(authCall[d].config) # authValid
                                 /\ authCall[d].pc = "post" => authCall[d].token # authValid
\* The cache ends before its token does, and so does the wait to fill it.
AnswersFresh ==
  authConfig.type = "oauth_refresh" =>
    /\ authCache.until <= authCache.expires
    /\ \A c \in AuthCalls :
         /\ authCall[c].pc # "sign"
         /\ authCall[c].pc = "handed" => authCall[c].expires > authClock
         /\ authCall[c].pc \in {"persist", "put"} =>
              /\ \E lifetime \in Lifetimes : authCall[c].expires = authCall[c].since + lifetime
              /\ authCall[c].since <= authClock /\ authClock <= authCall[c].since + MaxDelay
AuthIInv == TokensMade /\ ConfigsAlike /\ OneWriter /\ AnswersFresh

CallPcs == {"idle", "resolve", "post", "sign", "persist", "put", "handed"}
CallRec == [pc : CallPcs, config : AuthConfig, token : Nat, since : Nat, expires : Nat]

\* The same with names for the records.
LEMMA AuthTypesNamed ==
  AuthTypeOK <=> /\ authConfig \in AuthConfig /\ authStore \in [{"keyring", "secret"} -> Nat]
                 /\ authCache \in [until : Nat, expires : Nat]
                 /\ authValid \in 1 .. authMade /\ authMade \in Nat /\ authClock \in 0 .. MaxAuthClock
                 /\ authCall \in [AuthCalls -> CallRec] /\ authUndone \in BOOLEAN
BY DEF AuthTypeOK, CallRec, CallPcs

\* What is read from a place is what is written there, and it is a number.
LEMMA OneHeld ==
  ASSUME OnePlace, AuthTypeOK, NEW config \in AuthConfig, config.places \in AuthSources
  PROVE  /\ WritePlace(config) = ReadPlace(config) /\ ReadPlace(config) \in Places
         /\ Held(config) \in Nat
<1>1. PICK p \in Places : config.places = {p}
  BY DEF OnePlace
<1>2. WritePlace(config) = p /\ ReadPlace(config) = p
  BY <1>1 DEF Places, WritePlace, ReadPlace
<1>3. config.inline \in Nat
  BY DEF AuthConfig
<1>4. p # "inline" => authStore[p] \in Nat
  BY <1>1, AuthTypesNamed DEF Places
<1> QED
  BY <1>1, <1>2, <1>3, <1>4 DEF Held

\* A call idles with the config of none.
LEMMA QuietIs == Quiet \in CallRec /\ Quiet.pc = "idle" /\ Quiet.token = 0 /\ Quiet.config.inline = 0
BY DEF Quiet, CallRec, CallPcs, Config0, AuthConfig, Places

\* What a call may become without having to do with a refresh: it reads what
\* is stored, gives up what it has or goes on with it.
GoesOn(c, rec) ==
  /\ rec.token <= authMade /\ rec.config.inline <= authMade
  /\ rec.pc # "persist" /\ authCall[c].pc # "persist"
  /\ rec.pc # "idle" => \/ rec.config = authConfig
                        \/ Busy(c) /\ rec.config = authCall[c].config
  /\ rec.pc = "post" => rec.token = Held(rec.config)
  /\ authConfig.type = "oauth_refresh" =>
       /\ rec.pc # "sign"
       /\ rec.pc = "handed" => rec.expires > authClock
       /\ rec.pc \notin {"persist", "put"}

\* Such a step keeps the invariant, whatever it caches that ends in time.
LEMMA CallGoesOn ==
  ASSUME AuthTypeOK, AuthIInv, NEW c \in AuthCalls, NEW rec \in CallRec, GoesOn(c, rec),
         Keep(rec, c), authCache' \in [until : Nat, expires : Nat],
         authConfig.type = "oauth_refresh" => authCache'.until <= authCache'.expires,
         UNCHANGED <<authConfig, authStore, authValid, authMade, authClock, authUndone>>
  PROVE  AuthTypeOK' /\ AuthIInv'
<1>1. /\ authCall \in [AuthCalls -> CallRec] /\ authCall' \in [AuthCalls -> CallRec]
      /\ \A d \in AuthCalls : authCall'[d] = IF d = c THEN rec ELSE authCall[d]
  BY AuthTypesNamed DEF Keep
<1>2. AuthTypeOK'
  BY <1>1, AuthTypesNamed DEF AuthTypeOK, CallRec, CallPcs, AuthConfig
<1>3. \A config : Held(config)' = Held(config)
  BY DEF Held
<1>4. TokensMade'
  BY <1>1 DEF TokensMade, AuthIInv, GoesOn
<1>5. ConfigsAlike'
  BY <1>1 DEF ConfigsAlike, AuthIInv, GoesOn, Busy
<1>6. OneWriter'
  <2> SUFFICES ASSUME ~authUndone PROVE OneWriter'
    BY DEF OneWriter
  <2>1. /\ (\A d \in AuthCalls : authCall[d].pc # "persist") => Held(authConfig) = authValid
        /\ \A d \in AuthCalls : authCall[d].pc = "persist" =>
             /\ authCall[d].token = authValid /\ Held(authConfig) # authValid
             /\ \A e \in AuthCalls : /\ e # d => authCall[e].pc # "persist"
                                     /\ Busy(e) => Held(authCall[e].config) # authValid
                                     /\ authCall[e].pc = "post" => authCall[e].token # authValid
    BY DEF AuthIInv, OneWriter
  <2>2. (\A d \in AuthCalls : authCall'[d].pc # "persist") => Held(authConfig) = authValid
    BY <1>1, <2>1 DEF GoesOn
  <2>3. ASSUME NEW d \in AuthCalls, authCall'[d].pc = "persist"
        PROVE  /\ authCall'[d].token = authValid /\ Held(authConfig) # authValid
               /\ \A e \in AuthCalls :
                    /\ e # d => authCall'[e].pc # "persist"
                    /\ authCall'[e].pc # "idle" => Held(authCall'[e].config) # authValid
                    /\ authCall'[e].pc = "post" => authCall'[e].token # authValid
    <3>1. d # c /\ authCall'[d] = authCall[d] /\ authCall[d].pc = "persist"
      BY <1>1, <2>3 DEF GoesOn
    <3>2. Held(authConfig) # authValid /\ (Busy(c) => Held(authCall[c].config) # authValid)
      BY <2>1, <3>1
    <3>3. rec.pc # "persist" /\ (rec.pc # "idle" => Held(rec.config) # authValid)
          /\ (rec.pc = "post" => rec.token # authValid)
      BY <3>2 DEF GoesOn
    <3>4. ASSUME NEW e \in AuthCalls
          PROVE  /\ e # d => authCall'[e].pc # "persist"
                 /\ authCall'[e].pc # "idle" => Held(authCall'[e].config) # authValid
                 /\ authCall'[e].pc = "post" => authCall'[e].token # authValid
      BY <1>1, <2>1, <3>1, <3>3 DEF Busy
    <3> QED
      BY <2>1, <3>1, <3>4
  <2> QED
    BY <1>3, <2>2, <2>3 DEF OneWriter, Busy
<1>7. AnswersFresh'
  <2> SUFFICES ASSUME authConfig.type = "oauth_refresh" PROVE AnswersFresh'
    BY DEF AnswersFresh
  <2>1. ASSUME NEW d \in AuthCalls
        PROVE  /\ authCall'[d].pc # "sign"
               /\ authCall'[d].pc = "handed" => authCall'[d].expires > authClock
               /\ authCall'[d].pc \in {"persist", "put"} =>
                    /\ \E lifetime \in Lifetimes : authCall'[d].expires = authCall'[d].since + lifetime
                    /\ authCall'[d].since <= authClock /\ authClock <= authCall'[d].since + MaxDelay
    BY <1>1, <2>1 DEF GoesOn, AuthIInv, AnswersFresh
  <2> QED
    BY <2>1 DEF AnswersFresh
<1> QED
  BY <1>2, <1>4, <1>5, <1>6, <1>7 DEF AuthIInv

\* A call that ends goes on, unless it has a token to store.
LEMMA CallEnds ==
  ASSUME AuthTypeOK, AuthIInv, NEW c \in AuthCalls, authCall[c].pc # "persist", Finished(c),
         UNCHANGED <<authConfig, authStore, authCache, authValid, authMade, authClock, authUndone>>
  PROVE  AuthTypeOK' /\ AuthIInv'
<1>1. authCache' \in [until : Nat, expires : Nat] /\ authMade \in Nat
  BY AuthTypesNamed
<1>2. GoesOn(c, Quiet)
  BY <1>1, QuietIs DEF GoesOn
<1>3. authConfig.type = "oauth_refresh" => authCache'.until <= authCache'.expires
  BY DEF AuthIInv, AnswersFresh
<1> QED
  BY <1>1, <1>2, <1>3, QuietIs, CallGoesOn DEF Finished

\* The steps of a call that neither send a refresh nor store one.
LEMMA PlainStep ==
  ASSUME AuthTypeOK, AuthIInv, NEW c \in AuthCalls,
         \/ AuthBegin(c) \/ AuthCached(c) \/ AuthMiss(c) \/ AuthRefused(c) \/ AuthSign(c)
         \/ AuthUse(c)
  PROVE  AuthTypeOK' /\ AuthIInv'
<1> DEFINE same == UNCHANGED <<authConfig, authStore, authCache, authValid, authMade, authClock, authUndone>>
<1>1. /\ authConfig \in AuthConfig /\ authMade \in Nat /\ authClock \in Nat
      /\ authCache \in [until : Nat, expires : Nat] /\ authCall[c] \in CallRec
      /\ authConfig.inline <= authMade /\ authCall[c].token <= authMade
      /\ authCall[c].config.inline <= authMade
      /\ authConfig.type = "oauth_refresh" => authCache.until <= authCache.expires
  BY AuthTypesNamed DEF AuthIInv, TokensMade, AnswersFresh
<1>2. ASSUME same PROVE /\ authCache' \in [until : Nat, expires : Nat]
                        /\ authConfig.type = "oauth_refresh" => authCache'.until <= authCache'.expires
  BY <1>1, <1>2
<1>3. CASE AuthBegin(c)
  <2> DEFINE rec == [Quiet EXCEPT !.pc = "resolve", !.config = authConfig]
  <2>1. Keep(rec, c) /\ same /\ authCall[c].pc = "idle"
    BY <1>3 DEF AuthBegin, Busy
  <2>2. rec \in CallRec /\ rec.pc = "resolve" /\ rec.config = authConfig /\ rec.token = 0
    BY <1>1, QuietIs DEF CallRec, CallPcs
  <2> HIDE DEF rec
  <2>3. GoesOn(c, rec)
    BY <1>1, <2>1, <2>2 DEF GoesOn
  <2> QED
    BY <1>2, <2>1, <2>2, <2>3, CallGoesOn
<1>4. CASE AuthCached(c)
  <2> DEFINE rec == [authCall[c] EXCEPT !.pc = "handed", !.expires = authCache.expires]
  <2>1. Keep(rec, c) /\ same /\ authCall[c].pc = "resolve" /\ authCache.until > authClock
    BY <1>4 DEF AuthCached, Handed, Hit
  <2>2. /\ rec \in CallRec /\ rec.pc = "handed" /\ rec.config = authCall[c].config
        /\ rec.token = authCall[c].token /\ rec.expires = authCache.expires
    BY <1>1 DEF CallRec, CallPcs
  <2> HIDE DEF rec
  <2>3. authConfig.type = "oauth_refresh" => rec.expires > authClock
    BY <1>1, <2>1, <2>2
  <2>4. GoesOn(c, rec)
    BY <1>1, <2>1, <2>2, <2>3 DEF GoesOn, Busy
  <2> QED
    BY <1>2, <2>1, <2>2, <2>4, CallGoesOn
<1>5. CASE AuthMiss(c)
  <2> DEFINE config == authCall[c].config
  <2>1. same /\ authCall[c].pc = "resolve" /\ config.type = authConfig.type /\ Busy(c)
        /\ config \in AuthConfig
    BY <1>1, <1>5 DEF AuthMiss, Busy, AuthIInv, ConfigsAlike, CallRec
  <2>2. CASE config.type = "oauth_authorization_code"
    BY <1>5, <2>1, <2>2, CallEnds DEF AuthMiss
  <2>3. CASE config.type = "oauth_refresh"
    <3> DEFINE rec == [authCall[c] EXCEPT !.pc = "post", !.token = Held(config)]
    <3>1. Keep(rec, c)
      BY <1>5, <2>3 DEF AuthMiss
    <3>2. Held(config) \in Nat /\ Held(config) <= authMade
      <4>1. /\ config.inline \in Nat /\ config.inline <= authMade
            /\ \A p \in {"keyring", "secret"} : authStore[p] \in Nat /\ authStore[p] <= authMade
        BY <1>1, <2>1, AuthTypesNamed DEF AuthConfig, AuthIInv, TokensMade
      <4>2. ReadPlace(config) \in {"inline", "keyring", "secret"}
        BY DEF ReadPlace
      <4> QED
        BY <4>1, <4>2 DEF Held
    <3>3. /\ rec \in CallRec /\ rec.pc = "post" /\ rec.config = config /\ rec.token = Held(config)
      BY <1>1, <3>2 DEF CallRec, CallPcs
    <3> HIDE DEF rec
    <3>4. GoesOn(c, rec)
      BY <1>1, <2>1, <3>2, <3>3 DEF GoesOn
    <3> QED
      BY <1>2, <2>1, <3>1, <3>3, <3>4, CallGoesOn
  <2>4. CASE config.type = "oauth_service_account"
    <3> DEFINE rec == [authCall[c] EXCEPT !.pc = "sign"]
    <3>1. Keep(rec, c)
      BY <1>5, <2>4 DEF AuthMiss
    <3>2. /\ rec \in CallRec /\ rec.pc = "sign" /\ rec.config = config /\ rec.token = authCall[c].token
      BY <1>1 DEF CallRec, CallPcs
    <3> HIDE DEF rec
    <3>3. GoesOn(c, rec)
      BY <1>1, <2>1, <2>4, <3>2 DEF GoesOn
    <3> QED
      BY <1>2, <2>1, <3>1, <3>2, <3>3, CallGoesOn
  <2>5. CASE config.type \notin {"oauth_authorization_code", "oauth_refresh", "oauth_service_account"}
    <3> DEFINE rec == [authCall[c] EXCEPT !.pc = "put", !.since = authClock,
                                          !.expires = authClock + BearerTtl]
    <3>1. Keep(rec, c)
      BY <1>5, <2>5 DEF AuthMiss
    <3>2. authClock + BearerTtl \in Nat
      BY <1>1, AuthAssumption
    <3>3. /\ rec \in CallRec /\ rec.pc = "put" /\ rec.config = config /\ rec.token = authCall[c].token
      BY <1>1, <3>2 DEF CallRec, CallPcs
    <3> HIDE DEF rec
    <3>4. GoesOn(c, rec)
      BY <1>1, <2>1, <2>5, <3>3 DEF GoesOn
    <3> QED
      BY <1>2, <2>1, <3>1, <3>3, <3>4, CallGoesOn
  <2> QED
    BY <2>2, <2>3, <2>4, <2>5
<1>6. CASE AuthRefused(c)
  BY <1>6, CallEnds DEF AuthRefused
<1>7. CASE AuthSign(c)
  <2> DEFINE rec == [authCall[c] EXCEPT !.pc = "put", !.since = authClock,
                                        !.expires = authClock + BearerTtl]
  <2>1. Keep(rec, c) /\ same /\ authCall[c].pc = "sign"
    BY <1>7 DEF AuthSign
  <2>2. authConfig.type # "oauth_refresh"
    BY <2>1 DEF AuthIInv, AnswersFresh
  <2>3. authClock + BearerTtl \in Nat
    BY <1>1, AuthAssumption
  <2>4. /\ rec \in CallRec /\ rec.pc = "put" /\ rec.config = authCall[c].config
        /\ rec.token = authCall[c].token
    BY <1>1, <2>3 DEF CallRec, CallPcs
  <2> HIDE DEF rec
  <2>5. GoesOn(c, rec)
    BY <1>1, <2>1, <2>2, <2>4 DEF GoesOn, Busy
  <2> QED
    BY <1>2, <2>1, <2>4, <2>5, CallGoesOn
<1>8. CASE AuthUse(c)
  BY <1>8, CallEnds DEF AuthUse
<1> QED
  BY <1>3, <1>4, <1>5, <1>6, <1>7, <1>8

\* What is cached ends before the token, for it was cached in time.
LEMMA PutStep ==
  ASSUME CachedInTime, AuthTypeOK, AuthIInv, NEW c \in AuthCalls, AuthPut(c)
  PROVE  AuthTypeOK' /\ AuthIInv'
<1> DEFINE call == authCall[c]
           rec == [call EXCEPT !.pc = "handed", !.expires = call.expires]
           ttl == CacheTtl(call.expires - call.since)
<1>1. /\ call.pc = "put" /\ Keep(rec, c)
      /\ authCache' = [until |-> authClock + ttl, expires |-> call.expires]
      /\ UNCHANGED <<authConfig, authStore, authValid, authMade, authClock, authUndone>>
  BY DEF AuthPut, Handed
<1>2. /\ call \in CallRec /\ authClock \in Nat /\ authMade \in Nat
      /\ call.expires \in Nat /\ call.since \in Nat
      /\ call.token <= authMade /\ call.config.inline <= authMade
  BY AuthTypesNamed DEF AuthIInv, TokensMade, CallRec
<1>3. ttl \in Nat
  BY <1>2, AuthAssumption DEF CacheTtl
<1>4. ASSUME authConfig.type = "oauth_refresh"
      PROVE  authClock + ttl <= call.expires /\ call.expires > authClock
  <2>1. /\ \E lifetime \in Lifetimes : call.expires = call.since + lifetime
        /\ call.since <= authClock /\ authClock <= call.since + MaxDelay
    BY <1>1, <1>4 DEF AuthIInv, AnswersFresh
  <2>2. PICK lifetime \in Lifetimes : call.expires = call.since + lifetime
    BY <2>1
  <2>3. lifetime \in Nat /\ MaxDelay \in Nat /\ AuthSkew \in Nat /\ MaxDelay < lifetime
        /\ MaxDelay <= AuthSkew
    BY AuthAssumption DEF CachedInTime
  <2>4. ttl = IF lifetime > AuthSkew THEN lifetime - AuthSkew ELSE 1
    <3>1. call.expires - call.since = lifetime
      BY <1>2, <2>2, <2>3
    <3> QED
      BY <3>1 DEF CacheTtl
  <2> HIDE DEF call, ttl
  <2> QED
    BY <1>2, <2>1, <2>2, <2>3, <2>4
<1>5. /\ rec \in CallRec /\ rec.pc = "handed" /\ rec.config = call.config /\ rec.token = call.token
      /\ rec.expires = call.expires
  BY <1>2 DEF CallRec, CallPcs
<1>6. /\ authCache' \in [until : Nat, expires : Nat]
      /\ authConfig.type = "oauth_refresh" => authCache'.until <= authCache'.expires
  <2> HIDE DEF call, ttl
  <2>1. authClock + ttl \in Nat
    BY <1>2, <1>3
  <2> QED
    BY <1>1, <1>2, <1>4, <2>1
<1> HIDE DEF rec, ttl
<1>7. GoesOn(c, rec)
  BY <1>1, <1>2, <1>4, <1>5 DEF GoesOn, Busy
<1> QED
  BY <1>1, <1>5, <1>6, <1>7, CallGoesOn

\* A token that no one has yet: where the endpoint rotates to, or a login.
LEMMA NewTokenIsNew ==
  ASSUME OnePlace, AuthTypeOK, AuthIInv
  PROVE  /\ authMade + 1 \in Nat /\ authMade < authMade + 1 /\ authValid < authMade + 1
         /\ Held(authConfig) < authMade + 1
         /\ \A c \in AuthCalls : /\ authCall[c].token < authMade + 1
                                 /\ Busy(c) => Held(authCall[c].config) < authMade + 1
<1>1. /\ authMade \in Nat /\ authValid \in 1 .. authMade /\ authConfig \in AuthConfig
      /\ \A p \in {"keyring", "secret"} : authStore[p] \in Nat /\ authStore[p] <= authMade
      /\ authConfig.inline <= authMade
      /\ \A c \in AuthCalls : /\ authCall[c] \in CallRec /\ authCall[c].token <= authMade
                              /\ authCall[c].config.inline <= authMade
  BY AuthTypesNamed DEF AuthIInv, TokensMade
<1>2. ASSUME NEW config \in AuthConfig, config.inline <= authMade
      PROVE  Held(config) < authMade + 1
  <2>1. ReadPlace(config) \in {"inline", "keyring", "secret"} /\ config.inline \in Nat
    BY DEF ReadPlace, AuthConfig
  <2> QED
    BY <1>1, <1>2, <2>1 DEF Held
<1>3. \A c \in AuthCalls : authCall[c].config \in AuthConfig /\ authCall[c].token \in Nat
  BY <1>1 DEF CallRec
<1> QED
  BY <1>1, <1>2, <1>3

\* The endpoint answers, or its answer is lost.
LEMMA PostStep ==
  ASSUME OnePlace, AuthTypeOK, AuthIInv, NEW c \in AuthCalls, AuthPost(c)
  PROVE  AuthTypeOK' /\ AuthIInv'
<1> DEFINE call == authCall[c]
<1>1. PICK rotates \in BOOLEAN, answered \in BOOLEAN, lifetime \in Lifetimes :
        LET new == IF rotates THEN authMade + 1 ELSE authValid
            keep == rotates /\ call.config.persist
        IN  /\ authValid' = new /\ authMade' = IF rotates THEN new ELSE authMade
            /\ authUndone' = (authUndone \/ (rotates /\ ~(answered /\ keep)))
            /\ IF answered
               THEN Keep([call EXCEPT !.pc = IF keep THEN "persist" ELSE "put",
                            !.token = new, !.since = authClock,
                            !.expires = authClock + lifetime], c)
               ELSE Finished(c)
  BY DEF AuthPost
<1>2. /\ UNCHANGED <<authConfig, authStore, authCache, authClock>>
      /\ call.pc = "post" /\ call.token = authValid
  BY DEF AuthPost
<1> DEFINE new == IF rotates THEN authMade + 1 ELSE authValid
           keep == rotates /\ call.config.persist
           rec == IF answered THEN [call EXCEPT !.pc = IF keep THEN "persist" ELSE "put",
                            !.token = new, !.since = authClock,
                            !.expires = authClock + lifetime] ELSE Quiet
<1>3. /\ authValid' = new /\ authMade' = (IF rotates THEN new ELSE authMade)
      /\ authUndone' = (authUndone \/ (rotates /\ ~(answered /\ keep)))
      /\ authCall' = [authCall EXCEPT ![c] = rec]
  BY <1>1 DEF Keep, Finished
<1>4. /\ authMade \in Nat /\ authValid \in 1 .. authMade /\ authClock \in Nat
      /\ call \in CallRec /\ lifetime \in Nat /\ authCall \in [AuthCalls -> CallRec]
      /\ authConfig \in AuthConfig /\ authUndone \in BOOLEAN
      /\ authStore \in [{"keyring", "secret"} -> Nat]
  BY AuthTypesNamed, AuthAssumption
<1>5. /\ new \in 1 .. authMade' /\ authMade' \in Nat /\ authMade <= authMade'
      /\ new \in Nat
  BY <1>3, <1>4
<1>6. /\ rec \in CallRec
      /\ ~answered => rec = Quiet
      /\ answered => /\ rec.pc = (IF keep THEN "persist" ELSE "put") /\ rec.token = new
                     /\ rec.since = authClock /\ rec.expires = authClock + lifetime
                     /\ rec.config = call.config
  <2>1. authClock + lifetime \in Nat
    BY <1>4
  <2> HIDE DEF new, keep
  <2> QED
    BY <1>4, <1>5, <2>1, QuietIs DEF CallRec, CallPcs
<1> HIDE DEF rec
<1>7. /\ authCall' \in [AuthCalls -> CallRec]
      /\ \A d \in AuthCalls : authCall'[d] = IF d = c THEN rec ELSE authCall[d]
  BY <1>3, <1>4, <1>6
<1>8. AuthTypeOK'
  BY <1>2, <1>3, <1>4, <1>5, <1>7, AuthTypesNamed DEF AuthTypeOK, CallRec, CallPcs, AuthConfig
<1>9. \A config : Held(config)' = Held(config)
  BY <1>2 DEF Held
<1>10. TokensMade'
  <2>1. /\ authConfig.inline \in Nat /\ authConfig.inline <= authMade
        /\ \A p \in {"keyring", "secret"} : authStore[p] \in Nat /\ authStore[p] <= authMade
        /\ \A d \in AuthCalls : /\ authCall[d].token \in Nat /\ authCall[d].token <= authMade
                                /\ authCall[d].config.inline \in Nat
                                /\ authCall[d].config.inline <= authMade
    BY <1>4 DEF AuthIInv, TokensMade, AuthConfig, CallRec
  <2>2. rec.token \in 0 .. authMade' /\ rec.config.inline \in 0 .. authMade'
    <3> HIDE DEF new, keep
    <3>1. call.config.inline \in 0 .. authMade'
      BY <1>4, <1>5, <2>1
    <3>2. 0 \in 0 .. authMade' /\ new \in 0 .. authMade'
      BY <1>5
    <3> QED
      BY <1>6, <3>1, <3>2, QuietIs
  <2>3. \A n \in Nat : n <= authMade => n <= authMade'
    BY <1>4, <1>5
  <2> HIDE DEF new, keep
  <2>4. \A d \in AuthCalls : authCall'[d].token <= authMade' /\ authCall'[d].config.inline <= authMade'
    BY <1>7, <2>1, <2>2, <2>3
  <2> QED
    BY <1>2, <2>1, <2>3, <2>4 DEF TokensMade
<1>11. ConfigsAlike'
  <2>1. Busy(c) /\ (rec.pc = "idle" \/ rec.config = call.config)
    BY <1>2, <1>6, QuietIs DEF Busy
  <2> QED
    BY <1>2, <1>7, <2>1 DEF AuthIInv, ConfigsAlike, Busy
<1>12. OneWriter'
  <2> SUFFICES ASSUME ~authUndone' PROVE OneWriter'
    BY DEF OneWriter
  <2>1. ~authUndone /\ (rotates => answered /\ keep)
    BY <1>3
  <2>2. /\ \A d \in AuthCalls : authCall[d].pc # "persist"
        /\ Held(authConfig) = authValid
    BY <1>2, <2>1 DEF AuthIInv, OneWriter
  <2>3. CASE ~rotates
    <3>1. rec.pc # "persist" /\ authValid' = authValid
      BY <1>3, <1>6, <2>3, QuietIs
    <3> QED
      BY <1>2, <1>7, <1>9, <2>2, <3>1 DEF OneWriter
  <2>4. CASE rotates
    <3>1. /\ authValid' = authMade + 1 /\ rec.pc = "persist" /\ rec.token = authMade + 1
          /\ rec.config = call.config /\ Busy(c)
      BY <1>2, <1>3, <1>6, <2>1, <2>4 DEF Busy
    <3>2. /\ authMade + 1 # Held(authConfig)
          /\ \A d \in AuthCalls : /\ authCall[d].token # authMade + 1
                                  /\ Busy(d) => Held(authCall[d].config) # authMade + 1
      <4>1. /\ Held(authConfig) \in Nat
            /\ \A d \in AuthCalls : authCall[d].token \in Nat
                                    /\ (Busy(d) => Held(authCall[d].config) \in Nat)
        BY <1>4, OneHeld DEF AuthIInv, ConfigsAlike, CallRec
      <4> QED
        BY <1>4, <4>1, NewTokenIsNew
    <3> HIDE DEF new, keep
    <3>3. \A d \in AuthCalls : /\ d # c => authCall'[d].pc # "persist"
                               /\ authCall'[d].pc = "post" => authCall'[d].token # authMade + 1
      BY <1>7, <2>2, <3>1, <3>2
    <3>4. \A d \in AuthCalls : authCall'[d].pc = "persist" => d = c /\ authCall'[d].token = authMade + 1
      BY <1>7, <2>2, <3>1
    <3>5. authCall'[c].pc = "persist"
      BY <1>7, <3>1
    <3>6. Held(authConfig)' = Held(authConfig)
      BY <1>2, <1>9
    <3>7. ~(\A d \in AuthCalls : authCall'[d].pc # "persist")
      BY <3>5
    <3>8. \A d \in AuthCalls : authCall'[d].pc = "persist" =>
            /\ authCall'[d].token = authValid' /\ Held(authConfig)' # authValid'
            /\ \A e \in AuthCalls : /\ e # d => authCall'[e].pc # "persist"
                                    /\ Busy(e)' => Held(authCall[e].config)' # authValid'
                                    /\ authCall'[e].pc = "post" => authCall'[e].token # authValid'
      <4>1. ASSUME NEW d \in AuthCalls, authCall'[d].pc = "persist"
            PROVE  d = c /\ authCall'[d].token = authValid'
        BY <3>1, <3>4, <4>1
      <4>2. Held(authConfig)' # authValid'
        BY <3>1, <3>2, <3>6
      <4>3. ASSUME NEW e \in AuthCalls
            PROVE  /\ e # c => authCall'[e].pc # "persist"
                   /\ Busy(e)' => Held(authCall[e].config)' # authValid'
                   /\ authCall'[e].pc = "post" => authCall'[e].token # authValid'
        <5>1. /\ e # c => authCall'[e].pc # "persist"
              /\ authCall'[e].pc = "post" => authCall'[e].token # authValid'
          BY <3>1, <3>3
        <5>2. ASSUME Busy(e)' PROVE Held(authCall[e].config)' # authValid'
          <6>1. PICK d \in AuthCalls : Busy(d) /\ authCall'[e].config = authCall[d].config
            <7>1. CASE e = c
              BY <1>7, <3>1, <7>1
            <7>2. CASE e # c
              BY <1>7, <5>2, <7>2 DEF Busy
            <7> QED
              BY <7>1, <7>2
          <6>2. Held(authCall[d].config) # authMade + 1
            BY <3>2, <6>1
          <6>3. Held(authCall[e].config)' = Held(authCall[d].config)
            BY <1>2, <6>1 DEF Held
          <6> QED
            BY <3>1, <6>2, <6>3
        <5> QED
          BY <5>1, <5>2
      <4> QED
        BY <4>1, <4>2, <4>3
    <3> QED
      BY <3>7, <3>8 DEF OneWriter
  <2> QED
    BY <2>3, <2>4
<1>13. AnswersFresh'
  <2> SUFFICES ASSUME authConfig.type = "oauth_refresh" PROVE AnswersFresh'
    BY <1>2 DEF AnswersFresh
  <2>1. /\ rec.pc \in {"idle", "persist", "put"}
        /\ rec.pc \in {"persist", "put"} => /\ rec.expires = rec.since + lifetime
                                            /\ rec.since = authClock
    BY <1>6, QuietIs
  <2>2. authClock <= authClock + MaxDelay /\ authClock <= authClock
    BY <1>4, AuthAssumption
  <2>3. ASSUME NEW d \in AuthCalls
        PROVE  /\ authCall'[d].pc # "sign"
               /\ authCall'[d].pc = "handed" => authCall'[d].expires > authClock
               /\ authCall'[d].pc \in {"persist", "put"} =>
                    /\ \E l \in Lifetimes : authCall'[d].expires = authCall'[d].since + l
                    /\ authCall'[d].since <= authClock /\ authClock <= authCall'[d].since + MaxDelay
    <3>1. CASE d = c
      BY <1>7, <2>1, <2>2, <3>1
    <3>2. CASE d # c
      BY <1>7, <3>2 DEF AuthIInv, AnswersFresh
    <3> QED
      BY <3>1, <3>2
  <2> QED
    BY <1>2, <2>3 DEF AuthIInv, AnswersFresh
<1> QED
  BY <1>8, <1>10, <1>11, <1>12, <1>13 DEF AuthIInv

\* A new token is stored, where the next refresh reads it; or it is not.
LEMMA PersistStep ==
  ASSUME OnePlace, AuthTypeOK, AuthIInv, NEW c \in AuthCalls, AuthPersist(c)
  PROVE  AuthTypeOK' /\ AuthIInv'
<1> DEFINE call == authCall[c]
           place == WritePlace(call.config)
           rec == [call EXCEPT !.pc = "put"]
<1>1. /\ call.pc = "persist" /\ authCall' = [authCall EXCEPT ![c] = rec]
      /\ UNCHANGED <<authCache, authValid, authMade, authClock>>
      /\ \/ /\ place = "inline"
            /\ authConfig' = [call.config EXCEPT !.inline = call.token]
            /\ UNCHANGED <<authStore, authUndone>>
         \/ /\ place # "inline"
            /\ authStore' = [authStore EXCEPT ![place] = call.token]
            /\ UNCHANGED <<authConfig, authUndone>>
         \/ authUndone' = TRUE /\ UNCHANGED <<authConfig, authStore>>
  BY DEF AuthPersist, Keep
<1>2. /\ call \in CallRec /\ call.config \in AuthConfig /\ call.token \in Nat
      /\ authConfig \in AuthConfig /\ authCall \in [AuthCalls -> CallRec]
      /\ authStore \in [{"keyring", "secret"} -> Nat] /\ authMade \in Nat
      /\ call.token <= authMade /\ call.config.inline <= authMade /\ authConfig.inline <= authMade
      /\ \A p \in {"keyring", "secret"} : authStore[p] <= authMade
      /\ authUndone \in BOOLEAN
  BY AuthTypesNamed DEF CallRec, AuthIInv, TokensMade
<1>3. /\ call.config.type = authConfig.type /\ call.config.places = authConfig.places
      /\ authConfig.places \in AuthSources
  BY <1>1 DEF AuthIInv, ConfigsAlike, Busy
<1>4. /\ place = ReadPlace(authConfig) /\ place \in {"inline", "keyring", "secret"}
      /\ place = WritePlace(authConfig)
  BY <1>2, <1>3, OneHeld DEF ReadPlace, WritePlace, Places
<1>5. /\ rec \in CallRec /\ rec.pc = "put" /\ rec.config = call.config /\ rec.token = call.token
      /\ rec.since = call.since /\ rec.expires = call.expires
  BY <1>2 DEF CallRec, CallPcs
<1> HIDE DEF place, rec
<1>6. /\ authCall' \in [AuthCalls -> CallRec]
      /\ \A d \in AuthCalls : authCall'[d] = IF d = c THEN rec ELSE authCall[d]
  BY <1>1, <1>2, <1>5
<1>7. /\ authConfig' \in AuthConfig /\ authConfig'.type = authConfig.type
      /\ authConfig'.places = authConfig.places /\ authConfig'.inline <= authMade
  BY <1>1, <1>2, <1>3 DEF AuthConfig
<1>8. /\ authStore' \in [{"keyring", "secret"} -> Nat]
      /\ \A p \in {"keyring", "secret"} : authStore'[p] <= authMade
  BY <1>1, <1>2, <1>4
<1>9. authUndone' \in BOOLEAN /\ (authUndone => authUndone')
  BY <1>1, <1>2
<1>10. AuthTypeOK'
  BY <1>1, <1>6, <1>7, <1>8, <1>9, AuthTypesNamed DEF AuthTypeOK, CallRec, CallPcs, AuthConfig
<1>11. TokensMade'
  <2>1. \A d \in AuthCalls : authCall'[d].token <= authMade /\ authCall'[d].config.inline <= authMade
    BY <1>2, <1>5, <1>6 DEF AuthIInv, TokensMade
  <2> QED
    BY <1>1, <1>7, <1>8, <2>1 DEF TokensMade
<1>12. ConfigsAlike'
  BY <1>3, <1>5, <1>6, <1>7 DEF AuthIInv, ConfigsAlike, Busy
<1>13. OneWriter'
  <2> SUFFICES ASSUME ~authUndone' PROVE OneWriter'
    BY DEF OneWriter
  <2>1. /\ call.token = authValid
        /\ \A d \in AuthCalls : d # c => authCall[d].pc # "persist"
    BY <1>1, <1>9 DEF AuthIInv, OneWriter
  <2>2. \A d \in AuthCalls : authCall'[d].pc # "persist"
    BY <1>5, <1>6, <2>1
  <2>3. Held(authConfig)' = authValid'
    <3>1. ReadPlace(authConfig)' = place
      BY <1>4, <1>7 DEF ReadPlace
    <3>2. CASE place = "inline"
      <4>1. authConfig' = [call.config EXCEPT !.inline = call.token]
        BY <1>1, <3>2
      <4>2. authConfig'.inline = call.token
        BY <1>2, <4>1 DEF AuthConfig
      <4> QED
        BY <1>1, <2>1, <3>1, <3>2, <4>2 DEF Held
    <3>3. CASE place # "inline"
      <4>1. authStore' = [authStore EXCEPT ![place] = call.token]
        BY <1>1, <3>3
      <4>2. authStore'[place] = call.token
        BY <1>2, <1>4, <3>3, <4>1
      <4> QED
        BY <1>1, <2>1, <3>1, <3>3, <4>2 DEF Held
    <3> QED
      BY <3>2, <3>3
  <2> QED
    BY <2>2, <2>3 DEF OneWriter
<1>14. AnswersFresh'
  <2> SUFFICES ASSUME authConfig.type = "oauth_refresh" PROVE AnswersFresh'
    BY <1>7 DEF AnswersFresh
  <2>1. ASSUME NEW d \in AuthCalls
        PROVE  /\ authCall'[d].pc # "sign"
               /\ authCall'[d].pc = "handed" => authCall'[d].expires > authClock
               /\ authCall'[d].pc \in {"persist", "put"} =>
                    /\ \E l \in Lifetimes : authCall'[d].expires = authCall'[d].since + l
                    /\ authCall'[d].since <= authClock /\ authClock <= authCall'[d].since + MaxDelay
    BY <1>1, <1>5, <1>6 DEF AuthIInv, AnswersFresh
  <2> QED
    BY <1>1, <2>1 DEF AuthIInv, AnswersFresh
<1> QED
  BY <1>10, <1>11, <1>12, <1>13, <1>14 DEF AuthIInv

\* A login while no call is at work starts anew; under one it is a case of
\* its own (authUndone).
LEMMA LoginStep ==
  ASSUME OnePlace, AuthTypeOK, AuthIInv, AuthLogin
  PROVE  AuthTypeOK' /\ AuthIInv'
<1> DEFINE place == ReadPlace(authConfig)
           new == authMade + 1
<1>1. /\ authMade' = new /\ authValid' = new
      /\ authUndone' = \E c \in AuthCalls : Busy(c)
      /\ UNCHANGED <<authCache, authClock, authCall>>
      /\ IF place = "inline"
         THEN authConfig' = [authConfig EXCEPT !.inline = new] /\ UNCHANGED authStore
         ELSE authStore' = [authStore EXCEPT ![place] = new] /\ UNCHANGED authConfig
  BY DEF AuthLogin
<1>2. /\ authConfig \in AuthConfig /\ authCall \in [AuthCalls -> CallRec]
      /\ authStore \in [{"keyring", "secret"} -> Nat] /\ authMade \in Nat
      /\ authConfig.inline \in Nat /\ authConfig.inline <= authMade
      /\ \A p \in {"keyring", "secret"} : authStore[p] \in Nat /\ authStore[p] <= authMade
      /\ \A c \in AuthCalls : /\ authCall[c].token \in Nat /\ authCall[c].token <= authMade
                              /\ authCall[c].config.inline \in Nat
                              /\ authCall[c].config.inline <= authMade
  BY AuthTypesNamed DEF AuthConfig, CallRec, AuthIInv, TokensMade
<1>3. new \in Nat /\ new \in 1 .. new /\ \A n \in Nat : n <= authMade => n <= new
  BY <1>2
<1>4. place \in {"inline", "keyring", "secret"}
  BY DEF ReadPlace
<1> HIDE DEF place, new
<1>5. /\ authConfig' \in AuthConfig /\ authConfig'.type = authConfig.type
      /\ authConfig'.places = authConfig.places /\ authConfig'.inline <= new
      /\ place = "inline" => authConfig'.inline = new
  BY <1>1, <1>2, <1>3 DEF AuthConfig
<1>6. /\ authStore' \in [{"keyring", "secret"} -> Nat]
      /\ \A p \in {"keyring", "secret"} : authStore'[p] <= new
      /\ place # "inline" => authStore'[place] = new
  BY <1>1, <1>2, <1>3, <1>4
<1>7. AuthTypeOK'
  BY <1>1, <1>3, <1>5, <1>6, AuthTypesNamed DEF AuthTypeOK, CallRec, CallPcs, AuthConfig
<1>8. TokensMade'
  BY <1>1, <1>2, <1>3, <1>5, <1>6 DEF TokensMade
<1>9. ConfigsAlike'
  BY <1>1, <1>5 DEF AuthIInv, ConfigsAlike, Busy
<1>10. OneWriter'
  <2> SUFFICES ASSUME ~authUndone' PROVE OneWriter'
    BY DEF OneWriter
  <2>1. \A c \in AuthCalls : authCall'[c].pc # "persist"
    BY <1>1 DEF Busy
  <2>2. ReadPlace(authConfig)' = place
    BY <1>5 DEF ReadPlace, place
  <2>3. Held(authConfig)' = authValid'
    BY <1>1, <1>5, <1>6, <2>2 DEF Held
  <2> QED
    BY <2>1, <2>3 DEF OneWriter
<1>11. AnswersFresh'
  BY <1>1, <1>5 DEF AuthIInv, AnswersFresh
<1> QED
  BY <1>7, <1>8, <1>9, <1>10, <1>11 DEF AuthIInv

\* Time passes while no token is in use, and not past what a response waits.
LEMMA TickStep ==
  ASSUME AuthTypeOK, AuthIInv, AuthTick
  PROVE  AuthTypeOK' /\ AuthIInv'
<1>1. /\ authClock' = authClock + 1 /\ authClock < MaxAuthClock
      /\ UNCHANGED <<authConfig, authStore, authCache, authValid, authMade, authCall, authUndone>>
      /\ \A c \in AuthCalls : /\ authCall[c].pc # "handed"
                              /\ authCall[c].pc \in {"persist", "put"}
                                   => authClock < authCall[c].since + MaxDelay
  BY DEF AuthTick
<1>2. authClock \in Nat /\ MaxAuthClock \in Nat /\ MaxDelay \in Nat
      /\ \A c \in AuthCalls : authCall[c].since \in Nat
  BY AuthTypesNamed, AuthAssumption DEF CallRec
<1>3. authClock' \in 0 .. MaxAuthClock
  BY <1>1, <1>2
<1>4. AuthTypeOK'
  BY <1>1, <1>3, AuthTypesNamed DEF AuthTypeOK, CallRec, CallPcs, AuthConfig
<1>5. TokensMade' /\ ConfigsAlike' /\ OneWriter'
  BY <1>1 DEF AuthIInv, TokensMade, ConfigsAlike, OneWriter, Busy, Held
<1>6. AnswersFresh'
  <2> SUFFICES ASSUME authConfig.type = "oauth_refresh" PROVE AnswersFresh'
    BY <1>1 DEF AnswersFresh
  <2>1. ASSUME NEW c \in AuthCalls, authCall[c].pc \in {"persist", "put"}
        PROVE  /\ \E lifetime \in Lifetimes : authCall[c].expires = authCall[c].since + lifetime
               /\ authCall[c].since <= authClock' /\ authClock' <= authCall[c].since + MaxDelay
    <3>1. /\ \E lifetime \in Lifetimes : authCall[c].expires = authCall[c].since + lifetime
          /\ authCall[c].since <= authClock /\ authClock < authCall[c].since + MaxDelay
      BY <1>1, <2>1 DEF AuthIInv, AnswersFresh
    <3> QED
      BY <1>1, <1>2, <3>1
  <2> QED
    BY <1>1, <2>1 DEF AuthIInv, AnswersFresh
<1> QED
  BY <1>4, <1>5, <1>6 DEF AuthIInv

\* Whatever places a config names and however long an answer takes, what is
\* held, sent, stored and cached is a token's number or a time.
THEOREM AuthKeepsTypes == AuthSpec => []AuthTypeOK
<1>1. AuthInit => AuthTypeOK
  <2> SUFFICES ASSUME AuthInit PROVE AuthTypeOK
    OBVIOUS
  <2>1. PICK type \in AuthTypes, places \in AuthSources, persist \in Persists :
          authConfig = Config0(type, places, persist)
    BY DEF AuthInit
  <2>2. authConfig \in AuthConfig
    BY <2>1, AuthAssumption DEF Config0, AuthConfig
  <2>3. authStore \in [{"keyring", "secret"} -> Nat]
    BY DEF AuthInit, Places
  <2>4. /\ authCall \in [AuthCalls -> CallRec] /\ authCache \in [until : Nat, expires : Nat]
        /\ authValid \in 1 .. authMade /\ authMade \in Nat /\ authClock \in 0 .. MaxAuthClock
        /\ authUndone \in BOOLEAN
    <3>1. authCall \in [AuthCalls -> CallRec] /\ authCache \in [until : Nat, expires : Nat]
      BY QuietIs DEF AuthInit, NoToken
    <3>2. /\ authValid \in 1 .. authMade /\ authMade \in Nat /\ authClock \in 0 .. MaxAuthClock
          /\ authUndone \in BOOLEAN
      <4>1. authValid = 1 /\ authMade = 1 /\ authClock = 0 /\ authUndone = FALSE
        BY DEF AuthInit
      <4>2. authUndone \in BOOLEAN
        BY <4>1
      <4>3. authValid \in 1 .. authMade /\ authMade \in Nat /\ authClock \in 0 .. MaxAuthClock
        BY <4>1, AuthAssumption
      <4> QED
        BY <4>2, <4>3
    <3> QED
      BY <3>1, <3>2
  <2> QED
    BY <2>2, <2>3, <2>4, AuthTypesNamed
<1>2. ASSUME AuthTypeOK, [AuthNext]_authVars
      PROVE  AuthTypeOK'
  <2>1. /\ authConfig \in AuthConfig /\ authStore \in [{"keyring", "secret"} -> Nat]
        /\ authCache \in [until : Nat, expires : Nat]
        /\ authValid \in 1 .. authMade /\ authMade \in Nat /\ authClock \in 0 .. MaxAuthClock
        /\ authCall \in [AuthCalls -> CallRec] /\ authUndone \in BOOLEAN
        /\ BearerTtl \in Nat /\ AuthSkew \in Nat /\ MaxAuthClock \in Nat /\ Lifetimes \subseteq Nat
    BY <1>2, AuthTypesNamed, AuthAssumption
  <2>2. ASSUME NEW config \in AuthConfig
        PROVE  /\ Held(config) \in Nat
               /\ ReadPlace(config) \in Places /\ WritePlace(config) \in Places
    <3>1. ReadPlace(config) \in Places /\ WritePlace(config) \in Places
      BY DEF ReadPlace, WritePlace, Places
    <3>2. config.inline \in Nat
      BY DEF AuthConfig
    <3> QED
      BY <2>1, <3>1, <3>2 DEF Held, Places
  <2>3. ASSUME NEW c \in AuthCalls, NEW rec \in CallRec, Keep(rec, c)
        PROVE  authCall' \in [AuthCalls -> CallRec]
    BY <2>1, <2>3 DEF Keep
  <2>4. ASSUME NEW c \in AuthCalls, NEW pc \in CallPcs, NEW token \in Nat, NEW since \in Nat, NEW expires \in Nat
        PROVE  /\ [authCall[c] EXCEPT !.pc = pc] \in CallRec
               /\ [authCall[c] EXCEPT !.pc = pc, !.expires = expires] \in CallRec
               /\ [authCall[c] EXCEPT !.pc = pc, !.token = token] \in CallRec
               /\ [authCall[c] EXCEPT !.pc = pc, !.since = since, !.expires = expires] \in CallRec
               /\ [authCall[c] EXCEPT !.pc = pc, !.token = token, !.since = since, !.expires = expires] \in CallRec
    BY <2>1 DEF CallRec
  <2>5. [Quiet EXCEPT !.pc = "resolve", !.config = authConfig] \in CallRec
    BY <2>1, QuietIs DEF CallRec, CallPcs
  <2>6. ASSUME NEW c \in AuthCalls
         PROVE  /\ authCall[c].config \in AuthConfig /\ authCall[c].token \in Nat
                /\ authCall[c].since \in Nat /\ authCall[c].expires \in Nat
    BY <2>1 DEF CallRec
  <2>7. ASSUME AuthLogin
        PROVE  AuthTypeOK'
    <3>1. authMade' \in Nat /\ authValid' \in 1 .. authMade' /\ authUndone' \in BOOLEAN
          /\ UNCHANGED <<authCache, authClock, authCall>>
      BY <2>1, <2>7 DEF AuthLogin
    <3>2. authConfig' \in AuthConfig /\ authStore' \in [{"keyring", "secret"} -> Nat]
      <4>1. CASE ReadPlace(authConfig) = "inline"
        BY <2>1, <2>7, <3>1, <4>1 DEF AuthLogin, AuthConfig
      <4>2. CASE ReadPlace(authConfig) # "inline"
        BY <2>1, <2>7, <3>1, <4>2 DEF AuthLogin
      <4> QED
        BY <4>1, <4>2
    <3> QED
      BY <2>1, <3>1, <3>2 DEF AuthTypeOK, CallRec, CallPcs, AuthConfig
  <2>8. ASSUME AuthTick
        PROVE  AuthTypeOK'
    <3>1. authClock' \in 0 .. MaxAuthClock
      BY <2>1, <2>8 DEF AuthTick
    <3> QED
      BY <2>1, <2>8, <3>1 DEF AuthTick, AuthTypeOK, CallRec, CallPcs, AuthConfig
  <2>9. ASSUME NEW c \in AuthCalls,
               AuthBegin(c) \/ AuthCached(c) \/ AuthMiss(c) \/ AuthRefused(c) \/ AuthSign(c) \/ AuthUse(c)
        PROVE  AuthTypeOK'
    <3>1. UNCHANGED <<authConfig, authStore, authCache, authValid, authMade, authClock, authUndone>>
      BY <2>9 DEF AuthBegin, AuthCached, AuthMiss, AuthRefused, AuthSign, AuthUse
    <3>2. \E rec \in CallRec : Keep(rec, c)
      <4>1. CASE AuthBegin(c)
        BY <2>5, <4>1 DEF AuthBegin
      <4>2. CASE AuthCached(c)
        <5>1. authCache.expires \in Nat /\ "handed" \in CallPcs
          BY <2>1 DEF CallPcs
        <5> QED
          BY <2>4, <4>2, <5>1 DEF AuthCached, Handed
      <4>3. CASE AuthMiss(c)
        <5> DEFINE config == authCall[c].config
        <5>1. \/ Finished(c)
              \/ Keep([authCall[c] EXCEPT !.pc = "post", !.token = Held(config)], c)
              \/ Keep([authCall[c] EXCEPT !.pc = "sign"], c)
              \/ Keep([authCall[c] EXCEPT !.pc = "put", !.since = authClock,
                                          !.expires = authClock + BearerTtl], c)
          BY <4>3 DEF AuthMiss
        <5>2. Held(config) \in Nat /\ authClock \in Nat /\ authClock + BearerTtl \in Nat
              /\ {"post", "sign", "put"} \subseteq CallPcs
          BY <2>1, <2>2, <2>6 DEF CallPcs
        <5> QED
          BY <2>4, <5>1, <5>2, QuietIs DEF Finished
      <4>4. CASE AuthRefused(c) \/ AuthUse(c)
        BY <4>4, QuietIs DEF AuthRefused, AuthUse, Finished
      <4>5. CASE AuthSign(c)
        <5>1. authClock \in Nat /\ authClock + BearerTtl \in Nat /\ "put" \in CallPcs
          BY <2>1 DEF CallPcs
        <5> QED
          BY <2>4, <4>5, <5>1 DEF AuthSign
      <4> QED
        BY <2>9, <4>1, <4>2, <4>3, <4>4, <4>5
    <3> QED
      BY <2>1, <2>3, <3>1, <3>2 DEF AuthTypeOK, CallRec, CallPcs, AuthConfig
  <2>10. ASSUME NEW c \in AuthCalls, AuthPost(c)
        PROVE  AuthTypeOK'
    <3>1. PICK rotates \in BOOLEAN, answered \in BOOLEAN, lifetime \in Lifetimes :
            LET new == IF rotates THEN authMade + 1 ELSE authValid
                keep == rotates /\ authCall[c].config.persist
            IN  /\ authValid' = new /\ authMade' = IF rotates THEN new ELSE authMade
                /\ authUndone' = (authUndone \/ (rotates /\ ~(answered /\ keep)))
                /\ IF answered
                   THEN Keep([authCall[c] EXCEPT !.pc = IF keep THEN "persist" ELSE "put",
                                !.token = new, !.since = authClock,
                                !.expires = authClock + lifetime], c)
                   ELSE Finished(c)
      BY <2>10 DEF AuthPost
    <3> DEFINE new == IF rotates THEN authMade + 1 ELSE authValid
               pc == IF rotates /\ authCall[c].config.persist THEN "persist" ELSE "put"
    <3>2. /\ new \in Nat /\ new \in 1 .. authMade' /\ authMade' \in Nat
          /\ authClock \in Nat /\ authClock + lifetime \in Nat /\ pc \in CallPcs
      BY <2>1, <3>1 DEF CallPcs
    <3>3. authUndone' \in BOOLEAN /\ authValid' = new
          /\ UNCHANGED <<authConfig, authStore, authCache, authClock>>
      BY <2>1, <2>10, <3>1 DEF AuthPost
    <3>4. Finished(c) \/ Keep([authCall[c] EXCEPT !.pc = pc, !.token = new, !.since = authClock,
                                                  !.expires = authClock + lifetime], c)
      BY <3>1
    <3> HIDE DEF new, pc
    <3>5. authCall' \in [AuthCalls -> CallRec]
      BY <2>3, <2>4, <3>2, <3>4, QuietIs DEF Finished
    <3> QED
      BY <2>1, <3>2, <3>3, <3>5 DEF AuthTypeOK, CallRec, CallPcs, AuthConfig
  <2>11. ASSUME NEW c \in AuthCalls, AuthPersist(c)
        PROVE  AuthTypeOK'
    <3>1. UNCHANGED <<authCache, authValid, authMade, authClock>> /\ authUndone' \in BOOLEAN
          /\ Keep([authCall[c] EXCEPT !.pc = "put"], c)
      BY <2>1, <2>11 DEF AuthPersist
    <3>2. authCall' \in [AuthCalls -> CallRec]
      <4>1. "put" \in CallPcs
        BY DEF CallPcs
      <4>2. [authCall[c] EXCEPT !.pc = "put"] \in CallRec
        BY <2>1, <4>1 DEF CallRec
      <4> QED
        BY <2>3, <3>1, <4>2
    <3>3. authConfig' \in AuthConfig /\ authStore' \in [{"keyring", "secret"} -> Nat]
      <4>1. WritePlace(authCall[c].config) \in Places /\ authCall[c].token \in Nat
            /\ authCall[c].config \in AuthConfig
        BY <2>2, <2>6
      <4>2. [authCall[c].config EXCEPT !.inline = authCall[c].token] \in AuthConfig
        BY <4>1 DEF AuthConfig
      <4> QED
        BY <2>1, <2>11, <4>1, <4>2 DEF AuthPersist
    <3> QED
      BY <2>1, <3>1, <3>2, <3>3 DEF AuthTypeOK, CallRec, CallPcs, AuthConfig
  <2>12. ASSUME NEW c \in AuthCalls, AuthPut(c)
         PROVE  AuthTypeOK'
    <3>1. authCall[c].since \in Nat /\ authCall[c].expires \in Nat /\ "handed" \in CallPcs
      BY <2>6 DEF CallPcs
    <3>2. authCall' \in [AuthCalls -> CallRec]
      BY <2>3, <2>4, <2>12, <3>1 DEF AuthPut, Handed
    <3>3. authClock + CacheTtl(authCall[c].expires - authCall[c].since) \in Nat
      BY <2>1, <3>1 DEF CacheTtl
    <3>4. authCache' \in [until : Nat, expires : Nat]
          /\ UNCHANGED <<authConfig, authStore, authValid, authMade, authClock, authUndone>>
      BY <2>12, <3>1, <3>3 DEF AuthPut
    <3> QED
      BY <2>1, <3>2, <3>4 DEF AuthTypeOK, CallRec, CallPcs, AuthConfig
  <2>13. CASE UNCHANGED authVars
    BY <2>1, <2>13 DEF authVars, AuthTypeOK, CallRec, CallPcs, AuthConfig
  <2> QED
    BY <1>2, <2>7, <2>8, <2>9, <2>10, <2>11, <2>12, <2>13 DEF AuthNext
<1> QED
  BY <1>1, <1>2, PTL DEF AuthSpec

\* What overlapping calls know of the token that is honoured.
THEOREM AuthInvariant ==
  ASSUME OnePlace, CachedInTime
  PROVE  AuthSpec => [](AuthTypeOK /\ AuthIInv)
<1>1. AuthInit => AuthTypeOK /\ AuthIInv
  <2> SUFFICES ASSUME AuthInit PROVE AuthTypeOK /\ AuthIInv
    OBVIOUS
  <2>1. PICK type \in AuthTypes, places \in AuthSources, persist \in Persists :
          authConfig = Config0(type, places, persist)
    BY DEF AuthInit
  <2>2. /\ authConfig \in AuthConfig /\ authConfig.places = places
        /\ authConfig.inline = IF "inline" \in places THEN 1 ELSE 0
    BY <2>1, AuthAssumption DEF Config0, AuthConfig
  <2>3. /\ authStore \in [{"keyring", "secret"} -> Nat]
        /\ \A p \in {"keyring", "secret"} : authStore[p] = IF p \in places THEN 1 ELSE 0
    BY <2>2 DEF AuthInit, Places
  <2>4. /\ authCache = NoToken /\ authValid = 1 /\ authMade = 1 /\ authClock = 0
        /\ authCall = [c \in AuthCalls |-> Quiet] /\ authUndone = FALSE
    BY DEF AuthInit
  <2>5. AuthTypeOK
    <3>1. authCall \in [AuthCalls -> CallRec] /\ authCache \in [until : Nat, expires : Nat]
      BY <2>4, QuietIs DEF NoToken
    <3>2. authValid \in 1 .. authMade /\ authMade \in Nat /\ authClock \in 0 .. MaxAuthClock
      BY <2>4, AuthAssumption
    <3>3. authUndone \in BOOLEAN
      BY <2>4
    <3> QED
      BY <2>2, <2>3, <3>1, <3>2, <3>3, AuthTypesNamed
  <2>6. TokensMade
    BY <2>2, <2>3, <2>4, QuietIs DEF TokensMade
  <2>7. ConfigsAlike
    BY <2>2, <2>4, QuietIs DEF ConfigsAlike, Busy
  <2>8. Held(authConfig) = 1
    <3>1. PICK p \in Places : places = {p}
      BY DEF OnePlace
    <3> QED
      BY <2>2, <2>3, <3>1 DEF Held, ReadPlace, Places
  <2>9. OneWriter
    BY <2>4, <2>8, QuietIs DEF OneWriter
  <2>10. AnswersFresh
    BY <2>4, QuietIs DEF AnswersFresh, NoToken
  <2> QED
    BY <2>5, <2>6, <2>7, <2>9, <2>10 DEF AuthIInv
<1>2. AuthTypeOK /\ AuthIInv /\ [AuthNext]_authVars => (AuthTypeOK /\ AuthIInv)'
  <2> SUFFICES ASSUME AuthTypeOK, AuthIInv, [AuthNext]_authVars
               PROVE  AuthTypeOK' /\ AuthIInv'
    OBVIOUS
  <2>1. CASE AuthLogin
    BY <2>1, LoginStep
  <2>2. CASE AuthTick
    BY <2>2, TickStep
  <2>3. ASSUME NEW c \in AuthCalls,
               \/ AuthBegin(c) \/ AuthCached(c) \/ AuthMiss(c) \/ AuthRefused(c) \/ AuthSign(c)
               \/ AuthUse(c)
        PROVE  AuthTypeOK' /\ AuthIInv'
    BY <2>3, PlainStep
  <2>4. ASSUME NEW c \in AuthCalls, AuthPost(c) \/ AuthPersist(c) \/ AuthPut(c)
        PROVE  AuthTypeOK' /\ AuthIInv'
    BY <2>4, PostStep, PersistStep, PutStep
  <2>5. CASE UNCHANGED authVars
    BY <2>5, AuthTypesNamed
       DEF authVars, AuthTypeOK, CallRec, CallPcs, AuthConfig, AuthIInv, TokensMade, ConfigsAlike,
           OneWriter, AnswersFresh, Busy, Held
  <2> QED
    BY <2>1, <2>2, <2>3, <2>4, <2>5 DEF AuthNext
<1> QED
  BY <1>1, <1>2, PTL DEF AuthSpec

\* However many calls overlap, rotate, persist and cache: the refresh token
\* the next call reads is the one the endpoint honours, unless a rotation was
\* not kept or a login came under a call; and no call is handed an access
\* token of a refresh that has expired (exchange_refresh_token,
\* persist_rotated_refresh_token, cache_get, cache_put).
THEOREM AuthRefreshSound ==
  ASSUME OnePlace, CachedInTime
  PROVE  AuthSpec => []RefreshSound
<1>1. AuthTypeOK /\ AuthIInv => RefreshSound
  <2> SUFFICES ASSUME AuthTypeOK, AuthIInv PROVE RefreshSound
    OBVIOUS
  <2>1. RotationKept
    BY DEF RotationKept, AuthIInv, OneWriter, Busy
  <2>2. HandedIsLive
    BY DEF HandedIsLive, AuthIInv, AnswersFresh
  <2> QED
    BY <2>1, <2>2 DEF RefreshSound
<1> QED
  BY <1>1, AuthInvariant, PTL

------------------------------------------------------------------------------
(* The parts together                                                        *)

\* Streams, commands, logins, refreshes and calls beside each other keep their
\* variables well formed, whatever each of them meets.
THEOREM ActorsKeepTypes ==
  StrSpec /\ CmdSpec /\ AuthSpec /\ OauSpec /\ DspSpec => []TypesOK
<1>1. StrTypeOK /\ CmdInv /\ AuthTypeOK /\ OauTypeOK /\ DspTypeOK => TypesOK
  BY DEF TypesOK, CmdInv
<1> QED
  BY <1>1, StrInvariant, CmdInvariant, AuthKeepsTypes, OauInvariant, DspInvariant, PTL
=============================================================================
