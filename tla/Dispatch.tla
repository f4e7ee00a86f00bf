------------------------------ MODULE Dispatch ------------------------------
(***************************************************************************)
(* One request to run an action and everything it runs in turn:            *)
(* exec_as_with_inner of solx-actions/src/dispatch.rs, the WASM host, the  *)
(* script runner, script-exec, and the gate that outbound requests pass at *)
(* every hop (exec.rs, net.rs).  A call is a stack of frames, because a    *)
(* caller waits for what it called; the rows of the actions and the list   *)
(* of allowed URLs change under it.  A frame's `lists` is a history        *)
(* variable: the list the process had read last when the frame began, and  *)
(* those in force since.                                                   *)
(*                                                                         *)
(* An identity is an action at a version of its row: what a Caller is      *)
(* built from and what get-secret takes its keys from.                     *)
(***************************************************************************)
EXTENDS Naturals, Sequences, FiniteSetsExt, Functions

CONSTANTS DspActions,    \* the actions of the store
          DspTypes,      \* their types: a function to Types
          Urls,          \* URLs a webhook or a redirect may name
          Nobody, Anon,  \* no caller; the caller script-exec makes up
          MaxDepth, MaxEdits, MaxRedirects  \* bounds; the last is the code's

Types == {"Command", "Webhook", "Wasm", "Script",
          "get-secret", "script-exec", "http-request", "internal"}
ASSUME DspAssumption ==
  /\ DspTypes \in [DspActions -> Types] /\ Nobody \notin DspActions \X Nat
  /\ MaxDepth \in Nat \ {0} /\ MaxEdits \in Nat /\ MaxRedirects \in Nat \ {0}

VARIABLES dspRow,      \* per action: [present, version]
          dspAllowed,  \* allowed_base_urls: the URLs it admits
          dspLast,     \* the same, as the process has read it last
          dspStack,    \* the frames at work, the innermost last
          dspResult,   \* of the request: "none", "ok", "failed", "error"
          dspEdits     \* edits and readings by others so far
dspVars == <<dspRow, dspAllowed, dspLast, dspStack, dspResult, dspEdits>>

DspInit == /\ dspRow = [a \in DspActions |-> [present |-> TRUE, version |-> 0]]
           /\ dspAllowed \in SUBSET Urls /\ dspLast = dspAllowed
           /\ dspStack = <<>> /\ dspResult = "none" /\ dspEdits = 0

Depth == Len(dspStack)
Top == dspStack[Depth]
Identity(frame) == <<frame.action, frame.version>>

(* What would break it: the incoming caller passed on.                    *)
ActsAsOuter(frame) == IF frame.caller = Nobody THEN Identity(frame) ELSE frame.caller
(* Who a frame's own calls are made as: a WASM guest and a stored script   *)
(* are a caller of their own; script-exec passes its caller on.            *)
ActsAs(frame) == CASE frame.type \in {"Wasm", "Script"} -> Identity(frame)
                   [] frame.type = "script-exec" -> IF frame.caller = Nobody THEN Anon ELSE frame.caller
                   [] OTHER -> Nobody
Calls(frame) == frame.type \in {"Wasm", "Script", "script-exec"} /\ ~frame.failing

(* An error of a stage is the script's own; a guest is handed it. What is  *)
(* reported as failed (success: false) is a value like any other.          *)
Fails(frame, outcome) == outcome = "error" /\ frame.type \in {"Script", "script-exec"}
(* The frames from `depth` on end, and the one below gets the outcome.     *)
Unwind(depth, outcome) ==
  IF depth = 1 THEN dspStack' = <<>> /\ dspResult' = outcome
  ELSE /\ dspStack' = [i \in 1 .. depth - 1 |->
             IF i = depth - 1 /\ Fails(dspStack[i], outcome)
             THEN [dspStack[i] EXCEPT !.failing = TRUE] ELSE dspStack[i]]
       /\ UNCHANGED dspResult

------------------------------------------------------------------------------
Within == UNCHANGED <<dspRow, dspAllowed, dspLast, dspEdits>>

(* exec_as: the row is read once, unmasked; the params of a built-in get   *)
(* their other spelling and all are validated; a WASM or a script artifact *)
(* is loaded. Any of it may fail, before the frame exists.                 *)
NewFrame(a, caller) == [action |-> a, version |-> dspRow[a].version, type |-> DspTypes[a],
                        caller |-> caller, failing |-> FALSE, stage |-> "new", list |-> {},
                        hops |-> <<>>, asked |-> {}, lists |-> {dspAllowed, dspLast}]
MayCall == IF dspStack = <<>> THEN dspResult = "none" ELSE Calls(Top) /\ Depth < MaxDepth
DspEnter(a) ==
  LET caller == IF dspStack = <<>> THEN Nobody ELSE ActsAs(Top)
  IN  /\ MayCall /\ dspRow[a].present
      /\ dspStack' = Append(dspStack, NewFrame(a, caller))
      /\ UNCHANGED <<dspRow, dspAllowed, dspLast, dspResult, dspEdits>>
DspRefused == /\ MayCall
              /\ IF dspStack = <<>> THEN dspResult' = "error" /\ UNCHANGED dspStack
                 ELSE /\ dspStack' = [dspStack EXCEPT ![Depth].failing = Fails(Top, "error")]
                      /\ UNCHANGED dspResult
              /\ Within

(* The two that send a request of their own and wait for its answer.        *)
Sends(frame) == frame.type \in {"Webhook", "http-request"}
At(stage) == dspStack # <<>> /\ Sends(Top) /\ Top.stage = stage
(* What a reading of the list may give: a config that another process has  *)
(* truncated to rewrite it reads as empty, and one that it is half through *)
(* with does not parse and leaves the last reading in use (raw_snapshot    *)
(* takes no lock).                                                         *)
DspReads == {dspAllowed, {}, dspLast}
Reading(list) == dspLast' = list /\ UNCHANGED <<dspRow, dspAllowed, dspEdits>>

(* check_outbound_url: the URL is gated before anything is sent, by the    *)
(* list as it is now ...                                                   *)
DspCheck(url) == /\ At("new")
                 /\ \E list \in DspReads :
                      /\ Reading(list)
                      /\ IF url \in list
                         THEN /\ dspStack' = [dspStack EXCEPT ![Depth].stage = "checked",
                                                              ![Depth].hops = <<url>>]
                              /\ UNCHANGED dspResult
                         ELSE Unwind(Depth, "error")
(* What would break it: a client with the default policy, which follows    *)
(* redirects anywhere.                                                     *)
DspPolicyAny == /\ At("checked")
                /\ dspStack' = [dspStack EXCEPT ![Depth].stage = "ready", ![Depth].list = Urls]
                /\ UNCHANGED dspResult /\ Within
(* ... and a line is printed; redirect_policy reads the list once more.    *)
DspPolicy == /\ At("checked")
             /\ \E list \in DspReads :
                  /\ Reading(list)
                  /\ dspStack' = [dspStack EXCEPT ![Depth].stage = "ready", ![Depth].list = list]
             /\ UNCHANGED dspResult
(* A webhook without a cached token asks its token endpoint for one, with  *)
(* a client of its own: that URL passes no gate.                           *)
DspToken(url) == /\ At("ready") /\ Top.type = "Webhook"
                 /\ dspStack' = [dspStack EXCEPT ![Depth].asked = @ \cup {url}]
                 /\ UNCHANGED dspResult /\ Within
DspSend == /\ At("ready")
           /\ dspStack' = [dspStack EXCEPT ![Depth].stage = "sent"]
           /\ UNCHANGED dspResult /\ Within
(* Each later hop is held to the policy's copy, and so is their number.    *)
DspRedirect(url) == /\ At("sent")
                    /\ IF Len(Top.hops) < MaxRedirects /\ url \in Top.list
                       THEN /\ dspStack' = [dspStack EXCEPT ![Depth].hops = Append(@, url)]
                            /\ UNCHANGED dspResult
                       ELSE Unwind(Depth, "error")
                    /\ Within

(* The innermost frame ends. Only a guest can fail without an error, and a *)
(* request that was not sent has no answer.                                *)
Outcomes(frame) == IF frame.failing \/ (Sends(frame) /\ frame.stage # "sent") THEN {"error"}
                   ELSE IF frame.type = "Wasm" THEN {"ok", "failed", "error"}
                   ELSE {"ok", "error"}
DspReturn == /\ dspStack # <<>>
             /\ \E outcome \in Outcomes(Top) : Unwind(Depth, outcome)
             /\ Within
(* The time of a frame runs out, wherever it is in the stack: what it      *)
(* waits for is dropped. Of the built-ins, two have a limit of their own.  *)
DspTimeout(i) == /\ i \in 1 .. Depth /\ dspStack[i].type \notin {"get-secret", "internal"}
                 /\ Unwind(i, IF dspStack[i].type = "Wasm" THEN "failed" ELSE "error")
                 /\ Within
(* The request's own future is dropped, and all of it.                     *)
DspDropped == dspStack # <<>> /\ dspStack' = <<>> /\ dspResult' = "error" /\ Within

(* Meanwhile rows are saved and deleted and the list is edited.            *)
DspEdit == /\ dspEdits < MaxEdits /\ dspEdits' = dspEdits + 1
           /\ \/ \E a \in DspActions, present \in BOOLEAN :
                   /\ dspRow' = [dspRow EXCEPT ![a] = [present |-> present, version |-> @.version + 1]]
                   /\ UNCHANGED <<dspAllowed, dspStack>>
              \/ /\ dspAllowed' \in SUBSET Urls
                 /\ dspStack' = [i \in 1 .. Depth |->
                      [dspStack[i] EXCEPT !.lists = @ \cup {dspAllowed'}]]
                 /\ UNCHANGED dspRow
           /\ UNCHANGED <<dspLast, dspResult>>
(* Other requests of the process read the list too.                        *)
DspLook == /\ dspEdits < MaxEdits /\ dspEdits' = dspEdits + 1
           /\ dspLast' \in {dspAllowed, {}}
           /\ UNCHANGED <<dspRow, dspAllowed, dspStack, dspResult>>

DspNext == \/ \E a \in DspActions : DspEnter(a)
           \/ \E url \in Urls : DspCheck(url) \/ DspToken(url) \/ DspRedirect(url)
           \/ \E i \in 1 .. MaxDepth : DspTimeout(i)
           \/ DspPolicy \/ DspSend \/ DspRefused \/ DspReturn \/ DspDropped \/ DspEdit
           \/ DspLook
DspSpec == DspInit /\ [][DspNext]_dspVars

------------------------------------------------------------------------------
Callers == (DspActions \X Nat) \cup {Nobody, Anon}
DspTypeOK ==
  /\ dspRow \in [DspActions -> [present : BOOLEAN, version : Nat]]
  /\ dspAllowed \subseteq Urls /\ dspLast \subseteq Urls /\ dspEdits \in 0 .. MaxEdits
  /\ dspResult \in {"none", "ok", "failed", "error"}
  /\ dspStack \in Seq([action : DspActions, version : Nat, type : Types, caller : Callers,
                       failing : BOOLEAN, stage : {"new", "checked", "ready", "sent"},
                       list : SUBSET Urls, hops : Seq(Urls), asked : SUBSET Urls,
                       lists : SUBSET SUBSET Urls])
  /\ Depth <= MaxDepth

(* Whose keys get-secret uses, at any depth and through any edit of the    *)
(* rows: those of the nearest guest or stored script around it, as its row *)
(* was when it began; none when the request came from no action.           *)
Around(i) == {j \in 1 .. i - 1 : dspStack[j].type \in {"Wasm", "Script"}}
SecretsOfNearest ==
  \A i \in 1 .. Depth :
    LET caller == dspStack[i].caller
    IN  IF Around(i) = {} THEN caller \in {Nobody, Anon}
        ELSE caller = Identity(dspStack[Max(Around(i))])
(* The URL a request names was on a list in force since its frame began,   *)
(* or last read by then, and all it was redirected to on one such list; an *)
(* edit between the two readings may make them differ, so that no one list *)
(* admits them all.                                                        *)
HopsAllowed ==
  \A i \in 1 .. Depth :
    LET frame == dspStack[i]
    IN  frame.hops # <<>> =>
          /\ \E list \in frame.lists : frame.hops[1] \in list
          /\ \E list \in frame.lists : \A k \in 2 .. Len(frame.hops) : frame.hops[k] \in list

(* Whatever calls what, and whatever is edited meanwhile: a secret is      *)
(* opened with the keys of the right caller, and neither a request nor a   *)
(* redirect of it leaves the lists of its time: those in force since its   *)
(* frame began and the one last read by then (exec_as_with_inner, net.rs;  *)
(* the two invariants above). What a webhook asks of a token endpoint on   *)
(* the way is not bounded by them.                                         *)
CallsStayInBounds == SecretsOfNearest /\ HopsAllowed
==============================================================================
