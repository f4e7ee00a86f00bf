------------------------------ MODULE Command ------------------------------
(***************************************************************************)
(* One run of a Command action: run_command of solx-actions/src/exec.rs,   *)
(* the child it spawns and the pipes between them, and the loopback        *)
(* listener of solx-console/src/loopback.rs through which the child prints *)
(* to its console and asks whether it was stopped.                         *)
(*                                                                         *)
(* A pipe is the number of units in it, at most PipeCap.  A child is the   *)
(* sequence of what it does: "in" reads a unit of stdin (or sees its end), *)
(* "out" and "err" write one, "print" posts to the loopback, "cancelled"   *)
(* asks it, "fork" leaves a process behind that holds stdout and stderr    *)
(* open.  Several requests of a run may be in the listener at once.        *)
(***************************************************************************)
EXTENDS Naturals, Sequences

CONSTANTS Programs,     \* what a child may do: sequences of steps
          Allowed,      \* the keys of command_actions
          CmdKeys,      \* the keys actions name
          Payload,      \* units of the params written to stdin
          PipeCap       \* what a pipe holds

ASSUME CmdAssumption ==
  /\ Programs \subseteq Seq({"in", "out", "err", "print", "cancelled", "fork"})
  /\ Payload \in Nat /\ PipeCap \in Nat \ {0}

VARIABLES cmdPc,        \* "idle", "running", "done"
          cmdResult,    \* "none", "ok", "failed", "timeout", "refused", "aborted"
          cmdFeed,      \* units still to write to stdin, which is shut down at 0
          cmdPipe,      \* stdin, stdout and stderr: units in each
          cmdChild,     \* its remaining steps, whether it lives, how it ended
          cmdForked,    \* a process it left behind is alive
          cmdToken,     \* "none", "registered", "dropped"
          cmdRequest,   \* requests of the child the listener has let in
          cmdAnswers    \* what the listener did with the requests it got
cmdVars == <<cmdPc, cmdResult, cmdFeed, cmdPipe, cmdChild, cmdForked, cmdToken,
             cmdRequest, cmdAnswers>>

Ends == {"stdin", "stdout", "stderr"}
Pipe(step) == CASE step = "in" -> "stdin" [] step = "out" -> "stdout" [] OTHER -> "stderr"
NoChild == [todo |-> <<>>, alive |-> FALSE, ok |-> TRUE]

CmdInit == /\ cmdPc = "idle" /\ cmdResult = "none" /\ cmdFeed = Payload
           /\ cmdPipe = [e \in Ends |-> 0] /\ cmdChild = NoChild /\ cmdForked = FALSE
           /\ cmdToken = "none" /\ cmdRequest = {} /\ cmdAnswers = {}

(* The listener is started by the first run that needs it, and each run    *)
(* registers a token of its own. It may fail: the run then has none.       *)
Register == \E started \in BOOLEAN : cmdToken' = IF started THEN "registered" ELSE "none"
Deregister == cmdToken' = IF cmdToken = "registered" THEN "dropped" ELSE cmdToken
(* A key that is not in the allowlist is refused before anything starts.   *)
CmdStart(key) ==
  /\ cmdPc = "idle"
  /\ IF key \in Allowed
     THEN /\ \E program \in Programs, ok \in BOOLEAN :
               cmdChild' = [todo |-> program, alive |-> TRUE, ok |-> ok]
          /\ Register /\ cmdPc' = "running" /\ UNCHANGED cmdResult
     ELSE /\ cmdPc' = "done" /\ cmdResult' = "refused"
          /\ UNCHANGED <<cmdChild, cmdToken>>
  /\ UNCHANGED <<cmdFeed, cmdPipe, cmdForked, cmdRequest, cmdAnswers>>

------------------------------------------------------------------------------
(* The parent writes stdin and drains the other two pipes, each as it can. *)
(* Writing to a child that is gone fails and is ignored.                   *)
Running == cmdPc = "running" /\ UNCHANGED <<cmdToken, cmdRequest, cmdAnswers>>
(* What would break it: a writer that does not wait for room.             *)
CmdFeedBlind == /\ Running /\ cmdFeed > 0 /\ cmdFeed' = cmdFeed - 1
                /\ cmdPipe' = [cmdPipe EXCEPT !["stdin"] = @ + 1]
                /\ UNCHANGED <<cmdPc, cmdResult, cmdChild, cmdForked>>
CmdFeed == /\ Running /\ cmdFeed > 0
           /\ cmdChild.alive => cmdPipe["stdin"] < PipeCap
           /\ cmdFeed' = cmdFeed - 1
           /\ cmdPipe' = [cmdPipe EXCEPT !["stdin"] = IF cmdChild.alive THEN @ + 1 ELSE @]
           /\ UNCHANGED <<cmdPc, cmdResult, cmdChild, cmdForked>>
(* What would break it: stdin written in full before the rest is drained. *)
CmdDrainAfter(e) == /\ Running /\ cmdFeed = 0 /\ e # "stdin" /\ cmdPipe[e] > 0
                    /\ cmdPipe' = [cmdPipe EXCEPT ![e] = @ - 1]
                    /\ UNCHANGED <<cmdPc, cmdResult, cmdFeed, cmdChild, cmdForked>>
CmdDrain(e) == /\ Running /\ e # "stdin" /\ cmdPipe[e] > 0
               /\ cmdPipe' = [cmdPipe EXCEPT ![e] = @ - 1]
               /\ UNCHANGED <<cmdPc, cmdResult, cmdFeed, cmdChild, cmdForked>>

(* The run returns, and the registration of its token goes with it: when   *)
(* stdin is written, the child has exited and nobody can write to stdout   *)
(* or stderr; at the timeout; or when its future is dropped. The last two  *)
(* kill the child, and not what it left behind.                            *)
Return(result) ==
  /\ cmdPc = "running" /\ cmdPc' = "done" /\ cmdResult' = result
  /\ Deregister
  /\ cmdChild' = [cmdChild EXCEPT !.alive = FALSE, !.todo = <<>>]
  /\ UNCHANGED <<cmdFeed, cmdPipe, cmdForked, cmdRequest, cmdAnswers>>
CmdEnds == /\ cmdFeed = 0 /\ ~cmdChild.alive /\ ~cmdForked
           /\ cmdPipe["stdout"] = 0 /\ cmdPipe["stderr"] = 0
           /\ Return(IF cmdChild.ok THEN "ok" ELSE "failed")
CmdTimeout == Return("timeout")
CmdAborted == Return("aborted")

------------------------------------------------------------------------------
(* The child does its steps in order, and each may block it.               *)
Live == cmdChild.alive /\ UNCHANGED <<cmdPc, cmdResult, cmdFeed, cmdToken, cmdAnswers>>
Step(step) == /\ Live /\ cmdChild.todo # <<>> /\ Head(cmdChild.todo) = step
              /\ cmdChild' = [cmdChild EXCEPT !.todo = Tail(@)]
ChildReads == /\ Step("in")
              /\ \/ cmdPipe["stdin"] > 0 /\ cmdPipe' = [cmdPipe EXCEPT !["stdin"] = @ - 1]
                 \/ cmdPipe["stdin"] = 0 /\ cmdFeed = 0 /\ UNCHANGED cmdPipe
              /\ UNCHANGED <<cmdForked, cmdRequest>>
ChildWrites == \E step \in {"out", "err"} :
                 /\ Step(step) /\ cmdPipe[Pipe(step)] < PipeCap
                 /\ cmdPipe' = [cmdPipe EXCEPT ![Pipe(step)] = @ + 1]
                 /\ UNCHANGED <<cmdForked, cmdRequest>>
ChildForks == Step("fork") /\ cmdForked' = TRUE /\ UNCHANGED <<cmdPipe, cmdRequest>>
ChildExits == /\ Live /\ cmdChild.todo = <<>> /\ cmdChild' = [cmdChild EXCEPT !.alive = FALSE]
              /\ UNCHANGED <<cmdPipe, cmdForked, cmdRequest>>
ForkExits == /\ cmdForked /\ cmdForked' = FALSE
             /\ UNCHANGED <<cmdPc, cmdResult, cmdFeed, cmdPipe, cmdChild, cmdToken,
                            cmdRequest, cmdAnswers>>

(* A request is let in by its token, which is looked up before the body is *)
(* handled; without a token, or with one no longer registered, it is 401.  *)
Request(kind) ==
  IF cmdToken = "registered"
  THEN cmdRequest' = cmdRequest \cup {kind} /\ UNCHANGED cmdAnswers
  ELSE cmdAnswers' = cmdAnswers \cup {"unauthorized"} /\ UNCHANGED cmdRequest
ChildPosts == \E kind \in {"print", "cancelled"} :
                /\ cmdChild.alive /\ cmdChild.todo # <<>> /\ Head(cmdChild.todo) = kind
                /\ cmdChild' = [cmdChild EXCEPT !.todo = Tail(@)] /\ Request(kind)
                /\ UNCHANGED <<cmdPc, cmdResult, cmdFeed, cmdPipe, cmdForked, cmdToken>>
ForkPosts == /\ cmdForked /\ \E kind \in {"print", "cancelled"} : Request(kind)
             /\ UNCHANGED <<cmdPc, cmdResult, cmdFeed, cmdPipe, cmdChild, cmdForked, cmdToken>>
Answered(kind) ==
  CASE kind = "print" -> IF cmdPc = "done" THEN "printed late" ELSE "printed"
    [] OTHER -> "told"
(* The store may fail: a print is then 500, and the run is not cancelled.  *)
Handle == \E kind \in cmdRequest :
            /\ cmdRequest' = cmdRequest \ {kind}
            /\ \E answer \in {Answered(kind), "store failed"} :
                 cmdAnswers' = cmdAnswers \cup {answer}
            /\ UNCHANGED <<cmdPc, cmdResult, cmdFeed, cmdPipe, cmdChild, cmdForked, cmdToken>>

Parent == CmdFeed \/ (\E e \in Ends : CmdDrain(e)) \/ CmdEnds
Child == ChildReads \/ ChildWrites \/ ChildForks \/ ChildExits \/ ChildPosts
CmdNext == \/ \E key \in CmdKeys : CmdStart(key)
           \/ Parent \/ CmdTimeout \/ CmdAborted \/ Child \/ ForkExits \/ ForkPosts \/ Handle
(* The runtime polls the parent's tasks and the system runs the child; no  *)
(* timeout, abort or exit of a process left behind is counted on.          *)
CmdFairness == WF_cmdVars(Parent) /\ WF_cmdVars(Child)
CmdSpec == CmdInit /\ [][CmdNext]_cmdVars /\ CmdFairness

------------------------------------------------------------------------------
CmdTypeOK ==
  /\ cmdPc \in {"idle", "running", "done"}
  /\ cmdResult \in {"none", "ok", "failed", "timeout", "refused", "aborted"}
  /\ cmdFeed \in 0 .. Payload /\ cmdPipe \in [Ends -> 0 .. PipeCap]
  /\ cmdChild \in [todo : Seq({"in", "out", "err", "print", "cancelled", "fork"}),
                   alive : BOOLEAN, ok : BOOLEAN]
  /\ cmdForked \in BOOLEAN /\ cmdToken \in {"none", "registered", "dropped"}
  /\ cmdRequest \subseteq {"print", "cancelled"}
  /\ cmdAnswers \subseteq {"unauthorized", "printed", "printed late", "told", "store failed"}

(* A command never waits for its child while the child waits for it: a run *)
(* whose child leaves no process behind comes to its end by itself, however*)
(* much the child writes before it reads, and no timeout is needed for it  *)
(* (run_command feeds stdin while it drains stdout and stderr).            *)
CommandSettles == (cmdPc = "running" /\ ~cmdForked) ~> (cmdPc = "done" \/ cmdForked)
=============================================================================
