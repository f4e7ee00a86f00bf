--------------------------- MODULE OAuthLoopback ---------------------------
(***************************************************************************)
(* The authorization-code loopback: solx-actions/src/internal/oauth.rs and *)
(* its server, solx-actions/src/loopback/oauth.rs.  All listeners here are *)
(* on one port, so that a start supersedes the listener before it.         *)
(*                                                                         *)
(* A flow is one oauth-start: its state_value, its listener and server     *)
(* task, and the one-shot channel on which the callback's result goes from *)
(* the server (the sender is in LoopbackState) to the receiver, which is   *)
(* in the inbox or held by one oauth-await.                                *)
(***************************************************************************)
EXTENDS Naturals, FiniteSets

CONSTANTS Flows,        \* the calls of oauth-start
          Awaits,       \* the calls of oauth-await
          NoFlow

ASSUME OauAssumption == NoFlow \notin Flows

VARIABLES oauStart,     \* per flow: where its oauth-start is
          oauStale,     \* per flow: the listeners it found on the port
          oauServer,    \* per flow: "none", "serving", "closing", "closed", "gone"
          oauSignal,    \* flows whose server was told to shut down
          oauSent,      \* per flow: the channel: "open", "sent", "taken", "dropped"
          oauRegistry,  \* flows with a handle in REGISTRY
          oauInbox,     \* flows whose receiver is in INBOX
          oauAwait      \* per call: pc and the flow it waits for
oauVars == <<oauStart, oauStale, oauServer, oauSignal, oauSent, oauRegistry, oauInbox, oauAwait>>

OauInit == /\ oauStart = [f \in Flows |-> "idle"] /\ oauStale = [f \in Flows |-> {}]
           /\ oauServer = [f \in Flows |-> "none"] /\ oauSignal = {}
           /\ oauSent = [f \in Flows |-> "open"] /\ oauRegistry = {} /\ oauInbox = {}
           /\ oauAwait = [a \in Awaits |-> [pc |-> "idle", flow |-> NoFlow]]

Bound(f) == oauServer[f] \in {"serving", "closing"}
Goto(f, pc) == oauStart' = [oauStart EXCEPT ![f] = pc]
Holds(a, f) == oauAwait[a].pc = "wait" /\ oauAwait[a].flow = f
(* stop_listener takes the handle out, drops the receiver that is in the   *)
(* inbox and signals the server if there was a handle.                     *)
StopListener(f) == /\ oauRegistry' = oauRegistry \ {f} /\ oauInbox' = oauInbox \ {f}
                   /\ oauSignal' = oauSignal \cup (oauRegistry \cap {f})

------------------------------------------------------------------------------
(* oauth-start. It stops what it found registered on the port, one after   *)
(* the other, and waits a bounded time for each to exit: it may go on      *)
(* before the port is free, and its bind then fails.                       *)
OauReclaim(f) == /\ oauStart[f] = "idle" /\ Goto(f, "reclaim")
                 /\ oauStale' = [oauStale EXCEPT ![f] = oauRegistry]
                 /\ UNCHANGED <<oauServer, oauSignal, oauSent, oauRegistry, oauInbox, oauAwait>>
OauSupersede(f) == \E g \in oauStale[f] :
                     /\ oauStart[f] = "reclaim" /\ StopListener(g)
                     /\ oauStale' = [oauStale EXCEPT ![f] = @ \ {g}]
                     /\ UNCHANGED <<oauStart, oauServer, oauSent, oauAwait>>
OauBind(f) == /\ oauStart[f] = "reclaim" /\ oauStale[f] = {}
              /\ IF \E g \in Flows : Bound(g)
                 THEN Goto(f, "failed") /\ UNCHANGED oauServer
                 ELSE Goto(f, "bound") /\ oauServer' = [oauServer EXCEPT ![f] = "serving"]
              /\ UNCHANGED <<oauStale, oauSignal, oauSent, oauRegistry, oauInbox, oauAwait>>
OauInboxPut(f) == /\ oauStart[f] = "bound" /\ Goto(f, "inbox")
                  /\ oauInbox' = oauInbox \cup {f}
                  /\ UNCHANGED <<oauStale, oauServer, oauSignal, oauSent, oauRegistry, oauAwait>>
OauRegister(f) == /\ oauStart[f] = "inbox" /\ Goto(f, "started")
                  /\ oauRegistry' = oauRegistry \cup {f}
                  /\ UNCHANGED <<oauStale, oauServer, oauSignal, oauSent, oauInbox, oauAwait>>

------------------------------------------------------------------------------
(* The server. The callback takes the sender out and sends once; nobody    *)
(* gets a result whose receiver is gone.                                   *)
OauCallback(f) ==
  /\ Bound(f) /\ oauStart[f] = "started" /\ oauSent[f] = "open"
  /\ oauSent' = [oauSent EXCEPT ![f] =
       IF f \in oauInbox \/ \E a \in Awaits : Holds(a, f) THEN "sent" ELSE "dropped"]
  /\ UNCHANGED <<oauStart, oauStale, oauServer, oauSignal, oauRegistry, oauInbox, oauAwait>>
ServerGoes(f, to) == /\ oauServer' = [oauServer EXCEPT ![f] = to]
                     /\ UNCHANGED <<oauStart, oauStale, oauAwait>>
OauShutdown(f) == /\ oauServer[f] = "serving" /\ f \in oauSignal /\ ServerGoes(f, "closing")
                  /\ UNCHANGED <<oauSignal, oauSent, oauRegistry, oauInbox>>
OauExpire(f) == /\ oauServer[f] = "serving" /\ oauStart[f] = "started" /\ ServerGoes(f, "closing")
                /\ UNCHANGED <<oauSignal, oauSent, oauRegistry, oauInbox>>
OauClosed(f) == /\ oauServer[f] = "closing" /\ ServerGoes(f, "closed")
                /\ oauSent' = IF oauSent[f] = "open" THEN [oauSent EXCEPT ![f] = "dropped"] ELSE oauSent
                /\ UNCHANGED <<oauSignal, oauRegistry, oauInbox>>
OauExit(f) == /\ oauServer[f] = "closed" /\ ServerGoes(f, "gone") /\ StopListener(f)
              /\ UNCHANGED oauSent

------------------------------------------------------------------------------
(* oauth-await. It owns the receiver while it waits; at its own deadline   *)
(* it puts it back, and every other way out stops the listener.            *)
AwaitGoes(a, pc, f) == oauAwait' = [oauAwait EXCEPT ![a] = [pc |-> pc, flow |-> f]]
OauAwait(a) == \E f \in oauInbox :
                 /\ oauAwait[a].pc = "idle" /\ oauStart[f] = "started"
                 /\ AwaitGoes(a, "wait", f) /\ oauInbox' = oauInbox \ {f}
                 /\ UNCHANGED <<oauStart, oauStale, oauServer, oauSignal, oauSent, oauRegistry>>
Waiting(a) == /\ oauAwait[a].pc = "wait"
              /\ UNCHANGED <<oauStart, oauStale, oauServer, oauSignal, oauRegistry>>
(* What would break it: a guard disarmed when the result arrives.         *)
OauTakeOnly(a) == /\ Waiting(a) /\ oauSent[oauAwait[a].flow] = "sent"
                  /\ oauSent' = [oauSent EXCEPT ![oauAwait[a].flow] = "taken"]
                  /\ AwaitGoes(a, "idle", NoFlow) /\ UNCHANGED oauInbox
OauTake(a) == /\ Waiting(a) /\ oauSent[oauAwait[a].flow] = "sent"
              /\ oauSent' = [oauSent EXCEPT ![oauAwait[a].flow] = "taken"]
              /\ AwaitGoes(a, "release", oauAwait[a].flow) /\ UNCHANGED oauInbox
OauNoSender(a) == /\ Waiting(a) /\ oauSent[oauAwait[a].flow] = "dropped"
                  /\ AwaitGoes(a, "release", oauAwait[a].flow) /\ UNCHANGED <<oauSent, oauInbox>>
(* What would break it: a receiver that is not put back.                  *)
OauTimesOutDrops(a) == Waiting(a) /\ AwaitGoes(a, "idle", NoFlow) /\ UNCHANGED <<oauSent, oauInbox>>
OauTimesOut(a) == /\ Waiting(a) /\ oauInbox' = oauInbox \cup {oauAwait[a].flow}
                  /\ AwaitGoes(a, "idle", NoFlow) /\ UNCHANGED oauSent
(* Its caller is stopped, or its future is dropped.                        *)
OauCancelled(a) == /\ Waiting(a) /\ AwaitGoes(a, "release", oauAwait[a].flow)
                   /\ UNCHANGED <<oauSent, oauInbox>>
OauRelease(a) == /\ oauAwait[a].pc = "release" /\ StopListener(oauAwait[a].flow)
                 /\ AwaitGoes(a, "idle", NoFlow)
                 /\ UNCHANGED <<oauStart, oauStale, oauServer, oauSent>>
OauStop(f) == /\ oauStart[f] = "started" /\ StopListener(f)
              /\ UNCHANGED <<oauStart, oauStale, oauServer, oauSent, oauAwait>>

OauServerStep == \E f \in Flows : OauShutdown(f) \/ OauClosed(f) \/ OauExit(f)
OauNext == \/ OauServerStep
           \/ \E f \in Flows : \/ OauReclaim(f) \/ OauSupersede(f) \/ OauBind(f) \/ OauInboxPut(f)
                               \/ OauRegister(f) \/ OauCallback(f) \/ OauExpire(f) \/ OauStop(f)
           \/ \E a \in Awaits : \/ OauAwait(a) \/ OauTake(a) \/ OauNoSender(a) \/ OauTimesOut(a)
                                \/ OauCancelled(a) \/ OauRelease(a)
(* The runtime runs the server's task and the drop of a guard; neither the *)
(* lifetime's end nor any caller is counted on.                            *)
OauFairness == WF_oauVars(OauServerStep) /\ \A a \in Awaits : WF_oauVars(OauRelease(a))
OauSpec == OauInit /\ [][OauNext]_oauVars /\ OauFairness

------------------------------------------------------------------------------
OauTypeOK ==
  /\ oauStart \in [Flows -> {"idle", "reclaim", "failed", "bound", "inbox", "started"}]
  /\ oauStale \in [Flows -> SUBSET Flows]
  /\ oauServer \in [Flows -> {"none", "serving", "closing", "closed", "gone"}]
  /\ oauSent \in [Flows -> {"open", "sent", "taken", "dropped"}]
  /\ oauSignal \subseteq Flows /\ oauRegistry \subseteq Flows /\ oauInbox \subseteq Flows
  /\ oauAwait \in [Awaits -> [pc : {"idle", "wait", "release"}, flow : Flows \cup {NoFlow}]]

(* A login in progress can be finished and can be superseded: while the    *)
(* listener of a started flow serves and nobody stopped it, its handle is  *)
(* in the registry, and its receiver is in the inbox or with exactly one   *)
(* call, which is waiting or on its way out (oauth_await, stop_listener).  *)
LoginReachable ==
  \A f \in Flows :
    /\ oauStart[f] = "started" /\ oauServer[f] = "serving" /\ f \notin oauSignal =>
         /\ f \in oauRegistry
         /\ f \in oauInbox \/ \E a \in Awaits : oauAwait[a].flow = f
    /\ f \in oauInbox => ~\E a \in Awaits : Holds(a, f)
    /\ Cardinality({a \in Awaits : Holds(a, f)}) <= 1

(* A listener nobody needs gives its port back without waiting for its     *)
(* lifetime to end: once its result is taken, its call is on its way out,  *)
(* or it was stopped, it closes (StopOnDrop, stop_listener).               *)
PortGivenBack == \A f \in Flows :
  (\/ oauSent[f] = "taken" \/ f \in oauSignal
   \/ \E a \in Awaits : oauAwait[a].pc = "release" /\ oauAwait[a].flow = f) ~> ~Bound(f)
=============================================================================
