--------------------------- MODULE ConsoleActions ---------------------------
(***************************************************************************)
(* The handlers of /builtin/console and /builtin/action: which operation   *)
(* of the stores each one makes of its parameters and of its caller.       *)
(*                                                                         *)
(* A parameter is a string, an integer or absent; a caller is a pair of    *)
(* the reference of the calling action and its invocation, <<>> for none.  *)
(***************************************************************************)
EXTENDS Integers, Sequences

Absence == <<"absent">>
StringOf(s) == <<"string", s>>
IntegerOf(n) == <<"integer", n>>

\* as_str and as_i64: a value of the other kind counts as absent.
IsString(v) == v[1] = "string"
IntOr(v, default) == IF v[1] = "integer" THEN v[2] ELSE default

PageLimit == 200
FromStart == 0

Refuse == [op |-> "error"]

\* What each handler does, if the strings it requires are there.
ConsolePrint(caller) == [op |-> "print", on |-> caller[1], by |-> caller[2]]
ConsoleCopy(params, caller) ==
    [op |-> "copy", from |-> params["from_action_ref"][2], of |-> params["invocation_id"][2],
     on |-> caller[1], cursor |-> IntOr(params["cursor"], FromStart), limit |-> PageLimit]
ConsoleRead(params) ==
    [op |-> "read", from |-> params["action_ref"][2], cursor |-> IntOr(params["from_seq"], FromStart),
     limit |-> PageLimit]
ConsoleTail(params) ==
    [op |-> "tail", from |-> params["action_ref"][2], cursor |-> IntOr(params["cursor"], FromStart),
     limit |-> PageLimit]
ConsoleClear(params) == [op |-> "clear", on |-> params["action_ref"][2]]
ConsoleList == [op |-> "list"]
ActionStart(params) == [op |-> "start", action |-> params["name"][2]]
ActionStop(params) == [op |-> "stop", invocation |-> params["invocation_id"][2]]
ActionPoll(params) == [op |-> "poll", invocation |-> params["invocation_id"][2]]
ActionCancelled(caller) == [op |-> "cancelled", invocation |-> caller[2]]

\* The registry: the names, what each requires, and its handler.
CallerScoped == {"console-print", "console-copy", "action-cancelled"}
RequiredOf(fn) ==
    CASE fn = "console-copy" -> {"from_action_ref", "invocation_id"}
      [] fn \in {"console-read", "console-tail", "console-clear"} -> {"action_ref"}
      [] fn = "action-start" -> {"name"}
      [] fn \in {"action-stop", "action-poll"} -> {"invocation_id"}
      [] OTHER -> {}

HandlerNames == CallerScoped \cup {"console-read", "console-tail", "console-clear",
                   "console-list", "action-start", "action-stop", "action-poll"}

Handle(fn, params, caller) ==
    IF \/ fn \in CallerScoped /\ caller = <<>>
       \/ \E f \in RequiredOf(fn) : ~IsString(params[f])
    THEN Refuse
    ELSE CASE fn = "console-print" -> ConsolePrint(caller)
           [] fn = "console-copy" -> ConsoleCopy(params, caller)
           [] fn = "console-read" -> ConsoleRead(params)
           [] fn = "console-tail" -> ConsoleTail(params)
           [] fn = "console-clear" -> ConsoleClear(params)
           [] fn = "console-list" -> ConsoleList
           [] fn = "action-start" -> ActionStart(params)
           [] fn = "action-stop" -> ActionStop(params)
           [] fn = "action-poll" -> ActionPoll(params)
           [] fn = "action-cancelled" -> ActionCancelled(caller)

\* No parameter puts an entry on a console that is not the caller's own, or
\* asks for the cancellation of another's invocation; and without a caller
\* neither is done at all.
ScopeLaw(fn, params, caller) ==
    LET does == Handle(fn, params, caller)
    IN  /\ does.op \in {"print", "copy"} => caller # <<>> /\ does.on = caller[1]
        /\ does.op = "cancelled" => caller # <<>> /\ does.invocation = caller[2]
=============================================================================
