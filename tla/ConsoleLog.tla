---------------------------- MODULE ConsoleLog -----------------------------
(***************************************************************************)
(* What a console promises its readers: a log whose seqs are handed out in *)
(* order and used once.  A write claims the next seqs and makes all of     *)
(* them, or (when it fails) none of them, visible in the same step; what   *)
(* is retained only ever loses its oldest seqs.  A seq below `next` that   *)
(* is not kept never comes back.                                           *)
(***************************************************************************)
EXTENDS Naturals

VARIABLES
  next,  \* the seq the next write gets
  kept   \* the seqs a reader can still fetch

Init == next = 1 /\ kept = {}

\* One write, one trim, or both in one transaction.
Step ==
  /\ next' \in Nat /\ next' >= next
  /\ \E oldest \in 0 .. next' :
       \/ kept' = {s \in kept : s >= oldest}
       \/ kept' = {s \in kept \union (next .. (next' - 1)) : s >= oldest}

Spec == Init /\ [][Step]_<<next, kept>>
=============================================================================
