---------------------------- MODULE ConfigStore ----------------------------
(***************************************************************************)
(* What the config service promises of its file: one object that mutator   *)
(* calls change atomically.  A fault in the middle of a write may leave an *)
(* empty text or one that does not parse.                                  *)
(***************************************************************************)
EXTENDS ConfigObject

CONSTANTS StoreCalls, StoreInitial, Torn

VARIABLES object, lost

StoreInit == object \in StoreInitial /\ lost = FALSE

Write ==
    /\ object # Torn
    /\ \E call \in StoreCalls : object' = Apply(object, call)
    /\ object' # Refused
    /\ UNCHANGED lost

Lose ==
    /\ lost' = TRUE
    /\ object' \in {EmptyObject, Torn}

StoreSpec == StoreInit /\ [][Write \/ Lose]_<<object, lost>>
=============================================================================
