--------------------------- MODULE MCEventDelivery ---------------------------
(***************************************************************************)
(* Small instances of EventDelivery.  The first notice gives the bridge an *)
(* id to resume from, so that what follows is covered by the replay.       *)
(***************************************************************************)
EXTENDS EventDelivery

MCKind == [e \in Events |-> CASE e = 1 -> "note" [] e = 3 -> "progress" [] OTHER -> "done"]
=============================================================================
