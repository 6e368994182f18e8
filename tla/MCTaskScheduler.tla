--------------------------- MODULE MCTaskScheduler ---------------------------
(***************************************************************************)
(* Small instances of TaskScheduler: the first and the third task come due *)
(* twice, so that a run can be for an old moment.                          *)
(***************************************************************************)
EXTENDS TaskScheduler, TLC

MCSchedule == [t \in Tasks |-> IF t = 2 THEN {1} ELSE {1, 2}]

\* Ticks are interchangeable.
MCTicksSymmetry == Permutations(Ticks)

\* Listings that take no time: nothing happens between a tick's listTasks and
\* the moment it has marked its tasks.  Rules out stale listings, so that what is
\* left is due to the waiting list of runWithConcurrency.
MCQuickListing ==
  \A i \in Ticks : tick[i].pc = "listed" => tick'[i].pc # "listed"
=============================================================================
