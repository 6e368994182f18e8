---------------------------- MODULE TaskScheduler ----------------------------
(***************************************************************************)
(* The scheduled-task runner (services/task-service.ts) over the task      *)
(* table (packages/memory/src/tasks.ts).  A timer starts a tick every      *)
(* 30 s whether or not the last one is over: ticks overlap as soon as a    *)
(* run outlasts the interval.  A tick lists the tasks, picks the due ones, *)
(* and has as many workers as there are free slots take them in order.     *)
(*                                                                         *)
(* Tasks are numbered in creation order, the order listTasks returns.      *)
(* Schedule[t] is the set of moments the cron expression of t names.       *)
(***************************************************************************)
EXTENDS Integers, FiniteSets

CONSTANTS
  NumTasks,
  InitialTasks,   \* how many of them exist at the start
  MaxTime,        \* the clock stops there: bounds a behaviour
  Schedule,       \* task -> the set of its moments in 1..MaxTime
  MaxConcurrent,  \* #maxConcurrentRuns
  MaxFaults,      \* how many store errors and restarts: bounds a behaviour
  Ticks,          \* the ticks that may be under way at once
  Stuck           \* tasks whose runs need not end: a coding.run of an hour

Tasks == 1..NumTasks
Times == 0..MaxTime
Never == -1       \* in a listing: no such task

ASSUME SchedulerAssumption ==
  /\ NumTasks \in Nat \ {0}
  /\ InitialTasks \in 0..NumTasks
  /\ MaxTime \in Nat \ {0}
  /\ Schedule \in [Tasks -> SUBSET (1..MaxTime)]
  /\ MaxConcurrent \in Nat \ {0}
  /\ MaxFaults \in Nat
  /\ Stuck \subseteq Tasks

VARIABLES
  now,        \* the clock
  task,       \* task -> "none", "active" or "deleted"
  base,       \* task -> its lastRunAt, before the first run its createdAt
  running,    \* #running: the tasks a worker has marked
  tick,       \* tick -> where checkNow is, and its listing
  job,        \* tick -> task -> where #runTask is
  startedAt,  \* tick -> task -> #runTask's startedAt, 0 when it is not under way
  faults,     \* store errors and restarts so far
  fires,      \* task -> moment -> how often it was run for it, saturating at 2
  overlapped, \* some tick began while another was under way (history)
  doubled     \* some worker marked a task already marked (history)

vars == <<now, task, base, running, tick, job, startedAt, faults, fires, overlapped, doubled>>

NoTick == [pc |-> "none", listing |-> [t \in Tasks |-> Never]]
Active == {"starting", "chatting"}

\* isTaskDue for a task last run (or created) at b.
IsDue(t, b) == \E o \in Schedule[t] : b < o /\ o <= now

\* The moment a run started at s is for: the latest that has come.
Moments(t, s) == {o \in Schedule[t] : o <= s /\ \A q \in Schedule[t] : q <= s => q <= o}

\* The n oldest tasks of a set, in the order of the list.
FirstOf(S, n) == {t \in S : Cardinality({u \in S : u < t}) < n}

Init ==
  /\ now = 0
  /\ task = [t \in Tasks |-> IF t <= InitialTasks THEN "active" ELSE "none"]
  /\ base = [t \in Tasks |-> 0]
  /\ running = {}
  /\ tick = [i \in Ticks |-> NoTick]
  /\ job = [i \in Ticks |-> [t \in Tasks |-> "none"]]
  /\ startedAt = [i \in Ticks |-> [t \in Tasks |-> 0]]
  /\ faults = 0
  /\ fires = [t \in Tasks |-> [o \in Times |-> 0]]
  /\ overlapped = FALSE /\ doubled = FALSE

PassTime ==
  /\ now < MaxTime
  /\ now' = now + 1
  /\ UNCHANGED <<task, base, running, tick, job, startedAt, faults, fires, overlapped, doubled>>

\* schedule.create and schedule.delete, the agent's tools over the table.
Create(t) ==
  /\ task[t] = "none" /\ \A u \in Tasks : u < t => task[u] # "none"
  /\ task' = [task EXCEPT ![t] = "active"]
  /\ base' = [base EXCEPT ![t] = now]
  /\ UNCHANGED <<now, running, tick, job, startedAt, faults, fires, overlapped, doubled>>

Delete(t) ==
  /\ task[t] = "active"
  /\ task' = [task EXCEPT ![t] = "deleted"]
  /\ UNCHANGED <<now, base, running, tick, job, startedAt, faults, fires, overlapped, doubled>>

(***************************************************************************)
(* checkNow                                                                *)
(***************************************************************************)
TickList(i) ==
  /\ tick[i].pc = "none"
  /\ tick' = [tick EXCEPT ![i] =
       [pc |-> "listed",
        listing |-> [t \in Tasks |-> IF task[t] = "active" THEN base[t] ELSE Never]]]
  /\ overlapped' = (overlapped \/ \E k \in Ticks \ {i} : tick[k].pc # "none")
  /\ UNCHANGED <<now, task, base, running, job, startedAt, faults, fires, doubled>>

\* The due tasks of the listing that no worker has marked.
Due(i) == {t \in Tasks : /\ tick[i].listing[t] # Never
                         /\ t \notin running
                         /\ IsDue(t, tick[i].listing[t])}

\* Mutant: every tick has the whole limit to itself.
FreeSlots_PerTick == MaxConcurrent

\* Mutant: the former lock of the whole tick.
FreeSlots_TickLock == IF running = {} THEN MaxConcurrent ELSE 0

FreeSlots == MaxConcurrent - Cardinality(running)

\* Nothing due, or no slot free: the tick is over.
TickSkip(i) ==
  /\ tick[i].pc = "listed"
  /\ Due(i) = {} \/ FreeSlots <= 0
  /\ tick' = [tick EXCEPT ![i] = NoTick]
  /\ UNCHANGED <<now, task, base, running, job, startedAt, faults, fires, overlapped, doubled>>

\* runWithConcurrency: each worker marks and starts one task, the rest of the
\* list waits, unmarked.
TickRun(i) ==
  /\ tick[i].pc = "listed"
  /\ Due(i) # {} /\ FreeSlots > 0
  /\ LET first == FirstOf(Due(i), FreeSlots)
     IN  /\ job' = [job EXCEPT ![i] = [t \in Tasks |-> IF t \in first THEN "starting"
                                                      ELSE IF t \in Due(i) THEN "waiting" ELSE "none"]]
         /\ running' = running \cup first
  /\ startedAt' = [startedAt EXCEPT ![i] =
       [t \in Tasks |-> IF t \in FirstOf(Due(i), FreeSlots) THEN now ELSE 0]]
  /\ tick' = [tick EXCEPT ![i] = [NoTick EXCEPT !.pc = "working"]]
  /\ UNCHANGED <<now, task, base, faults, fires, overlapped, doubled>>

\* Mutant: an update without COALESCE that writes null.
Stamped_Null(t, s) == IF task[t] = "active" THEN [base EXCEPT ![t] = Never] ELSE base

\* Mutant: the run is not stamped before its chat.
Stamped_Late(t, s) == base

\* updateTask: a deleted task has no row to write to.
Stamped(t, s) == IF task[t] = "active" THEN [base EXCEPT ![t] = s] ELSE base

\* lastRunAt is written and the chat begins.  The update of a deleted task
\* touches no row, and the chat begins all the same.
JobMark(i, t) ==
  /\ job[i][t] = "starting"
  /\ job' = [job EXCEPT ![i][t] = "chatting"]
  /\ base' = Stamped(t, startedAt[i][t])
  /\ fires' = [fires EXCEPT ![t] =
       [o \in Times |-> IF o \in Moments(t, startedAt[i][t]) /\ fires[t][o] < 2
                        THEN fires[t][o] + 1 ELSE fires[t][o]]]
  /\ UNCHANGED <<now, task, running, tick, startedAt, faults, overlapped, doubled>>

\* The worker's finally, and its next task if its tick has one waiting.
Release(i, t) ==
  LET next == FirstOf({u \in Tasks : job[i][u] = "waiting"}, 1)
      after == [u \in Tasks |-> IF u = t THEN "none"
                               ELSE IF u \in next THEN "starting" ELSE job[i][u]]
  IN  /\ job' = [job EXCEPT ![i] = after]
      /\ running' = (running \ {t}) \cup next
      /\ startedAt' = [startedAt EXCEPT ![i] =
           [u \in Tasks |-> IF u = t THEN 0 ELSE IF u \in next THEN now ELSE @[u]]]
      /\ tick' = IF \A u \in Tasks : after[u] = "none"
                 THEN [tick EXCEPT ![i] = NoTick] ELSE tick
      /\ doubled' = (doubled \/ next \cap running # {})
      /\ UNCHANGED <<now, task, fires, overlapped>>

\* Mutant: the error leaves the worker without its finally.
JobFail_KeepsMark(i, t, stamped) ==
  /\ job[i][t] = "starting"
  /\ faults < MaxFaults
  /\ faults' = faults + 1
  /\ job' = [job EXCEPT ![i] = [u \in Tasks |-> "none"]]
  /\ tick' = [tick EXCEPT ![i] = NoTick]
  /\ UNCHANGED <<now, task, base, running, startedAt, fires, overlapped, doubled>>

\* The table fails, or after lastRunAt is written the session store does: the
\* error is logged and this tick does not retry.
JobFail(i, t, stamped) ==
  /\ job[i][t] = "starting"
  /\ faults < MaxFaults
  /\ faults' = faults + 1
  /\ base' = IF stamped THEN Stamped(t, startedAt[i][t]) ELSE base
  /\ Release(i, t)

\* The chat has ended, well or not, and its run is recorded.
JobEnd(i, t) ==
  /\ job[i][t] = "chatting"
  /\ Release(i, t)
  /\ UNCHANGED <<base, faults>>

\* The server restarts: only the table survives.
Restart ==
  /\ \E i \in Ticks : tick[i].pc # "none"
  /\ faults < MaxFaults
  /\ faults' = faults + 1
  /\ running' = {}
  /\ tick' = [i \in Ticks |-> NoTick]
  /\ job' = [i \in Ticks |-> [t \in Tasks |-> "none"]]
  /\ startedAt' = [i \in Ticks |-> [t \in Tasks |-> 0]]
  /\ UNCHANGED <<now, task, base, fires, overlapped, doubled>>

TickStep(i) == TickList(i) \/ TickSkip(i) \/ TickRun(i)
JobStep(i, t) == JobMark(i, t) \/ JobEnd(i, t)

Next ==
  \/ PassTime
  \/ \E t \in Tasks : Create(t) \/ Delete(t)
  \/ \E i \in Ticks : TickStep(i)
  \/ \E i \in Ticks, t \in Tasks : JobStep(i, t) \/ \E stamped \in BOOLEAN : JobFail(i, t, stamped)
  \/ Restart

Spec == Init /\ [][Next]_vars

\* The timer keeps firing and every listing returns; a run ends because of the
\* tool budget and the model's timeouts, except where Stuck says otherwise.
Fairness ==
  /\ WF_vars(\E i \in Ticks : TickList(i))
  /\ \A i \in Ticks : WF_vars(TickSkip(i) \/ TickRun(i))
  /\ \A i \in Ticks, t \in Tasks : WF_vars(JobMark(i, t))
  /\ \A i \in Ticks, t \in Tasks \ Stuck : WF_vars(JobEnd(i, t))

FairSpec == Spec /\ Fairness

(***************************************************************************)
(* Properties                                                              *)
(***************************************************************************)
JobStates == {"none", "waiting", "starting", "chatting"}

\* Every variable keeps to its domain.
TypeOK ==
  /\ now \in Times
  /\ task \in [Tasks -> {"none", "active", "deleted"}]
  /\ base \in [Tasks -> Times]
  /\ running \subseteq Tasks
  /\ tick \in [Ticks -> [pc : {"none", "listed", "working"},
                         listing : [Tasks -> Times \cup {Never}]]]
  /\ job \in [Ticks -> [Tasks -> JobStates]]
  /\ startedAt \in [Ticks -> [Tasks -> Times]]
  /\ faults \in 0..MaxFaults
  /\ fires \in [Tasks -> [Times -> 0..2]]
  /\ overlapped \in BOOLEAN /\ doubled \in BOOLEAN

\* The runs under way.
UnderWay == {x \in Ticks \X Tasks : job[x[1]][x[2]] \in Active}

\* No slot leaks: whatever fails, a mark in #running belongs to a run under way,
\* so the slots checkNow counts come back; and until some worker has marked a
\* task twice every run under way has its mark.
MarkHasRun ==
  LET ran == {x[2] : x \in UnderWay}
  IN  /\ running \subseteq ran
      /\ doubled \/ ran \subseteq running

\* "Mark as run first so overlapping ticks cannot double-fire" (#runTask).
OneRunPerMoment == \A t \in Tasks, o \in Times : fires[t][o] <= 1

\* While ticks do not overlap each moment is run for at most once, restarts
\* included: lastRunAt is written before the chat begins.
OneRunWithoutOverlap == overlapped \/ OneRunPerMoment

\* Until some worker has marked a task twice, no more than MaxConcurrent runs
\* are under way, over all overlapping ticks ("counted across ticks, so that the
\* ticks' own limits do not add up", checkNow).
RunsBounded == doubled \/ Cardinality(UnderWay) <= MaxConcurrent

\* Both: the slots of checkNow are neither lost nor exceeded.
SlotsKept == MarkHasRun /\ RunsBounded

\* A due task is run (or deleted) in the end, though a run of another task never
\* ends: a slow task holds its own slot only (checkNow, N-P1-5).
DueIsRun ==
  \A t \in Tasks \ Stuck : (task[t] = "active" /\ IsDue(t, base[t]))
                     ~> (task[t] # "active" \/ ~IsDue(t, base[t]))
=============================================================================
