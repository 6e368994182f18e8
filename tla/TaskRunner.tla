----------------------------- MODULE TaskRunner -----------------------------
(***************************************************************************)
(* A colleague's background tasks (ColleagueTaskRunner of                  *)
(* colleague-task-runner.ts over runChild of coding-tool.ts; index.ts of   *)
(* agent-server loads the records before the event channel is there, tells *)
(* of the interrupted tasks after it).  A few run at a time and the        *)
(* others wait; the records are kept in memory and, by a chain of writes,  *)
(* in a file.  Tasks are numbered as they are delegated, and what differs  *)
(* between success, failure and timeout is not told apart: "ended".        *)
(***************************************************************************)
EXTENDS Naturals, FiniteSets, Sequences

CONSTANTS
  NumOrders,       \* tasks of a behaviour: bounds it
  MaxActive,       \* maxConcurrent
  MaxRecords,      \* MAX_TASKS
  MaxRunnerFaults  \* crashes and failed writes of a behaviour: bounds it

ASSUME TaskRunnerAssumption ==
  /\ {NumOrders, MaxActive, MaxRecords} \subseteq Nat \ {0}
  /\ MaxRunnerFaults \in Nat

Orders == 1..NumOrders
NoRecord == [t \in Orders |-> "none"]

VARIABLES
  power,      \* the process: "down", "loaded" or "up"
  record,     \* #tasks: the status of each task that has a record
  given,      \* how many tasks have been delegated
  active,     \* #active
  atWork,     \* tasks whose child process runs
  leaving,    \* tasks that have finished and still count in #active
  inLine,     \* #pending
  writesDue,  \* writes of the chain that have not begun
  inWrite,    \* what the write in progress writes, <<>> when there is none
  tasksFile,  \* the records in the file
  notices,    \* interrupted tasks that are to be told of (interruptedColleagueTasks)
  told,       \* how often each task was told to be over (history)
  lostEnds,   \* tasks that had ended, and not in the file, when the process died (history)
  unknown,    \* unfinished tasks that died with it without a record in the file (history)
  muted,      \* tasks that a restart marked and died before telling of (history)
  runnerFaults

runnerVars == <<power, record, given, active, atWork, leaving, inLine, writesDue, inWrite,
                tasksFile, notices, told, lostEnds, unknown, muted, runnerFaults>>
poolVars == <<active, atWork, leaving, inLine>>
diskVars == <<writesDue, inWrite, tasksFile>>
historyVars == <<lostEnds, unknown, muted>>

RunnerInit ==
  /\ power = "up" /\ record = NoRecord /\ given = 0
  /\ active = 0 /\ atWork = {} /\ leaving = {} /\ inLine = <<>>
  /\ writesDue = 0 /\ inWrite = <<>> /\ tasksFile = NoRecord
  /\ notices = {} /\ told = [t \in Orders |-> 0]
  /\ lostEnds = {} /\ unknown = {} /\ muted = {} /\ runnerFaults = 0

Recorded(records) == {t \in Orders : records[t] # "none"}
StillRunning(records) == {t \in Orders : records[t] = "running"}
Oldest(S, n) == {t \in S : Cardinality({u \in S : u < t}) < n}
Newest(S, n) == {t \in S : Cardinality({u \in S : u > t}) < n}

\* Beyond MAX_TASKS the oldest records of finished tasks go, never one of a running task.
Trimmed(records) ==
  LET over == Cardinality(Recorded(records)) - MaxRecords
      out == IF over > 0 THEN Oldest(Recorded(records) \ StillRunning(records), over) ELSE {}
  IN [t \in Orders |-> IF t \in out THEN "none" ELSE records[t]]

\* delegate.
OrderGiven ==
  LET t == given + 1
  IN /\ power = "up" /\ given < NumOrders
     /\ given' = t
     /\ record' = Trimmed([record EXCEPT ![t] = "running"])
     /\ writesDue' = writesDue + 1
     /\ IF active >= MaxActive
        THEN inLine' = Append(inLine, t) /\ UNCHANGED <<active, atWork>>
        ELSE active' = active + 1 /\ atWork' = atWork \cup {t} /\ UNCHANGED inLine
     /\ UNCHANGED <<power, leaving, inWrite, tasksFile, notices, told, historyVars, runnerFaults>>

\* runChild: the child is gone, was killed for its time, or could not be made.
ChildIsOver(t) == power = "up" /\ t \in atWork

\* #runInner's end and #finish.
OrderEnds(t) ==
  /\ ChildIsOver(t)
  /\ record' = [record EXCEPT ![t] = "ended"]
  /\ told' = [told EXCEPT ![t] = @ + 1]
  /\ writesDue' = writesDue + 1
  /\ atWork' = atWork \ {t} /\ leaving' = leaving \cup {t}
  /\ UNCHANGED <<power, given, active, inLine, inWrite, tasksFile, notices, historyVars,
                 runnerFaults>>

\* Mutant: the next one is looked for only when nothing runs.
SlotPasses_WhenIdle(t) ==
  /\ power = "up" /\ t \in leaving
  /\ leaving' = leaving \ {t}
  /\ IF inLine = <<>> \/ active > 1
     THEN active' = active - 1 /\ UNCHANGED <<atWork, inLine>>
     ELSE atWork' = atWork \cup {Head(inLine)} /\ inLine' = Tail(inLine) /\ UNCHANGED active
  /\ UNCHANGED <<power, record, given, diskVars, notices, told, historyVars, runnerFaults>>

\* #run's finally: one place is given back, and taken by the next that waits.
SlotPasses(t) ==
  /\ power = "up" /\ t \in leaving
  /\ leaving' = leaving \ {t}
  /\ IF inLine = <<>>
     THEN active' = active - 1 /\ UNCHANGED <<atWork, inLine>>
     ELSE atWork' = atWork \cup {Head(inLine)} /\ inLine' = Tail(inLine) /\ UNCHANGED active
  /\ UNCHANGED <<power, record, given, diskVars, notices, told, historyVars, runnerFaults>>

\* #persist: one write after the other, each of the records as they are when it begins.
WriteStarts ==
  /\ power # "down" /\ writesDue > 0 /\ inWrite = <<>>
  /\ writesDue' = writesDue - 1
  /\ inWrite' = LET last == Newest(Recorded(record), MaxRecords)
                IN [t \in Orders |-> IF t \in last THEN record[t] ELSE "none"]
  /\ UNCHANGED <<power, record, given, poolVars, tasksFile, notices, told, historyVars, runnerFaults>>

\* The rename; a write that fails leaves the file.
WriteIsOver ==
  /\ inWrite # <<>>
  /\ inWrite' = <<>>
  /\ \/ tasksFile' = inWrite /\ UNCHANGED runnerFaults
     \/ /\ runnerFaults < MaxRunnerFaults /\ runnerFaults' = runnerFaults + 1
        /\ UNCHANGED tasksFile
  /\ UNCHANGED <<power, record, given, poolVars, writesDue, notices, told, historyVars>>

\* The process ends; nobody follows its children any more.
RunnerDies ==
  /\ power # "down" /\ runnerFaults < MaxRunnerFaults
  /\ runnerFaults' = runnerFaults + 1
  /\ power' = "down"
  /\ lostEnds' = lostEnds \cup {t \in StillRunning(tasksFile) : told[t] > 0}
  /\ unknown' = unknown \cup (StillRunning(record) \ Recorded(tasksFile))
  /\ muted' = muted \cup (notices \ StillRunning(tasksFile))
  /\ record' = NoRecord /\ notices' = {}
  /\ active' = 0 /\ atWork' = {} /\ leaving' = {} /\ inLine' = <<>>
  /\ writesDue' = 0 /\ inWrite' = <<>>
  /\ UNCHANGED <<given, tasksFile, told>>

\* Mutant: every record of a task that failed is taken for an interrupted one.
LeftRunning_AnyFailed == {t \in Orders : tasksFile[t] \in {"running", "failed"}}

\* The records that a dead process left running.
LeftRunning == StillRunning(tasksFile)

\* loadPersisted, when the process starts.
RecordsLoaded ==
  /\ power = "down"
  /\ power' = "loaded"
  /\ notices' = LeftRunning
  /\ record' = [t \in Orders |-> IF t \in LeftRunning THEN "failed" ELSE tasksFile[t]]
  /\ writesDue' = IF LeftRunning # {} THEN 1 ELSE 0
  /\ UNCHANGED <<given, poolVars, inWrite, tasksFile, told, historyVars, runnerFaults>>

\* emitTaskDone of every interrupted task, once the event channel is there.
InterruptedAreTold ==
  /\ power = "loaded"
  /\ power' = "up"
  /\ told' = [t \in Orders |-> IF t \in notices THEN told[t] + 1 ELSE told[t]]
  /\ notices' = {}
  /\ UNCHANGED <<record, given, poolVars, diskVars, historyVars, runnerFaults>>

RunnerNext ==
  \/ OrderGiven \/ WriteStarts \/ WriteIsOver
  \/ RunnerDies \/ RecordsLoaded \/ InterruptedAreTold
  \/ \E t \in Orders : OrderEnds(t) \/ SlotPasses(t)

RunnerSpec == RunnerInit /\ [][RunnerNext]_runnerVars

(***************************************************************************)
(* Properties                                                              *)
(***************************************************************************)
Statuses == {"none", "running", "ended", "failed"}

\* Every variable keeps to its domain.
RunnerTypeOK ==
  /\ power \in {"down", "loaded", "up"} /\ given \in 0..NumOrders /\ active \in 0..MaxActive
  /\ record \in [Orders -> Statuses] /\ tasksFile \in [Orders -> Statuses]
  /\ atWork \cup leaving \cup notices \cup lostEnds \cup unknown \cup muted \subseteq Orders
  /\ inLine \in Seq(Orders) /\ writesDue \in Nat
  /\ inWrite # <<>> => inWrite \in [Orders -> Statuses]
  /\ told \in [Orders -> Nat] /\ runnerFaults \in 0..MaxRunnerFaults

InLine == {inLine[i] : i \in DOMAIN inLine}

\* The pool: every place that is counted is taken, nobody waits while one is free, and
\* every task recorded as running either runs or waits for it.
PoolIsFull ==
  /\ active = Cardinality(atWork \cup leaving)
  /\ inLine # <<>> => active = MaxActive
  /\ power = "up" => StillRunning(record) = atWork \cup InLine
  /\ atWork \cap InLine = {} /\ Len(inLine) = Cardinality(InLine)

\* Who delegated a task hears of its end, and once, over crashes: once the process has
\* told of those that the last one left, a task that was delegated runs, waits or was
\* told of.  Except that a task is told of again when its end was not in the file when
\* the process died, and never when its record was not (not written, or pushed out of
\* the file by newer ones), or when the restart died between its write and its telling.
ToldOnceOver ==
  /\ \A t \in Orders : told[t] > 1 => t \in lostEnds
  /\ power = "up" =>
       \A t \in 1..given :
         t \in StillRunning(record) \/ told[t] > 0 \/ t \in unknown \/ t \in muted

\* Both, of the colleague's tasks.
TasksAreFollowed == PoolIsFull /\ ToldOnceOver
=============================================================================
