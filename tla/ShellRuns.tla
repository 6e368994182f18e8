------------------------------ MODULE ShellRuns ------------------------------
(***************************************************************************)
(* The shell commands of one session (withShellLock and defaultRunner of   *)
(* server-shell.ts; shellQueues keeps the sessions apart).  A command      *)
(* queues behind the last one that came, by a promise that the other's end *)
(* settles; one that has waited too long gives up and settles its own.     *)
(* Commands are numbered in the order they come.                           *)
(***************************************************************************)
EXTENDS Naturals

CONSTANT NumCommands  \* commands of a behaviour: bounds it

ASSUME NumCommandsAssumption == NumCommands \in Nat \ {0}

Commands == 1..NumCommands
NoCommand == 0

VARIABLES
  cmd,         \* what each command is doing
  behind,      \* the command whose promise each waits for, NoCommand when there was none
  tail,        \* shellQueues.get(sessionId), NoCommand when there is no entry
  callerGone,  \* commands whose caller has timed out or been interrupted
  terminated   \* commands whose process group was sent SIGTERM

shellVars == <<cmd, behind, tail, callerGone, terminated>>

ShellInit ==
  /\ cmd = [c \in Commands |-> "new"]
  /\ behind = [c \in Commands |-> NoCommand]
  /\ tail = NoCommand
  /\ callerGone = {} /\ terminated = {}

In(state) == {c \in Commands : cmd[c] = state}
Moves(c, state) == cmd' = [cmd EXCEPT ![c] = state]

\* Whether c's promise is settled: it has ended, or it has given up.
Settled(c) == c # NoCommand => cmd[c] \in {"over", "gaveUp"}

\* withShellLock: the command takes the end of the queue.
CommandArrives(c) ==
  /\ cmd[c] = "new" /\ \A b \in 1..(c - 1) : cmd[b] # "new"
  /\ Moves(c, "queued")
  /\ behind' = [behind EXCEPT ![c] = tail]
  /\ tail' = c
  /\ UNCHANGED <<callerGone, terminated>>

\* The wait is over before the turn came (ShellBusyError).
GivesUpWaiting(c) ==
  /\ cmd[c] = "queued"
  /\ Moves(c, "gaveUp")
  /\ UNCHANGED <<behind, tail, callerGone, terminated>>

\* Mutant: the runner only listens for an abort to come.
CommandStarts_Unchecked(c) ==
  /\ cmd[c] = "queued" /\ Settled(behind[c])
  /\ Moves(c, "running")
  /\ UNCHANGED <<behind, tail, callerGone, terminated>>

\* start: its predecessor's promise is settled.  Of a caller that has gone by then
\* the process is terminated as soon as it runs.
CommandStarts(c) ==
  /\ cmd[c] = "queued" /\ Settled(behind[c])
  /\ Moves(c, "running")
  /\ terminated' = terminated \cup ({c} \cap callerGone)
  /\ UNCHANGED <<behind, tail, callerGone>>

\* The caller's signal: the tool's time limit, or the user's interrupt.
CallerLeaves(c) ==
  /\ cmd[c] \in {"queued", "running"} /\ c \notin callerGone
  /\ callerGone' = callerGone \cup {c}
  /\ terminated' = terminated \cup ({c} \cap In("running"))
  /\ UNCHANGED <<cmd, behind, tail>>

\* The command's own time limit; SIGKILL follows two seconds after SIGTERM.
CommandTimesOut(c) ==
  /\ cmd[c] = "running" /\ c \notin terminated
  /\ terminated' = terminated \cup {c}
  /\ UNCHANGED <<cmd, behind, tail, callerGone>>

\* Mutant: whoever ends clears the queue.
LastInQueue_Anyone(c) == tail # NoCommand

\* Only the last of the queue takes the entry away.
LastInQueue(c) == tail = c

\* The process is gone, by itself or by the signal, or it could not be made.
CommandEnds(c) ==
  /\ cmd[c] = "running"
  /\ Moves(c, "over")
  /\ tail' = IF LastInQueue(c) THEN NoCommand ELSE tail
  /\ UNCHANGED <<behind, callerGone, terminated>>

ShellNext ==
  \E c \in Commands :
    \/ CommandArrives(c) \/ GivesUpWaiting(c) \/ CommandStarts(c)
    \/ CallerLeaves(c) \/ CommandTimesOut(c) \/ CommandEnds(c)

ShellSpec == ShellInit /\ [][ShellNext]_shellVars

(***************************************************************************)
(* Properties                                                              *)
(***************************************************************************)
\* Every variable keeps to its domain.
ShellTypeOK ==
  /\ cmd \in [Commands -> {"new", "queued", "running", "over", "gaveUp"}]
  /\ behind \in [Commands -> Commands \cup {NoCommand}] /\ tail \in Commands \cup {NoCommand}
  /\ callerGone \subseteq Commands /\ terminated \subseteq Commands

\* One command of a session runs at a time (the comment on the queue).  Except across
\* one that gave up: it settles its place while its predecessor still runs, and who
\* comes behind it starts beside that one.
OneCommandAtATime ==
  \A a, b \in In("running") : a < b => \E c \in (a + 1)..(b - 1) : cmd[c] = "gaveUp"

\* The abort of the caller reaches the process, also of a command that was still in the
\* queue when it came (N-P1-1: no command goes on behind a call that was reported over).
AbortsReachTheProcess == In("running") \cap callerGone \subseteq terminated

\* Both, of the commands of a session.
ShellIsKept == OneCommandAtATime /\ AbortsReachTheProcess
=============================================================================
