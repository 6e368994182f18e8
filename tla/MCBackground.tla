---------------------------- MODULE MCBackground ----------------------------
(***************************************************************************)
(* What goes on without the user, each a small instance of its module: the *)
(* task scheduler, the reminders, the heartbeat, the spin lock of the      *)
(* files, the colleagues' mail, and a request to the model.  They share no *)
(* state, so they are checked one beside the other, as in MCForeground:    *)
(* only `part` moves, and fairness is assumed of the part that does.  The  *)
(* mail at rest has no letter, so its fairness asks nothing of the others. *)
(***************************************************************************)
EXTENDS MCTaskScheduler, ReminderService, Heartbeat, SpinLock, MailChains, LlmStream

VARIABLE part

Parts == {"scheduler", "reminders", "heartbeat", "lock", "mail", "model"}

backVars == <<part, vars, reminderVars, beatVars, spinVars, mailVars, streamVars>>

BackgroundInit ==
  /\ part \in Parts
  /\ Init /\ ReminderInit /\ BeatInit /\ SpinInit /\ MailInit /\ StreamInit
  \* What a part at rest began with does not matter.
  /\ part # "model" => choosing = TRUE

\* Everything but the part that moves stays.
BackgroundNext ==
  \/ /\ part = "scheduler" /\ Next
     /\ UNCHANGED <<part, reminderVars, beatVars, spinVars, mailVars, streamVars>>
  \/ /\ part = "reminders" /\ ReminderNext
     /\ UNCHANGED <<part, vars, beatVars, spinVars, mailVars, streamVars>>
  \/ /\ part = "heartbeat" /\ BeatNext
     /\ UNCHANGED <<part, vars, reminderVars, spinVars, mailVars, streamVars>>
  \/ /\ part = "lock" /\ SpinNext
     /\ UNCHANGED <<part, vars, reminderVars, beatVars, mailVars, streamVars>>
  \/ /\ part = "mail" /\ MailNext
     /\ UNCHANGED <<part, vars, reminderVars, beatVars, spinVars, streamVars>>
  \/ /\ part = "model" /\ StreamNext
     /\ UNCHANGED <<part, vars, reminderVars, beatVars, spinVars, mailVars>>

\* TaskScheduler's Fairness, while it is the scheduler that moves.
SchedulerFairness ==
  /\ WF_vars(part = "scheduler" /\ \E i \in Ticks : TickList(i))
  /\ \A i \in Ticks : WF_vars(part = "scheduler" /\ (TickSkip(i) \/ TickRun(i)))
  /\ \A i \in Ticks, t \in Tasks : WF_vars(part = "scheduler" /\ JobMark(i, t))
  /\ \A i \in Ticks, t \in Tasks \ Stuck : WF_vars(part = "scheduler" /\ JobEnd(i, t))

BackgroundSpec ==
  /\ BackgroundInit /\ [][BackgroundNext]_backVars
  /\ SchedulerFairness
  /\ MailFairness

\* Every variable of every part keeps to its domain.
BackgroundTypeOK ==
  /\ part \in Parts
  /\ TypeOK /\ ReminderTypeOK /\ BeatTypeOK /\ SpinTypeOK /\ MailTypeOK /\ StreamTypeOK

\* What the timers do beside the tasks: a reminder is announced once, and the heartbeat
\* keeps to one conversation and tells what it finds (ReminderService, Heartbeat).
TimersSpeakOnce == AnnouncedOnce /\ OneHeartbeat /\ TroubleIsTold
=============================================================================
