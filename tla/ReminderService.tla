--------------------------- MODULE ReminderService ---------------------------
(***************************************************************************)
(* Reminders (services/reminder-service.ts over memory/src/reminders.ts).  *)
(* Every 10 s, whether or not the last scan is over, checkNow lists the    *)
(* reminders that are not done and takes the due ones in order: each is    *)
(* marked done in the table, and then announced.  Nobody reads the table   *)
(* for what was marked and not announced.                                  *)
(***************************************************************************)
EXTENDS Naturals, FiniteSets

CONSTANTS
  NumReminders,
  Scans,           \* the scans that may be under way at once
  MaxReminderFaults

ASSUME ReminderAssumption ==
  /\ NumReminders \in Nat /\ MaxReminderFaults \in Nat
  /\ IsFiniteSet(Scans)

Reminders == 1..NumReminders

VARIABLES
  reminder,     \* reminder -> "none", "ahead", "due" or "done", as the table has it
  scanning,     \* scan -> "none", "listing" or "working"
  listed,       \* scan -> the due reminders of its list it has not come to
  marking,      \* scan -> the reminder it marks, 0 when none
  announced,    \* reminder -> how often reminder.due was emitted
  reminderFaults,
  markLost,     \* reminders marked by a scan that never came to announce them (history)
  scansOverlap  \* a scan began while another was under way (history)

reminderVars == <<reminder, scanning, listed, marking, announced, reminderFaults, markLost,
                  scansOverlap>>

ReminderInit ==
  /\ reminder = [r \in Reminders |-> "none"]
  /\ scanning = [s \in Scans |-> "none"]
  /\ listed = [s \in Scans |-> {}]
  /\ marking = [s \in Scans |-> 0]
  /\ announced = [r \in Reminders |-> 0]
  /\ reminderFaults = 0 /\ markLost = {} /\ scansOverlap = FALSE

\* reminder.create, the agent's tool; a reminder may be due already.
ReminderAdd(r, state) ==
  /\ reminder[r] = "none" /\ \A q \in Reminders : q < r => reminder[q] # "none"
  /\ reminder' = [reminder EXCEPT ![r] = state]
  /\ UNCHANGED <<scanning, listed, marking, announced, reminderFaults, markLost, scansOverlap>>

ReminderComesDue(r) ==
  /\ reminder[r] = "ahead"
  /\ reminder' = [reminder EXCEPT ![r] = "due"]
  /\ UNCHANGED <<scanning, listed, marking, announced, reminderFaults, markLost, scansOverlap>>

\* The timer fires: checkNow.
ScanBegins(s) ==
  /\ scanning[s] = "none"
  /\ scanning' = [scanning EXCEPT ![s] = "listing"]
  /\ scansOverlap' = (scansOverlap \/ \E o \in Scans : scanning[o] # "none")
  /\ UNCHANGED <<reminder, listed, marking, announced, reminderFaults, markLost>>

\* The list, or an error: the next scan tries again.
ScanLists(s, ok) ==
  /\ scanning[s] = "listing"
  /\ listed' = [listed EXCEPT ![s] = IF ok THEN {r \in Reminders : reminder[r] = "due"} ELSE {}]
  /\ scanning' = [scanning EXCEPT ![s] = "working"]
  /\ UNCHANGED <<reminder, marking, announced, reminderFaults, markLost, scansOverlap>>

ScanTakes(s) ==
  /\ scanning[s] = "working" /\ marking[s] = 0 /\ listed[s] # {}
  /\ LET r == CHOOSE r \in listed[s] : \A q \in listed[s] : r <= q
     IN  /\ marking' = [marking EXCEPT ![s] = r]
         /\ listed' = [listed EXCEPT ![s] = @ \ {r}]
  /\ UNCHANGED <<reminder, scanning, announced, reminderFaults, markLost, scansOverlap>>

\* Mutant: an error of markDone does not keep the reminder from being announced.
ScanMarks_Anyway(s, written, answered) ==
  LET r == marking[s]
  IN  /\ r # 0
      /\ ~written \/ ~answered => reminderFaults < MaxReminderFaults
      /\ reminderFaults' = IF written /\ answered THEN reminderFaults ELSE reminderFaults + 1
      /\ reminder' = IF written THEN [reminder EXCEPT ![r] = "done"] ELSE reminder
      /\ announced' = [announced EXCEPT ![r] = @ + 1]
      /\ marking' = [marking EXCEPT ![s] = 0]
      /\ UNCHANGED <<scanning, listed, markLost, scansOverlap>>

\* Mutant: a reminder marked already is announced no more, nor is one just marked.
ScanMarks_Quiet(s, written, answered) ==
  LET r == marking[s]
  IN  /\ r # 0
      /\ ~written \/ ~answered => reminderFaults < MaxReminderFaults
      /\ reminderFaults' = IF written /\ answered THEN reminderFaults ELSE reminderFaults + 1
      /\ reminder' = IF written THEN [reminder EXCEPT ![r] = "done"] ELSE reminder
      /\ marking' = [marking EXCEPT ![s] = 0]
      /\ UNCHANGED <<scanning, listed, announced, markLost, scansOverlap>>

\* markDone and the event.  markDone may fail before the row is written or after:
\* either way nothing is announced.  That another scan has marked the row before,
\* which markDone tells by undefined, is not looked at.
ScanMarks(s, written, answered) ==
  LET r == marking[s]
  IN  /\ r # 0
      /\ ~written \/ ~answered => reminderFaults < MaxReminderFaults
      /\ reminderFaults' = IF written /\ answered THEN reminderFaults ELSE reminderFaults + 1
      /\ reminder' = IF written THEN [reminder EXCEPT ![r] = "done"] ELSE reminder
      /\ announced' = IF written /\ answered THEN [announced EXCEPT ![r] = @ + 1] ELSE announced
      /\ markLost' = IF written /\ ~answered THEN markLost \cup {r} ELSE markLost
      /\ marking' = [marking EXCEPT ![s] = 0]
      /\ UNCHANGED <<scanning, listed, scansOverlap>>

ScanEnds(s) ==
  /\ scanning[s] = "working" /\ marking[s] = 0 /\ listed[s] = {}
  /\ scanning' = [scanning EXCEPT ![s] = "none"]
  /\ UNCHANGED <<reminder, listed, marking, announced, reminderFaults, markLost, scansOverlap>>

\* The server restarts; marked says which of the rows being marked were written.
ReminderRestart(marked) ==
  /\ reminderFaults < MaxReminderFaults
  /\ reminderFaults' = reminderFaults + 1
  /\ marked \subseteq {marking[s] : s \in Scans} \ {0}
  /\ reminder' = [r \in Reminders |-> IF r \in marked THEN "done" ELSE reminder[r]]
  /\ markLost' = markLost \cup marked
  /\ scanning' = [s \in Scans |-> "none"]
  /\ listed' = [s \in Scans |-> {}]
  /\ marking' = [s \in Scans |-> 0]
  /\ UNCHANGED <<announced, scansOverlap>>

ReminderNext ==
  \/ \E r \in Reminders : ReminderComesDue(r) \/ \E state \in {"ahead", "due"} : ReminderAdd(r, state)
  \/ \E s \in Scans : ScanBegins(s) \/ ScanTakes(s) \/ ScanEnds(s)
  \/ \E s \in Scans, ok \in BOOLEAN : ScanLists(s, ok)
  \/ \E s \in Scans : \E flags \in {<<TRUE, TRUE>>, <<TRUE, FALSE>>, <<FALSE, FALSE>>} :
       ScanMarks(s, flags[1], flags[2])
  \/ \E marked \in SUBSET Reminders : ReminderRestart(marked)

ReminderSpec == ReminderInit /\ [][ReminderNext]_reminderVars

(***************************************************************************)
(* Properties                                                              *)
(***************************************************************************)
\* Every variable keeps to its domain.
ReminderTypeOK ==
  /\ reminder \in [Reminders -> {"none", "ahead", "due", "done"}]
  /\ scanning \in [Scans -> {"none", "listing", "working"}]
  /\ listed \in [Scans -> SUBSET Reminders]
  /\ marking \in [Scans -> {0} \cup Reminders]
  /\ announced \in [Reminders -> 0..Cardinality(Scans)]
  /\ reminderFaults \in 0..MaxReminderFaults
  /\ markLost \subseteq Reminders /\ scansOverlap \in BOOLEAN

\* A reminder is announced once and no sooner than it is due: what the table has
\* as done was announced, what it has not as done was not.  Except that a mark
\* whose answer never came, for the table's error or a restart, is never
\* announced, and that scans that overlap announce a reminder each.
AnnouncedOnce ==
  \A r \in Reminders :
    /\ reminder[r] = "done" => announced[r] >= 1 \/ r \in markLost
    /\ reminder[r] # "done" => announced[r] = 0
    /\ scansOverlap \/ announced[r] <= 1
=============================================================================
