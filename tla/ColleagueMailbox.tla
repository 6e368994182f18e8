-------------------------- MODULE ColleagueMailbox --------------------------
(***************************************************************************)
(* One colleague's mailbox in fork mode (services/colleague-office.ts).    *)
(*                                                                         *)
(* The mailbox is a JSON file.  Several processes hold a copy of it in     *)
(* their #mail map and write it back with a merge under a file lock:       *)
(*   Office  the parent process: it dispatches the hub's mail, watches the *)
(*           file, takes the child's POSTs and reports completions;        *)
(*   Owner   the forked child that works this mailbox off;                 *)
(*   Peers   the other colleagues' children, which mail.ask and mail.send  *)
(*           into this mailbox.                                            *)
(* A mail is its number in creation order (createdAt orders a mailbox); a  *)
(* mailbox maps every mail to its status, "absent" when it holds no such   *)
(* mail.  Bodies, replies and session ids are left out.                    *)
(***************************************************************************)
EXTENDS Integers, Sequences, FiniteSets

CONSTANTS
  NumMails,      \* how many mails are dispatched at most: bounds a behaviour
  MaxMail,       \* MAX_MAIL, the mailbox's capacity
  Office, Owner, Peers,
  MaxCrashes,    \* how many processes die at most: bounds a behaviour
  Crashable      \* which of Office and Owner may die

Mails == 1..NumMails
Procs == {Office, Owner} \cup Peers
Status == {"absent", "queued", "running", "done", "failed"}
Settled == {"done", "failed"}
Box == [Mails -> Status]
EmptyBox == [m \in Mails |-> "absent"]

\* The lock file: free, held by a living process, or left by a dead one.
Free == "free"
Orphan == "orphan"

ASSUME MailboxAssumption ==
  /\ NumMails \in Nat \ {0}
  /\ MaxMail \in Nat \ {0}
  /\ MaxCrashes \in Nat
  /\ Office # Owner
  /\ Peers \cap {Office, Owner} = {}
  /\ Free \notin Procs /\ Orphan \notin Procs
  /\ Crashable \subseteq {Office, Owner}

VARIABLES
  disk,       \* the mailbox file
  lock,       \* its lock file
  gaveUp,     \* processes whose wait for the orphaned lock has timed out
  mem,        \* process -> its #mail entry for this mailbox
  chain,      \* process -> its #persistChain: the mail each waiting persist is for
  persist,    \* process -> its persist in flight
  office,     \* the parent: "down", "booting" or "up"
  owner,      \* the child's place in hydrate and #workerLoop
  cur,        \* the mail the child works on, 0 when none
  awaiting,   \* peer -> the mail its mail.ask waits for, 0 when none
  scan,       \* #scanSettledMail: its place, its copy of the file, its wrap-up
  posted,     \* done events the child has POSTed and the parent has not read
  ingest,     \* mail -> ingestChildEvent's place and its copy of the file
  wrapped,    \* the parent's #wrappedMailIds
  wrapping,   \* mails whose wrap-up runs on the hub session
  asks,       \* mails with nested = true
  next,       \* the number the next mail gets
  crashes,    \* how many processes have died
  failed,     \* processes that ever lost a persist (history)
  accepted,   \* mails whose dispatch has returned to its caller
  reported    \* mail -> how often its done event was emitted, saturating at 2

vars == <<disk, lock, gaveUp, failed, mem, chain, persist, office, owner, cur, awaiting, scan,
          posted, ingest, wrapped, wrapping, asks, next, crashes, accepted, reported>>

(***************************************************************************)
(* mergeMailboxItems, pushMail                                             *)
(***************************************************************************)
Rank == [absent |-> 0, queued |-> 1, running |-> 2, done |-> 3, failed |-> 3]

\* Mutant: the cap is off by one.
Trim_OneLess(box) ==
  [m \in Mails |->
     IF Cardinality({k \in Mails : k > m /\ box[k] # "absent"}) < MaxMail - 1
     THEN box[m] ELSE "absent"]

\* Keeps the MaxMail newest mails, whatever their status.
Trim(box) ==
  [m \in Mails |->
     IF Cardinality({k \in Mails : k > m /\ box[k] # "absent"}) < MaxMail
     THEN box[m] ELSE "absent"]

\* Mutant: memory wins wherever it has the mail.
Merge_MemoryWins(file, memory) ==
  Trim([m \in Mails |-> IF memory[m] # "absent" THEN memory[m] ELSE file[m]])

Merge(file, memory) ==
  Trim([m \in Mails |-> IF Rank[memory[m]] >= Rank[file[m]]
                        THEN memory[m] ELSE file[m]])

\* Mutant: a status the mailbox does not know.
Push_Unknown(box, m) == Trim([box EXCEPT ![m] = "new"])

Push(box, m) == Trim([box EXCEPT ![m] = "queued"])

\* hydrate: what a run that was interrupted left "running" is queued again.
Reconciled(box) ==
  [m \in Mails |-> IF box[m] = "running" THEN "queued" ELSE box[m]]

SettledIn(box) == {m \in Mails : box[m] \in Settled}
QueuedIn(box) == {m \in Mails : box[m] = "queued"}
IsOldest(m, S) == m \in S /\ \A k \in S : m <= k

(***************************************************************************)
(* A persist in flight.  It captures the #mail array, and the merge reads  *)
(* that array: while no one replaces the #mail entry the array is the      *)
(* entry itself (live), afterwards it is the copy left behind.             *)
(***************************************************************************)
NoPersist == [pc |-> "idle", live |-> FALSE, box |-> EmptyBox]
PersistState == [pc : {"idle", "captured", "merged"}, live : BOOLEAN, box : Box]

PersistSource(p) == IF persist[p].live THEN mem[p] ELSE persist[p].box
Detached(p) ==
  [persist EXCEPT ![p] = IF @.live THEN [pc |-> @.pc, live |-> FALSE, box |-> mem[p]]
                                   ELSE @]

\* this.#mail.set(id, box): replaces the entry under a captured array.
SetMail(p, box) ==
  /\ mem' = [mem EXCEPT ![p] = box]
  /\ persist' = Detached(p)

Quiet(p) == chain[p] = <<>> /\ persist[p].pc = "idle"

NoScan == [pc |-> "idle", box |-> EmptyBox, mail |-> 0]
NoIngest == [pc |-> "idle", box |-> EmptyBox]
AtMostTwo(n) == IF n < 2 THEN n + 1 ELSE 2

Init ==
  /\ disk = EmptyBox
  /\ lock = Free /\ gaveUp = {} /\ failed = {}
  /\ mem = [p \in Procs |-> EmptyBox]
  /\ chain = [p \in Procs |-> <<>>]
  /\ persist = [p \in Procs |-> NoPersist]
  /\ office = "down" /\ owner = "down"
  /\ cur = 0
  /\ awaiting = [p \in Peers |-> 0]
  /\ scan = NoScan
  /\ posted = {}
  /\ ingest = [m \in Mails |-> NoIngest]
  /\ wrapped = {} /\ wrapping = {} /\ asks = {}
  /\ next = 1 /\ crashes = 0
  /\ accepted = {}
  /\ reported = [m \in Mails |-> 0]

(***************************************************************************)
(* Dispatch: delegate (the parent), ask and sendFrom (a peer).             *)
(* The mail is pushed at once; the call returns when its persist is over.  *)
(***************************************************************************)
Dispatch(p, isAsk) ==
  /\ next <= NumMails
  /\ office = "up"
  /\ mem' = [mem EXCEPT ![p] = Push(mem[p], next)]
  /\ chain' = [chain EXCEPT ![p] = Append(chain[p], next)]
  /\ asks' = IF isAsk THEN asks \cup {next} ELSE asks
  /\ next' = next + 1
  /\ UNCHANGED <<disk, lock, gaveUp, failed, persist, office, owner, cur, scan, posted, ingest,
                 wrapped, wrapping, crashes, accepted, reported>>

Delegate == Dispatch(Office, FALSE) /\ UNCHANGED awaiting

SendFrom(p) ==
  /\ Quiet(p) /\ awaiting[p] = 0
  /\ Dispatch(p, FALSE)
  /\ UNCHANGED awaiting

Ask(p) ==
  /\ Quiet(p) /\ awaiting[p] = 0
  /\ Dispatch(p, TRUE)
  /\ awaiting' = [awaiting EXCEPT ![p] = next]

\* One round of #waitForMailSettled: reload the mailbox, look at the mail.
AskPoll(p) ==
  /\ awaiting[p] # 0 /\ Quiet(p)
  /\ SetMail(p, disk)
  /\ awaiting' = [awaiting EXCEPT ![p] = IF disk[awaiting[p]] \in Settled
                                         THEN 0 ELSE awaiting[p]]
  /\ UNCHANGED <<disk, lock, gaveUp, failed, chain, office, owner, cur, scan, posted, ingest,
                 wrapped, wrapping, asks, next, crashes, accepted, reported>>

\* The ask gives up; its mail stays in the mailbox.
AskTimeout(p) ==
  /\ awaiting[p] # 0 /\ Quiet(p)
  /\ awaiting' = [awaiting EXCEPT ![p] = 0]
  /\ UNCHANGED <<disk, lock, gaveUp, failed, mem, chain, persist, office, owner, cur, scan,
                 posted, ingest, wrapped, wrapping, asks, next, crashes,
                 accepted, reported>>

(***************************************************************************)
(* #persist.  The chain runs one task at a time: capture the array, take   *)
(* the lock and merge with the file, write the file and release.  Holding  *)
(* the lock, nobody else writes, so taking it is part of the merge step.   *)
(***************************************************************************)
PersistBegin(p) ==
  /\ chain[p] # <<>>
  /\ persist[p].pc = "idle"
  /\ persist' = [persist EXCEPT ![p] = [pc |-> "captured", live |-> TRUE, box |-> EmptyBox]]
  /\ UNCHANGED <<disk, lock, gaveUp, failed, mem, chain, office, owner, cur, awaiting, scan,
                 posted, ingest, wrapped, wrapping, asks, next, crashes,
                 accepted, reported>>

PersistMerge(p) ==
  /\ persist[p].pc = "captured"
  /\ lock = Free
  /\ lock' = p
  /\ LET merged == Merge(disk, PersistSource(p))
     IN  /\ mem' = [mem EXCEPT ![p] = merged]
         /\ persist' = [persist EXCEPT ![p] = [pc |-> "merged", live |-> FALSE, box |-> merged]]
  /\ UNCHANGED <<disk, gaveUp, failed, chain, office, owner, cur, awaiting,
                 scan, posted, ingest, wrapped, wrapping, asks, next, crashes,
                 accepted, reported>>

\* The persist is over, for better or worse: errors are logged and swallowed,
\* so a dispatch returns to its caller either way.
PersistReturns(p) ==
  /\ persist' = [persist EXCEPT ![p] = NoPersist]
  /\ chain' = [chain EXCEPT ![p] = Tail(chain[p])]
  /\ accepted' = IF p # Owner /\ Head(chain[p]) # 0
                 THEN accepted \cup {Head(chain[p])} ELSE accepted
  /\ UNCHANGED <<mem, office, owner, cur, awaiting, scan, posted, ingest,
                 wrapped, wrapping, asks, next, crashes, reported>>

PersistWrite(p) ==
  /\ persist[p].pc = "merged"
  /\ disk' = persist[p].box
  /\ lock' = Free
  /\ PersistReturns(p)
  /\ UNCHANGED <<gaveUp, failed>>

\* 60 s before the lock file of a dead holder: "file lock timeout".  Once per
\* process: a second wait would outlast SPIN_STALE_MS.
PersistFail(p) ==
  /\ persist[p].pc = "captured"
  /\ lock = Orphan
  /\ p \notin gaveUp
  /\ gaveUp' = gaveUp \cup {p}
  /\ failed' = failed \cup {p}
  /\ PersistReturns(p)
  /\ UNCHANGED <<disk, lock>>

\* A lock file older than SPIN_STALE_MS is unlinked by whoever finds it.
LockExpire ==
  /\ lock = Orphan
  /\ lock' = Free
  /\ gaveUp' = {}
  /\ UNCHANGED <<disk, failed, mem, chain, persist, office, owner, cur, awaiting, scan,
                 posted, ingest, wrapped, wrapping, asks, next, crashes,
                 accepted, reported>>

(***************************************************************************)
(* The child: hydrate, then #workerLoop -> #processQueuedMail -> #runLoop  *)
(* -> #settle for one mail after the other.                                *)
(***************************************************************************)
OwnerBoot ==
  /\ office = "up" /\ owner = "down"
  /\ owner' = "booting"
  /\ mem' = [mem EXCEPT ![Owner] = Reconciled(disk)]
  /\ chain' = [chain EXCEPT ![Owner] = IF Reconciled(disk) # disk THEN <<0>> ELSE <<>>]
  /\ UNCHANGED <<disk, lock, gaveUp, failed, persist, office, cur, awaiting, scan, posted,
                 ingest, wrapped, wrapping, asks, next, crashes, accepted, reported>>

OwnerReady ==
  /\ owner = "booting" /\ Quiet(Owner)
  /\ owner' = "idle"
  /\ UNCHANGED <<disk, lock, gaveUp, failed, mem, chain, persist, office, cur, awaiting, scan,
                 posted, ingest, wrapped, wrapping, asks, next, crashes,
                 accepted, reported>>

\* #workerLoop reloads the file, #processQueuedMail marks the oldest queued
\* mail running and persists that before it goes on.
TakeMail ==
  /\ owner = "idle"
  /\ \E m \in Mails :
       /\ IsOldest(m, QueuedIn(disk))
       /\ cur' = m
       /\ mem' = [mem EXCEPT ![Owner] = [disk EXCEPT ![m] = "running"]]
       /\ chain' = [chain EXCEPT ![Owner] = <<m>>]
  /\ owner' = "starting"
  /\ UNCHANGED <<disk, lock, gaveUp, failed, persist, office, awaiting, scan, posted, ingest,
                 wrapped, wrapping, asks, next, crashes, accepted, reported>>

StartChat ==
  /\ owner = "starting" /\ Quiet(Owner)
  /\ owner' = "chatting"
  /\ UNCHANGED <<disk, lock, gaveUp, failed, mem, chain, persist, office, cur, awaiting, scan,
                 posted, ingest, wrapped, wrapping, asks, next, crashes,
                 accepted, reported>>

\* #runLoop ends with an outcome; #settle sets it on the mail object and
\* persists.  A mail the merge has trimmed away is no longer in the array.
Settle(outcome) ==
  /\ owner = "chatting"
  /\ owner' = "settling"
  /\ mem' = [mem EXCEPT ![Owner][cur] = IF mem[Owner][cur] = "absent"
                                        THEN "absent" ELSE outcome]
  /\ chain' = [chain EXCEPT ![Owner] = <<cur>>]
  /\ UNCHANGED <<disk, lock, gaveUp, failed, persist, office, cur, awaiting, scan, posted,
                 ingest, wrapped, wrapping, asks, next, crashes, accepted, reported>>

\* The done event is POSTed, best effort; an answer to a mail.ask has none.
Publish(arrives) ==
  /\ owner = "settling" /\ Quiet(Owner)
  /\ posted' = IF cur \notin asks /\ arrives THEN posted \cup {cur} ELSE posted
  /\ owner' = "idle"
  /\ cur' = 0
  /\ UNCHANGED <<disk, lock, gaveUp, failed, mem, chain, persist, office, awaiting, scan,
                 ingest, wrapped, wrapping, asks, next, crashes, accepted, reported>>

(***************************************************************************)
(* The parent: hydrate, the 200 ms watcher, the POST handler, wrap-ups.    *)
(***************************************************************************)
OfficeBoot ==
  /\ office = "down"
  /\ office' = "booting"
  /\ mem' = [mem EXCEPT ![Office] = Reconciled(disk)]
  /\ chain' = [chain EXCEPT ![Office] = IF Reconciled(disk) # disk THEN <<0>> ELSE <<>>]
  /\ wrapped' = SettledIn(disk)
  /\ UNCHANGED <<disk, lock, gaveUp, failed, persist, owner, cur, awaiting, scan, posted,
                 ingest, wrapping, asks, next, crashes, accepted, reported>>

OfficeReady ==
  /\ office = "booting" /\ Quiet(Office)
  /\ office' = "up"
  /\ UNCHANGED <<disk, lock, gaveUp, failed, mem, chain, persist, owner, cur, awaiting, scan,
                 posted, ingest, wrapped, wrapping, asks, next, crashes,
                 accepted, reported>>

ScanRead ==
  /\ office = "up"
  /\ scan.pc = "idle"
  /\ scan' = [pc |-> "read", box |-> disk, mail |-> 0]
  /\ UNCHANGED <<disk, lock, gaveUp, failed, mem, chain, persist, office, owner, cur, awaiting,
                 posted, ingest, wrapped, wrapping, asks, next, crashes,
                 accepted, reported>>

ScanMerge ==
  /\ scan.pc = "read"
  /\ SetMail(Office, Merge(scan.box, mem[Office]))
  /\ scan' = [scan EXCEPT !.pc = "loop"]
  /\ UNCHANGED <<disk, lock, gaveUp, failed, chain, office, owner, cur, awaiting, posted,
                 ingest, wrapped, wrapping, asks, next, crashes, accepted, reported>>

\* Mutant: #wrappedMailIds is not looked at.
Unreported_Again(box) == SettledIn(box) \ asks

\* Mutant: failures are not reported.
Unreported_DoneOnly(box) == ({m \in Mails : box[m] = "done"} \ asks) \ wrapped

Unreported(box) == (SettledIn(box) \ asks) \ wrapped

ScanWrap ==
  /\ scan.pc = "loop" /\ scan.mail = 0
  /\ \E m \in Mails :
       /\ IsOldest(m, Unreported(scan.box))
       /\ wrapped' = wrapped \cup {m}
       /\ wrapping' = wrapping \cup {m}
       /\ scan' = [scan EXCEPT !.mail = m]
  /\ UNCHANGED <<disk, lock, gaveUp, failed, mem, chain, persist, office, owner, cur, awaiting,
                 posted, ingest, asks, next, crashes, accepted, reported>>

ScanEnd ==
  /\ scan.pc = "loop" /\ scan.mail = 0
  /\ Unreported(scan.box) = {}
  /\ scan' = NoScan
  /\ UNCHANGED <<disk, lock, gaveUp, failed, mem, chain, persist, office, owner, cur, awaiting,
                 posted, ingest, wrapped, wrapping, asks, next, crashes,
                 accepted, reported>>

\* ingestChildEvent awaits the file and then replaces the #mail entry by it.
IngestRead(m) ==
  /\ office = "up"
  /\ m \in posted
  /\ posted' = posted \ {m}
  /\ ingest' = [ingest EXCEPT ![m] = [pc |-> "read", box |-> disk]]
  /\ UNCHANGED <<disk, lock, gaveUp, failed, mem, chain, persist, office, owner, cur, awaiting,
                 scan, wrapped, wrapping, asks, next, crashes, accepted, reported>>

IngestSet(m) ==
  /\ ingest[m].pc = "read"
  /\ SetMail(Office, ingest[m].box)
  /\ ingest' = [ingest EXCEPT ![m] = NoIngest]
  /\ IF m \in Unreported(ingest[m].box)
     THEN wrapped' = wrapped \cup {m} /\ wrapping' = wrapping \cup {m}
     ELSE UNCHANGED <<wrapped, wrapping>>
  /\ reported' = IF ingest[m].box[m] = "absent"
                 THEN [reported EXCEPT ![m] = AtMostTwo(reported[m])] ELSE reported
  /\ UNCHANGED <<disk, lock, gaveUp, failed, chain, office, owner, cur, awaiting, scan, posted,
                 asks, next, crashes, accepted>>

\* #wrapUpOnHub returns, with the hub's words or the fallback text; the done
\* event goes out and the watcher's loop, if it was waiting, moves on.
WrapUpEnd(m) ==
  /\ m \in wrapping
  /\ wrapping' = wrapping \ {m}
  /\ reported' = [reported EXCEPT ![m] = AtMostTwo(reported[m])]
  /\ scan' = IF scan.mail = m THEN [scan EXCEPT !.mail = 0] ELSE scan
  /\ UNCHANGED <<disk, lock, gaveUp, failed, mem, chain, persist, office, owner, cur, awaiting,
                 posted, ingest, wrapped, asks, next, crashes, accepted>>

(***************************************************************************)
(* Deaths.  A process takes its memory along; the file stays.  The parent  *)
(* is the container's first process: the children die with it.             *)
(***************************************************************************)
\* flock goes with its holder, the spin lock's file stays behind.
LockAfterDeathOf(P) == IF lock \in P THEN {Free, Orphan} ELSE {lock}

Die(P) ==
  /\ crashes < MaxCrashes
  /\ crashes' = crashes + 1
  /\ mem' = [p \in Procs |-> IF p \in P THEN EmptyBox ELSE mem[p]]
  /\ chain' = [p \in Procs |-> IF p \in P THEN <<>> ELSE chain[p]]
  /\ persist' = [p \in Procs |-> IF p \in P THEN NoPersist ELSE persist[p]]
  /\ lock' \in LockAfterDeathOf(P)
  /\ owner' = "down"
  /\ cur' = 0
  /\ UNCHANGED <<disk, gaveUp, failed, asks, next, accepted, reported>>

OwnerCrash ==
  /\ Owner \in Crashable /\ owner # "down"
  /\ Die({Owner})
  /\ UNCHANGED <<office, awaiting, scan, posted, ingest, wrapped, wrapping>>

OfficeCrash ==
  /\ Office \in Crashable /\ office # "down"
  /\ Die(Procs)
  /\ office' = "down"
  /\ awaiting' = [p \in Peers |-> 0]
  /\ scan' = NoScan
  /\ posted' = {}
  /\ ingest' = [m \in Mails |-> NoIngest]
  /\ wrapped' = {} /\ wrapping' = {}

PersistStep(p) == PersistBegin(p) \/ PersistMerge(p) \/ PersistWrite(p) \/ PersistFail(p)

OwnerStep ==
  \/ OwnerBoot \/ OwnerReady \/ TakeMail \/ StartChat
  \/ \E outcome \in Settled : Settle(outcome)
  \/ \E arrives \in BOOLEAN : Publish(arrives)

ScanStep == ScanRead \/ ScanMerge \/ ScanWrap \/ ScanEnd

Next ==
  \/ Delegate
  \/ \E p \in Peers : SendFrom(p) \/ Ask(p) \/ AskPoll(p) \/ AskTimeout(p)
  \/ \E p \in Procs : PersistStep(p)
  \/ LockExpire
  \/ OwnerStep
  \/ OfficeBoot \/ OfficeReady
  \/ ScanStep
  \/ \E m \in Mails : IngestRead(m) \/ IngestSet(m) \/ WrapUpEnd(m)
  \/ OwnerCrash \/ OfficeCrash

Spec == Init /\ [][Next]_vars

\* Timers and promises fire: persists, the loops, boots and wrap-ups go on.
\* Nobody has to dispatch, nothing has to die, no POST has to arrive.
Fairness ==
  /\ \A p \in Procs : WF_vars(PersistStep(p))
  /\ WF_vars(LockExpire)
  /\ WF_vars(OwnerStep)
  /\ WF_vars(OfficeBoot \/ OfficeReady)
  /\ WF_vars(ScanStep)
  /\ \A m \in Mails : WF_vars(IngestRead(m) \/ IngestSet(m)) /\ WF_vars(WrapUpEnd(m))

FairSpec == Spec /\ Fairness

(***************************************************************************)
(* Properties                                                              *)
(***************************************************************************)

\* Every variable keeps to its domain.
TypeOK ==
  /\ disk \in Box
  /\ lock \in Procs \cup {Free, Orphan}
  /\ gaveUp \subseteq Procs /\ failed \subseteq Procs
  /\ mem \in [Procs -> Box]
  /\ chain \in [Procs -> Seq(Mails \cup {0})]
  /\ persist \in [Procs -> PersistState]
  /\ office \in {"down", "booting", "up"}
  /\ owner \in {"down", "booting", "idle", "starting", "chatting", "settling"}
  /\ cur \in Mails \cup {0}
  /\ awaiting \in [Peers -> Mails \cup {0}]
  /\ scan \in [pc : {"idle", "read", "loop"}, box : Box, mail : Mails \cup {0}]
  /\ posted \subseteq Mails
  /\ ingest \in [Mails -> [pc : {"idle", "read"}, box : Box]]
  /\ wrapped \subseteq Mails /\ wrapping \subseteq Mails /\ asks \subseteq Mails
  /\ next \in 1..(NumMails + 1)
  /\ crashes \in 0..MaxCrashes
  /\ accepted \subseteq Mails
  /\ reported \in [Mails -> 0..2]

\* While its chat runs a mail stands in the file as running: no copy of another process
\* takes it back or settles it ("mail.status = 'running'; await this.#persist", then the
\* chat).  Only a full mailbox may have trimmed it, and a child that has lost a persist to
\* an orphaned lock works on a mail the others may still see queued.
ChatIsOnFile ==
  owner = "chatting" =>
    \/ disk[cur] \in {"running", "absent"}
    \/ disk[cur] = "queued" /\ Owner \in failed

\* No write of the file loses a mail or takes one back to an earlier status,
\* from however stale a copy the writer merges (#persist, mergeMailboxItems).
FileNeverRegresses ==
  [][\A m \in Mails : Rank[disk'[m]] >= Rank[disk[m]]]_vars

\* Inside #persist: a task in flight is the head of its chain, only the holder
\* of the lock has merged and not yet written, and the child's loop leaves no
\* persist behind when it moves on.
PersistDiscipline ==
  /\ \A p \in Procs : persist[p].pc # "idle" => chain[p] # <<>>
  /\ \A p \in Procs : persist[p].live => persist[p].pc = "captured"
  /\ \A p \in Procs : persist[p].pc = "merged" <=> lock = p
  /\ owner \in {"down", "idle", "chatting"} => Quiet(Owner)
  /\ office = "down" => Quiet(Office)

\* Between TakeMail and Publish the child has a mail to work on.
WorkerHasMail == owner \in {"starting", "chatting", "settling"} => cur # 0

\* What waits to be written is nowhere behind the file.
MergedIsOnward ==
  \A p \in Procs : persist[p].pc = "merged" =>
     \A m \in Mails : Rank[persist[p].box[m]] >= Rank[disk[m]]

\* The mailbox implements the abstract ledger: statuses only move on, an
\* outcome is final, and a completion is told once and only when it is filed.
Ledger == INSTANCE MailLedger WITH ledger <- disk, told <- reported, private <- asks
ImplementsLedger == Ledger!Spec

\* A dispatch that has returned put its mail into the file ("writes the mail
\* into the mailbox and wakes the colleague's worker", delegate).
AcceptedIsOnFile == \A m \in accepted : disk[m] # "absent"

\* Every mail in the file is worked off.
FiledIsSettled == \A m \in Mails : disk[m] = "queued" ~> disk[m] \in Settled

\* A mail that a death interrupted is retried (hydrate, #reconcile).
RunningIsSettled == \A m \in Mails : disk[m] = "running" ~> disk[m] \in Settled

\* Every settled mail that is not an ask is reported, though POSTs get lost.
SettledIsReported ==
  \A m \in Mails : (disk[m] \in Settled /\ m \notin asks) ~> reported[m] > 0

=============================================================================
