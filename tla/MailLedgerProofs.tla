-------------------------- MODULE MailLedgerProofs --------------------------
(***************************************************************************)
(* ColleagueMailbox implements MailLedger, and a mail stands as running in *)
(* the file while its chat runs, for any number of mails, peers and deaths *)
(* below the capacity.                                                     *)
(***************************************************************************)
EXTENDS ColleagueMailboxProofs
USE MailboxAssumption

(***************************************************************************)
(* The parts of the inductive invariant, on top of those of                *)
(* ColleagueMailboxProofs.                                                 *)
(***************************************************************************)
\* A copy of the mailbox knows no outcome that is not in the file.
Agrees(box) == \A m \in Mails : box[m] \in Settled => disk[m] = box[m]

\* A mail that has not been dispatched is in no copy of the mailbox.
NotYetWritten ==
  \A m \in Mails : m >= next =>
    /\ disk[m] = "absent" /\ scan.box[m] = "absent" /\ m \notin asks
    /\ \A p \in Procs : mem[p][m] = "absent" /\ persist[p].box[m] = "absent"
    /\ \A k \in Mails : ingest[k].box[m] = "absent"

\* Nothing replaces the child's #mail entry while its persist is under way.
WritesItsMemory ==
  /\ persist[Owner].pc = "captured" => persist[Owner].live
  /\ persist[Owner].box = IF persist[Owner].pc = "merged" THEN mem[Owner] ELSE EmptyBox

\* Only the child knows an outcome before the file does, and the file's stays.
OutcomesAgree ==
  /\ \A p \in Procs \ {Owner} : Agrees(mem[p]) /\ Agrees(persist[p].box)
  /\ Agrees(scan.box)
  /\ \A k \in Mails : Agrees(ingest[k].box)
  /\ \A m \in Mails : disk[m] \in Settled /\ mem[Owner][m] \in Settled => mem[Owner][m] = disk[m]

\* The child works on a mail without an outcome.
WorksOnOpenMail ==
  owner \in {"starting", "chatting"} => disk[cur] \notin Settled /\ mem[Owner][cur] \notin Settled

\* A done event is about a mail of the file.
PostsAreFiled ==
  /\ owner \in {"starting", "chatting", "settling"} => disk[cur] # "absent"
  /\ \A m \in posted : disk[m] # "absent"
  /\ \A m \in Mails : ingest[m].pc = "read" => ingest[m].box[m] # "absent"

\* What is told is settled, and a living parent remembers it.
ToldOnce ==
  /\ \A m \in wrapping : m \in wrapped /\ m \notin asks /\ disk[m] \in Settled /\ reported[m] = 0
  /\ \A m \in Mails : reported[m] > 0 => disk[m] \in Settled /\ (office = "down" \/ m \in wrapped)
  /\ office # "up" => scan.pc = "idle" /\ wrapping = {} /\ \A m \in Mails : ingest[m].pc = "idle"

\* The child chats only on a mail its own persist has marked running.
ChatPersisted == Owner \notin failed =>
  /\ owner = "chatting" => Rank[disk[cur]] >= 2
  /\ owner = "starting" =>
       /\ chain[Owner] \in {<<>>, <<cur>>}
       /\ chain[Owner] = <<>> => Rank[disk[cur]] >= 2
       /\ chain[Owner] # <<>> => Rank[mem[Owner][cur]] >= 2


(***************************************************************************)
(* What a step does to the copies of the mailbox.                          *)
(***************************************************************************)
\* What q's #mail entry may be replaced by.
ComesFrom(q) ==
  \/ mem'[q] \in {EmptyBox, disk, Reconciled(disk)} \cup {ingest[k].box : k \in Mails}
  \/ persist[q].pc = "captured" /\ mem'[q] = Merge(disk, PersistSource(q))
  \/ q = Office /\ mem'[q] = Merge(scan.box, mem[q])
  \/ q # Owner /\ next \in Mails /\ next' = next + 1 /\ mem'[q] = Push(mem[q], next)
  \/ /\ q = Owner
     /\ \E m \in Mails : disk[m] = "queued" /\ mem'[q] = [disk EXCEPT ![m] = "running"]
  \/ /\ q = Owner /\ owner = "chatting"
     /\ \E o \in Settled :
          mem'[q] = [mem[q] EXCEPT ![cur] = IF mem[q][cur] = "absent" THEN "absent" ELSE o]

\* Where a step takes the content of the watcher's, the POST handler's and q's
\* copies from.
CopiesFollow(q) ==
  /\ scan'.box \in {scan.box, disk, EmptyBox}
  /\ \A k \in Mails : ingest'[k].box \in {ingest[k].box, disk, EmptyBox}
  /\ persist'[q].box \in {persist[q].box, mem[q], mem'[q], EmptyBox}
  /\ \/ mem'[q] = mem[q]
     \/ disk' = disk /\ ComesFrom(q)

(***************************************************************************)
(* Ranks, merges and pushes                                                *)
(***************************************************************************)
\* A rank tells absence and outcomes from the rest.
LEMMA Ranks ==
  \A s \in Status : /\ Rank[s] \in 0..3
                    /\ Rank[s] = 3 <=> s \in Settled
                    /\ Rank[s] = 0 <=> s = "absent"
                    /\ Rank[s] >= 2 <=> s \in {"running", "done", "failed"}
BY DEF Rank, Status, Settled

\* The same of the mails of a mailbox.
LEMMA BoxRanks ==
  ASSUME NEW box \in Box, NEW m \in Mails
  PROVE  /\ Rank[box[m]] \in Nat
         /\ Rank[box[m]] = 0 <=> box[m] = "absent"
         /\ Rank[box[m]] >= 2 <=> box[m] \in {"running", "done", "failed"}
<1>1. box[m] \in Status
  BY DEF Box
<1> QED BY <1>1, Ranks

\* Below the capacity a merge takes the copy that is further on, memory's when
\* they are level (mergeMailboxItems).
LEMMA MergeTakesEither ==
  ASSUME NumMails <= MaxMail, NEW file \in Box, NEW memory \in Box, NEW m \in Mails
  PROVE  Merge(file, memory)[m] = IF Rank[memory[m]] >= Rank[file[m]]
                                  THEN memory[m] ELSE file[m]
<1> DEFINE joined == [k \in Mails |-> IF Rank[memory[k]] >= Rank[file[k]]
                                      THEN memory[k] ELSE file[k]]
<1>1. joined \in Box
  BY DEF Box
<1>2. Merge(file, memory) = joined
  BY <1>1, TrimKeepsAll DEF Merge
<1> QED BY <1>2

\* Below the capacity a push only adds a queued mail (pushMail).
LEMMA PushAdds ==
  ASSUME NumMails <= MaxMail, NEW box \in Box, NEW m \in Mails
  PROVE  Push(box, m) = [box EXCEPT ![m] = "queued"]
<1>1. [box EXCEPT ![m] = "queued"] \in Box
  BY DEF Box, Status
<1> QED BY <1>1, TrimKeepsAll DEF Push

\* Replacing a #mail entry leaves its old content, or nothing new, behind.
LEMMA DetachedCopies ==
  ASSUME TypeOK, NEW p \in Procs, NEW q \in Procs
  PROVE  /\ Detached(p)[q].box \in {mem[q], persist[q].box}
         /\ q # p => Detached(p)[q] = persist[q]
BY DEF Detached, TypeOK

\* Where the content of every copy of the mailbox comes from, in any step.
LEMMA CopiesStep ==
  ASSUME TypeOK, [Next]_vars, NEW q \in Procs
  PROVE  CopiesFollow(q)
<1> USE DEF TypeOK, PersistState, Procs, Mails, CopiesFollow, ComesFrom
<1>1. ASSUME Delegate PROVE CopiesFollow(q)
  BY <1>1 DEF Delegate, Dispatch
<1>2. ASSUME NEW p \in Peers, SendFrom(p) PROVE CopiesFollow(q)
  BY <1>2 DEF SendFrom, Dispatch
<1>3. ASSUME NEW p \in Peers, Ask(p) PROVE CopiesFollow(q)
  BY <1>3 DEF Ask, Dispatch
<1>4. ASSUME NEW p \in Peers, AskPoll(p) PROVE CopiesFollow(q)
  BY <1>4, DetachedCopies DEF AskPoll, SetMail
<1>5. ASSUME NEW p \in Peers, AskTimeout(p) PROVE CopiesFollow(q)
  BY <1>5 DEF AskTimeout
<1>6. ASSUME NEW p \in Procs, PersistBegin(p) PROVE CopiesFollow(q)
  BY <1>6 DEF PersistBegin
<1>7. ASSUME NEW p \in Procs, PersistMerge(p) PROVE CopiesFollow(q)
  BY <1>7 DEF PersistMerge
<1>8. ASSUME NEW p \in Procs, PersistWrite(p) PROVE CopiesFollow(q)
  BY <1>8 DEF PersistWrite, PersistReturns, NoPersist
<1>9. ASSUME NEW p \in Procs, PersistFail(p) PROVE CopiesFollow(q)
  BY <1>9 DEF PersistFail, PersistReturns, NoPersist
<1>10. ASSUME LockExpire PROVE CopiesFollow(q)
  BY <1>10 DEF LockExpire
<1>11. ASSUME OwnerBoot PROVE CopiesFollow(q)
  BY <1>11 DEF OwnerBoot
<1>12. ASSUME OwnerReady PROVE CopiesFollow(q)
  BY <1>12 DEF OwnerReady
<1>13. ASSUME TakeMail PROVE CopiesFollow(q)
  BY <1>13 DEF TakeMail, IsOldest, QueuedIn, Settled
<1>14. ASSUME StartChat PROVE CopiesFollow(q)
  BY <1>14 DEF StartChat
<1>15. ASSUME NEW o \in Settled, Settle(o) PROVE CopiesFollow(q)
  BY <1>15 DEF Settle
<1>16. ASSUME NEW a \in BOOLEAN, Publish(a) PROVE CopiesFollow(q)
  BY <1>16 DEF Publish
<1>17. ASSUME OfficeBoot PROVE CopiesFollow(q)
  BY <1>17 DEF OfficeBoot, SettledIn
<1>18. ASSUME OfficeReady PROVE CopiesFollow(q)
  BY <1>18 DEF OfficeReady
<1>19. ASSUME ScanRead PROVE CopiesFollow(q)
  BY <1>19 DEF ScanRead
<1>20. ASSUME ScanMerge PROVE CopiesFollow(q)
  BY <1>20, DetachedCopies DEF ScanMerge, SetMail
<1>21. ASSUME ScanWrap PROVE CopiesFollow(q)
  BY <1>21 DEF ScanWrap, IsOldest, Unreported, SettledIn
<1>22. ASSUME ScanEnd PROVE CopiesFollow(q)
  BY <1>22 DEF ScanEnd, NoScan
<1>23. ASSUME NEW m \in Mails, IngestRead(m) PROVE CopiesFollow(q)
  BY <1>23 DEF IngestRead
<1>24. ASSUME NEW m \in Mails, IngestSet(m) PROVE CopiesFollow(q)
  BY <1>24, DetachedCopies DEF IngestSet, SetMail, NoIngest, Unreported, SettledIn
<1>25. ASSUME NEW m \in Mails, WrapUpEnd(m) PROVE CopiesFollow(q)
  BY <1>25 DEF WrapUpEnd
<1>26. ASSUME OwnerCrash PROVE CopiesFollow(q)
  BY <1>26 DEF OwnerCrash, Die, LockAfterDeathOf, NoPersist
<1>27. ASSUME OfficeCrash PROVE CopiesFollow(q)
  BY <1>27 DEF OfficeCrash, Die, LockAfterDeathOf, NoPersist, NoScan, NoIngest
<1>28. CASE UNCHANGED vars
  BY <1>28 DEF vars
<1> QED
  BY <1>1, <1>2, <1>3, <1>4, <1>5, <1>6, <1>7, <1>8, <1>9, <1>10, <1>11, <1>12, <1>13, <1>14,
     <1>15, <1>16, <1>17, <1>18, <1>19, <1>20, <1>21, <1>22, <1>23, <1>24, <1>25, <1>26, <1>27,
     <1>28
     DEF Next, PersistStep, OwnerStep, ScanStep

\* The child takes a queued mail and marks its own copy of it running.
LEMMA TakesQueuedMail ==
  ASSUME TypeOK, TakeMail
  PROVE  \E m \in Mails : /\ disk[m] = "queued" /\ cur' = m
                          /\ mem'[Owner][m] = "running" /\ chain'[Owner] = <<m>>
<1>1. PICK m \in Mails : /\ disk[m] = "queued" /\ cur' = m
                         /\ mem' = [mem EXCEPT ![Owner] = [disk EXCEPT ![m] = "running"]]
                         /\ chain' = [chain EXCEPT ![Owner] = <<m>>]
  BY DEF TakeMail, IsOldest, QueuedIn
<1>2. mem'[Owner] = [disk EXCEPT ![m] = "running"] /\ chain'[Owner] = <<m>>
  BY <1>1 DEF TypeOK, Procs
<1>3. mem'[Owner][m] = "running"
  BY <1>2 DEF TypeOK, Box
<1> QED BY <1>1, <1>2, <1>3

(***************************************************************************)
(* One lemma per part: every step keeps it.                                *)
(***************************************************************************)
\* A write of the file keeps every outcome, and only the child's brings a new one.
LEMMA OutcomeIsFinal ==
  ASSUME TypeOK, PersistDiscipline, MergedIsOnward, OutcomesAgree, WritesItsMemory, [Next]_vars
  PROVE  /\ \A m \in Mails : Rank[disk'[m]] >= Rank[disk[m]]
         /\ \A m \in Mails : disk[m] \in Settled => disk'[m] = disk[m]
         /\ \A m \in Mails : disk'[m] \in Settled =>
              \/ disk'[m] = disk[m]
              \/ persist[Owner].pc = "merged" /\ mem[Owner] = disk'
<1>0. \A m \in Mails : disk[m] \in Status
  BY DEF TypeOK, Box
<1>1. CASE disk' = disk
  BY <1>0, <1>1, Ranks
<1>2. ASSUME NEW p \in Procs, persist[p].pc = "merged", disk' = persist[p].box
      PROVE  /\ \A m \in Mails : Rank[disk'[m]] >= Rank[disk[m]]
             /\ \A m \in Mails : disk[m] \in Settled => disk'[m] = disk[m]
             /\ \A m \in Mails : disk'[m] \in Settled =>
                  \/ disk'[m] = disk[m]
                  \/ persist[Owner].pc = "merged" /\ mem[Owner] = disk'
  <2>1. \A m \in Mails : Rank[disk'[m]] >= Rank[disk[m]]
    BY <1>2 DEF MergedIsOnward
  <2>2. \A m \in Mails : disk'[m] \in Status
    BY <1>2 DEF TypeOK, PersistState, Box
  <2>3. \A m \in Mails : disk[m] \in Settled => disk'[m] \in Settled
    BY <1>0, <2>1, <2>2, Ranks
  <2>4. CASE p = Owner
    BY <1>2, <2>1, <2>3, <2>4 DEF WritesItsMemory, OutcomesAgree
  <2>5. CASE p # Owner
    <3>1. \A m \in Mails : disk'[m] \in Settled => disk'[m] = disk[m]
      BY <1>2, <2>5 DEF OutcomesAgree, Agrees
    <3> QED BY <2>1, <2>3, <3>1
  <2> QED BY <2>4, <2>5
<1> QED BY <1>1, <1>2, OnlyWriteTouchesFile

\* The child's own persist writes what its #mail entry holds.
LEMMA WritesItsMemoryStep ==
  ASSUME TypeOK, PersistDiscipline, WritesItsMemory, [Next]_vars
  PROVE  WritesItsMemory'
<1> USE DEF TypeOK, PersistState, PersistDiscipline, WritesItsMemory, Procs, Quiet
<1>1. ASSUME Delegate PROVE WritesItsMemory'
  BY <1>1 DEF Delegate, Dispatch
<1>2. ASSUME NEW p \in Peers, SendFrom(p) PROVE WritesItsMemory'
  BY <1>2 DEF SendFrom, Dispatch
<1>3. ASSUME NEW p \in Peers, Ask(p) PROVE WritesItsMemory'
  BY <1>3 DEF Ask, Dispatch
<1>4. ASSUME NEW p \in Peers, AskPoll(p) PROVE WritesItsMemory'
  BY <1>4, DetachedCopies DEF AskPoll, SetMail
<1>5. ASSUME NEW p \in Peers, AskTimeout(p) PROVE WritesItsMemory'
  BY <1>5 DEF AskTimeout
<1>6. ASSUME NEW p \in Procs, PersistBegin(p) PROVE WritesItsMemory'
  BY <1>6 DEF PersistBegin
<1>7. ASSUME NEW p \in Procs, PersistMerge(p) PROVE WritesItsMemory'
  BY <1>7 DEF PersistMerge
<1>8. ASSUME NEW p \in Procs, PersistWrite(p) PROVE WritesItsMemory'
  BY <1>8 DEF PersistWrite, PersistReturns, NoPersist
<1>9. ASSUME NEW p \in Procs, PersistFail(p) PROVE WritesItsMemory'
  BY <1>9 DEF PersistFail, PersistReturns, NoPersist
<1>10. ASSUME LockExpire PROVE WritesItsMemory'
  BY <1>10 DEF LockExpire
<1>11. ASSUME OwnerBoot PROVE WritesItsMemory'
  BY <1>11 DEF OwnerBoot
<1>12. ASSUME OwnerReady PROVE WritesItsMemory'
  BY <1>12 DEF OwnerReady
<1>13. ASSUME TakeMail PROVE WritesItsMemory'
  BY <1>13 DEF TakeMail, IsOldest, QueuedIn, Settled
<1>14. ASSUME StartChat PROVE WritesItsMemory'
  BY <1>14 DEF StartChat
<1>15. ASSUME NEW o \in Settled, Settle(o) PROVE WritesItsMemory'
  BY <1>15 DEF Settle
<1>16. ASSUME NEW a \in BOOLEAN, Publish(a) PROVE WritesItsMemory'
  BY <1>16 DEF Publish
<1>17. ASSUME OfficeBoot PROVE WritesItsMemory'
  BY <1>17 DEF OfficeBoot, SettledIn
<1>18. ASSUME OfficeReady PROVE WritesItsMemory'
  BY <1>18 DEF OfficeReady
<1>19. ASSUME ScanRead PROVE WritesItsMemory'
  BY <1>19 DEF ScanRead
<1>20. ASSUME ScanMerge PROVE WritesItsMemory'
  BY <1>20, DetachedCopies DEF ScanMerge, SetMail
<1>21. ASSUME ScanWrap PROVE WritesItsMemory'
  BY <1>21 DEF ScanWrap, IsOldest, Unreported, SettledIn
<1>22. ASSUME ScanEnd PROVE WritesItsMemory'
  BY <1>22 DEF ScanEnd, NoScan
<1>23. ASSUME NEW m \in Mails, IngestRead(m) PROVE WritesItsMemory'
  BY <1>23 DEF IngestRead
<1>24. ASSUME NEW m \in Mails, IngestSet(m) PROVE WritesItsMemory'
  BY <1>24, DetachedCopies DEF IngestSet, SetMail, NoIngest, Unreported, SettledIn
<1>25. ASSUME NEW m \in Mails, WrapUpEnd(m) PROVE WritesItsMemory'
  BY <1>25 DEF WrapUpEnd
<1>26. ASSUME OwnerCrash PROVE WritesItsMemory'
  BY <1>26 DEF OwnerCrash, Die, LockAfterDeathOf, NoPersist
<1>27. ASSUME OfficeCrash PROVE WritesItsMemory'
  BY <1>27 DEF OfficeCrash, Die, LockAfterDeathOf, NoPersist, NoScan, NoIngest
<1>28. CASE UNCHANGED vars
  BY <1>28 DEF vars
<1> QED
  BY <1>1, <1>2, <1>3, <1>4, <1>5, <1>6, <1>7, <1>8, <1>9, <1>10, <1>11, <1>12, <1>13, <1>14,
     <1>15, <1>16, <1>17, <1>18, <1>19, <1>20, <1>21, <1>22, <1>23, <1>24, <1>25, <1>26, <1>27,
     <1>28
     DEF Next, PersistStep, OwnerStep, ScanStep

\* While the child works on a mail nobody else settles it.
LEMMA WorksOnOpenMailStep ==
  ASSUME NumMails <= MaxMail, TypeOK, PersistDiscipline, MergedIsOnward, OutcomesAgree,
         WritesItsMemory, WorkerHasMail, WorksOnOpenMail, [Next]_vars
  PROVE  WorksOnOpenMail'
<1> USE DEF TypeOK, PersistState, WorksOnOpenMail
<1>1. ASSUME Delegate PROVE WorksOnOpenMail'
  BY <1>1 DEF Delegate, Dispatch
<1>2. ASSUME NEW p \in Peers, SendFrom(p) PROVE WorksOnOpenMail'
  BY <1>2 DEF SendFrom, Dispatch
<1>3. ASSUME NEW p \in Peers, Ask(p) PROVE WorksOnOpenMail'
  BY <1>3 DEF Ask, Dispatch
<1>4. ASSUME NEW p \in Peers, AskPoll(p) PROVE WorksOnOpenMail'
  BY <1>4 DEF AskPoll, SetMail
<1>5. ASSUME NEW p \in Peers, AskTimeout(p) PROVE WorksOnOpenMail'
  BY <1>5 DEF AskTimeout
<1>6. ASSUME NEW p \in Procs, PersistBegin(p) PROVE WorksOnOpenMail'
  BY <1>6 DEF PersistBegin
<1>7. ASSUME NEW p \in Procs, PersistMerge(p) PROVE WorksOnOpenMail'
  <2>1. CASE p = Owner /\ owner \in {"starting", "chatting"}
    <3>1. PersistSource(p) = mem[Owner]
      BY <1>7, <2>1 DEF PersistMerge, PersistSource, WritesItsMemory, Procs
    <3>2. cur \in Mails
      BY <2>1 DEF WorkerHasMail
    <3>3. mem'[Owner][cur] \in {mem[Owner][cur], disk[cur]}
      BY <1>7, <2>1, <3>1, <3>2, MergeTakesEither DEF PersistMerge
    <3> QED BY <1>7, <2>1, <3>3 DEF PersistMerge
  <2> QED BY <1>7, <2>1 DEF PersistMerge
<1>8. ASSUME NEW p \in Procs, PersistWrite(p) PROVE WorksOnOpenMail'
  <2>1. CASE owner \in {"starting", "chatting"}
    <3>1. cur \in Mails
      BY <2>1 DEF WorkerHasMail
    <3> QED BY <1>8, <2>1, <3>1, OutcomeIsFinal DEF Next, PersistStep, PersistWrite, PersistReturns
  <2> QED BY <1>8, <2>1 DEF PersistWrite, PersistReturns
<1>9. ASSUME NEW p \in Procs, PersistFail(p) PROVE WorksOnOpenMail'
  BY <1>9 DEF PersistFail, PersistReturns, NoPersist
<1>10. ASSUME LockExpire PROVE WorksOnOpenMail'
  BY <1>10 DEF LockExpire
<1>11. ASSUME OwnerBoot PROVE WorksOnOpenMail'
  BY <1>11 DEF OwnerBoot
<1>12. ASSUME OwnerReady PROVE WorksOnOpenMail'
  BY <1>12 DEF OwnerReady
<1>13. ASSUME TakeMail PROVE WorksOnOpenMail'
  <2>1. PICK m \in Mails : disk[m] = "queued" /\ cur' = m /\ mem'[Owner][m] = "running"
    BY <1>13, TakesQueuedMail
  <2> QED BY <1>13, <2>1 DEF TakeMail, Settled
<1>14. ASSUME StartChat PROVE WorksOnOpenMail'
  BY <1>14 DEF StartChat
<1>15. ASSUME NEW o \in Settled, Settle(o) PROVE WorksOnOpenMail'
  BY <1>15 DEF Settle
<1>16. ASSUME NEW a \in BOOLEAN, Publish(a) PROVE WorksOnOpenMail'
  BY <1>16 DEF Publish
<1>17. ASSUME OfficeBoot PROVE WorksOnOpenMail'
  BY <1>17 DEF OfficeBoot, SettledIn
<1>18. ASSUME OfficeReady PROVE WorksOnOpenMail'
  BY <1>18 DEF OfficeReady
<1>19. ASSUME ScanRead PROVE WorksOnOpenMail'
  BY <1>19 DEF ScanRead
<1>20. ASSUME ScanMerge PROVE WorksOnOpenMail'
  BY <1>20 DEF ScanMerge, SetMail
<1>21. ASSUME ScanWrap PROVE WorksOnOpenMail'
  BY <1>21 DEF ScanWrap, IsOldest, Unreported, SettledIn
<1>22. ASSUME ScanEnd PROVE WorksOnOpenMail'
  BY <1>22 DEF ScanEnd, NoScan
<1>23. ASSUME NEW m \in Mails, IngestRead(m) PROVE WorksOnOpenMail'
  BY <1>23 DEF IngestRead
<1>24. ASSUME NEW m \in Mails, IngestSet(m) PROVE WorksOnOpenMail'
  BY <1>24 DEF IngestSet, SetMail, NoIngest, Unreported, SettledIn
<1>25. ASSUME NEW m \in Mails, WrapUpEnd(m) PROVE WorksOnOpenMail'
  BY <1>25 DEF WrapUpEnd
<1>26. ASSUME OwnerCrash PROVE WorksOnOpenMail'
  BY <1>26 DEF OwnerCrash, Die, LockAfterDeathOf, NoPersist
<1>27. ASSUME OfficeCrash PROVE WorksOnOpenMail'
  BY <1>27 DEF OfficeCrash, Die, LockAfterDeathOf, NoPersist, NoScan, NoIngest
<1>28. CASE UNCHANGED vars
  BY <1>28 DEF vars
<1> QED
  BY <1>1, <1>2, <1>3, <1>4, <1>5, <1>6, <1>7, <1>8, <1>9, <1>10, <1>11, <1>12, <1>13, <1>14,
     <1>15, <1>16, <1>17, <1>18, <1>19, <1>20, <1>21, <1>22, <1>23, <1>24, <1>25, <1>26, <1>27,
     <1>28
     DEF Next, PersistStep, OwnerStep, ScanStep

\* A POST is about a mail of the file, and the file loses none.
LEMMA PostsAreFiledStep ==
  ASSUME TypeOK, PersistDiscipline, MergedIsOnward, OutcomesAgree, WritesItsMemory, WorkerHasMail,
         PostsAreFiled, [Next]_vars
  PROVE  PostsAreFiled'
<1> USE DEF TypeOK, PersistState, PostsAreFiled
<1>1. ASSUME Delegate PROVE PostsAreFiled'
  BY <1>1 DEF Delegate, Dispatch
<1>2. ASSUME NEW p \in Peers, SendFrom(p) PROVE PostsAreFiled'
  BY <1>2 DEF SendFrom, Dispatch
<1>3. ASSUME NEW p \in Peers, Ask(p) PROVE PostsAreFiled'
  BY <1>3 DEF Ask, Dispatch
<1>4. ASSUME NEW p \in Peers, AskPoll(p) PROVE PostsAreFiled'
  BY <1>4 DEF AskPoll, SetMail
<1>5. ASSUME NEW p \in Peers, AskTimeout(p) PROVE PostsAreFiled'
  BY <1>5 DEF AskTimeout
<1>6. ASSUME NEW p \in Procs, PersistBegin(p) PROVE PostsAreFiled'
  BY <1>6 DEF PersistBegin
<1>7. ASSUME NEW p \in Procs, PersistMerge(p) PROVE PostsAreFiled'
  BY <1>7 DEF PersistMerge
<1>8. ASSUME NEW p \in Procs, PersistWrite(p) PROVE PostsAreFiled'
  <2>1. \A m \in Mails : disk[m] # "absent" => disk'[m] # "absent"
    <3>1. disk \in Box /\ disk' \in Box
      BY <1>8 DEF PersistWrite
    <3>2. \A m \in Mails : /\ Rank[disk[m]] \in Nat /\ Rank[disk'[m]] \in Nat
                           /\ disk[m] = "absent" <=> Rank[disk[m]] = 0
                           /\ disk'[m] = "absent" <=> Rank[disk'[m]] = 0
      BY <3>1, BoxRanks
    <3>3. \A m \in Mails : Rank[disk'[m]] >= Rank[disk[m]]
      BY OutcomeIsFinal
    <3> QED BY ONLY <3>2, <3>3
  <2> QED BY <1>8, <2>1 DEF PersistWrite, PersistReturns, WorkerHasMail
<1>9. ASSUME NEW p \in Procs, PersistFail(p) PROVE PostsAreFiled'
  BY <1>9 DEF PersistFail, PersistReturns, NoPersist
<1>10. ASSUME LockExpire PROVE PostsAreFiled'
  BY <1>10 DEF LockExpire
<1>11. ASSUME OwnerBoot PROVE PostsAreFiled'
  BY <1>11 DEF OwnerBoot
<1>12. ASSUME OwnerReady PROVE PostsAreFiled'
  BY <1>12 DEF OwnerReady
<1>13. ASSUME TakeMail PROVE PostsAreFiled'
  BY <1>13 DEF TakeMail, IsOldest, QueuedIn, Settled
<1>14. ASSUME StartChat PROVE PostsAreFiled'
  BY <1>14 DEF StartChat
<1>15. ASSUME NEW o \in Settled, Settle(o) PROVE PostsAreFiled'
  BY <1>15 DEF Settle
<1>16. ASSUME NEW a \in BOOLEAN, Publish(a) PROVE PostsAreFiled'
  BY <1>16 DEF Publish
<1>17. ASSUME OfficeBoot PROVE PostsAreFiled'
  BY <1>17 DEF OfficeBoot, SettledIn
<1>18. ASSUME OfficeReady PROVE PostsAreFiled'
  BY <1>18 DEF OfficeReady
<1>19. ASSUME ScanRead PROVE PostsAreFiled'
  BY <1>19 DEF ScanRead
<1>20. ASSUME ScanMerge PROVE PostsAreFiled'
  BY <1>20 DEF ScanMerge, SetMail
<1>21. ASSUME ScanWrap PROVE PostsAreFiled'
  BY <1>21 DEF ScanWrap, IsOldest, Unreported, SettledIn
<1>22. ASSUME ScanEnd PROVE PostsAreFiled'
  BY <1>22 DEF ScanEnd, NoScan
<1>23. ASSUME NEW m \in Mails, IngestRead(m) PROVE PostsAreFiled'
  BY <1>23 DEF IngestRead
<1>24. ASSUME NEW m \in Mails, IngestSet(m) PROVE PostsAreFiled'
  BY <1>24 DEF IngestSet, SetMail, NoIngest, Unreported, SettledIn
<1>25. ASSUME NEW m \in Mails, WrapUpEnd(m) PROVE PostsAreFiled'
  BY <1>25 DEF WrapUpEnd
<1>26. ASSUME OwnerCrash PROVE PostsAreFiled'
  BY <1>26 DEF OwnerCrash, Die, LockAfterDeathOf, NoPersist
<1>27. ASSUME OfficeCrash PROVE PostsAreFiled'
  BY <1>27 DEF OfficeCrash, Die, LockAfterDeathOf, NoPersist, NoScan, NoIngest
<1>28. CASE UNCHANGED vars
  BY <1>28 DEF vars
<1> QED
  BY <1>1, <1>2, <1>3, <1>4, <1>5, <1>6, <1>7, <1>8, <1>9, <1>10, <1>11, <1>12, <1>13, <1>14,
     <1>15, <1>16, <1>17, <1>18, <1>19, <1>20, <1>21, <1>22, <1>23, <1>24, <1>25, <1>26, <1>27,
     <1>28
     DEF Next, PersistStep, OwnerStep, ScanStep

\* A wrap-up is begun once per mail and life of the parent, and hydrate counts
\* what is settled in the file as told (#wrappedMailIds).
LEMMA ToldOnceStep ==
  ASSUME TypeOK, PersistDiscipline, MergedIsOnward, NotYetWritten, OutcomesAgree, WritesItsMemory,
         WorkerHasMail, PostsAreFiled, ToldOnce, [Next]_vars
  PROVE  ToldOnce'
<1> USE DEF TypeOK, PersistState, ToldOnce
<1>1. ASSUME Delegate PROVE ToldOnce'
  BY <1>1 DEF Delegate, Dispatch
<1>2. ASSUME NEW p \in Peers, SendFrom(p) PROVE ToldOnce'
  BY <1>2 DEF SendFrom, Dispatch
<1>3. ASSUME NEW p \in Peers, Ask(p) PROVE ToldOnce'
  <2>1. next \in Mails /\ next \notin wrapping
    <3>1. next \in Mails
      BY <1>3 DEF Ask, Dispatch, Mails
    <3>2. disk[next] \notin Settled
      BY <3>1 DEF NotYetWritten, Settled, Mails
    <3> QED BY <3>1, <3>2
  <2> QED BY <1>3, <2>1 DEF Ask, Dispatch
<1>4. ASSUME NEW p \in Peers, AskPoll(p) PROVE ToldOnce'
  BY <1>4 DEF AskPoll, SetMail
<1>5. ASSUME NEW p \in Peers, AskTimeout(p) PROVE ToldOnce'
  BY <1>5 DEF AskTimeout
<1>6. ASSUME NEW p \in Procs, PersistBegin(p) PROVE ToldOnce'
  BY <1>6 DEF PersistBegin
<1>7. ASSUME NEW p \in Procs, PersistMerge(p) PROVE ToldOnce'
  BY <1>7 DEF PersistMerge
<1>8. ASSUME NEW p \in Procs, PersistWrite(p) PROVE ToldOnce'
  <2>1. \A m \in Mails : disk[m] \in Settled => disk'[m] \in Settled
    BY <1>8, OutcomeIsFinal DEF Next, PersistStep
  <2> QED BY <1>8, <2>1 DEF PersistWrite, PersistReturns
<1>9. ASSUME NEW p \in Procs, PersistFail(p) PROVE ToldOnce'
  BY <1>9 DEF PersistFail, PersistReturns, NoPersist
<1>10. ASSUME LockExpire PROVE ToldOnce'
  BY <1>10 DEF LockExpire
<1>11. ASSUME OwnerBoot PROVE ToldOnce'
  BY <1>11 DEF OwnerBoot
<1>12. ASSUME OwnerReady PROVE ToldOnce'
  BY <1>12 DEF OwnerReady
<1>13. ASSUME TakeMail PROVE ToldOnce'
  BY <1>13 DEF TakeMail, IsOldest, QueuedIn, Settled
<1>14. ASSUME StartChat PROVE ToldOnce'
  BY <1>14 DEF StartChat
<1>15. ASSUME NEW o \in Settled, Settle(o) PROVE ToldOnce'
  BY <1>15 DEF Settle
<1>16. ASSUME NEW a \in BOOLEAN, Publish(a) PROVE ToldOnce'
  BY <1>16 DEF Publish
<1>17. ASSUME OfficeBoot PROVE ToldOnce'
  BY <1>17 DEF OfficeBoot, SettledIn
<1>18. ASSUME OfficeReady PROVE ToldOnce'
  BY <1>18 DEF OfficeReady
<1>19. ASSUME ScanRead PROVE ToldOnce'
  BY <1>19 DEF ScanRead
<1>20. ASSUME ScanMerge PROVE ToldOnce'
  BY <1>20 DEF ScanMerge, SetMail
<1>21. ASSUME ScanWrap PROVE ToldOnce'
  <2>1. \A m \in Unreported(scan.box) :
          m \notin asks /\ m \notin wrapped /\ disk[m] \in Settled /\ reported[m] = 0
    BY <1>21 DEF ScanWrap, Unreported, SettledIn, OutcomesAgree, Agrees
  <2> QED BY <1>21, <2>1 DEF ScanWrap, IsOldest, Unreported, SettledIn
<1>22. ASSUME ScanEnd PROVE ToldOnce'
  BY <1>22 DEF ScanEnd, NoScan
<1>23. ASSUME NEW m \in Mails, IngestRead(m) PROVE ToldOnce'
  BY <1>23 DEF IngestRead
<1>24. ASSUME NEW m \in Mails, IngestSet(m) PROVE ToldOnce'
  <2>1. ingest[m].box[m] # "absent" /\ office = "up"
    BY <1>24 DEF IngestSet, PostsAreFiled
  <2>2. m \in Unreported(ingest[m].box) => m \notin asks /\ disk[m] \in Settled /\ reported[m] = 0
    <3> SUFFICES ASSUME m \in Unreported(ingest[m].box)
                 PROVE  m \notin asks /\ disk[m] \in Settled /\ reported[m] = 0
      OBVIOUS
    <3>1. m \notin asks /\ m \notin wrapped /\ ingest[m].box[m] \in Settled
      BY DEF Unreported, SettledIn
    <3>2. disk[m] \in Settled
      BY <3>1 DEF OutcomesAgree, Agrees
    <3>3. reported[m] = 0
      <4>1. reported[m] \in 0..2 /\ ~(reported[m] > 0)
        BY <2>1, <3>1
      <4> QED BY <4>1
    <3> QED BY <3>1, <3>2, <3>3
  <2> QED BY <1>24, <2>1, <2>2 DEF IngestSet, SetMail, NoIngest
<1>25. ASSUME NEW m \in Mails, WrapUpEnd(m) PROVE ToldOnce'
  BY <1>25 DEF WrapUpEnd
<1>26. ASSUME OwnerCrash PROVE ToldOnce'
  BY <1>26 DEF OwnerCrash, Die, LockAfterDeathOf, NoPersist
<1>27. ASSUME OfficeCrash PROVE ToldOnce'
  BY <1>27 DEF OfficeCrash, Die, LockAfterDeathOf, NoPersist, NoScan, NoIngest
<1>28. CASE UNCHANGED vars
  BY <1>28 DEF vars
<1> QED
  BY <1>1, <1>2, <1>3, <1>4, <1>5, <1>6, <1>7, <1>8, <1>9, <1>10, <1>11, <1>12, <1>13, <1>14,
     <1>15, <1>16, <1>17, <1>18, <1>19, <1>20, <1>21, <1>22, <1>23, <1>24, <1>25, <1>26, <1>27,
     <1>28
     DEF Next, PersistStep, OwnerStep, ScanStep

\* The child's persist of "running" is in the file before the chat begins.
LEMMA ChatPersistedStep ==
  ASSUME NumMails <= MaxMail, TypeOK, PersistDiscipline, MergedIsOnward, OutcomesAgree,
         WritesItsMemory, WorkerHasMail, ChatPersisted, [Next]_vars
  PROVE  ChatPersisted'
<1> USE DEF TypeOK, PersistState, ChatPersisted
<1>1. ASSUME Delegate PROVE ChatPersisted'
  BY <1>1 DEF Delegate, Dispatch
<1>2. ASSUME NEW p \in Peers, SendFrom(p) PROVE ChatPersisted'
  BY <1>2 DEF SendFrom, Dispatch
<1>3. ASSUME NEW p \in Peers, Ask(p) PROVE ChatPersisted'
  BY <1>3 DEF Ask, Dispatch
<1>4. ASSUME NEW p \in Peers, AskPoll(p) PROVE ChatPersisted'
  BY <1>4 DEF AskPoll, SetMail
<1>5. ASSUME NEW p \in Peers, AskTimeout(p) PROVE ChatPersisted'
  BY <1>5 DEF AskTimeout
<1>6. ASSUME NEW p \in Procs, PersistBegin(p) PROVE ChatPersisted'
  BY <1>6 DEF PersistBegin
<1>7. ASSUME NEW p \in Procs, PersistMerge(p) PROVE ChatPersisted'
  <2>1. CASE p = Owner /\ owner = "starting"
    <3>1. PersistSource(p) = mem[Owner] /\ mem[Owner] \in Box /\ disk \in Box
      BY <1>7, <2>1 DEF PersistMerge, PersistSource, WritesItsMemory, Procs
    <3>2. cur \in Mails
      BY <2>1 DEF WorkerHasMail
    <3>3. mem'[Owner][cur] = IF Rank[mem[Owner][cur]] >= Rank[disk[cur]]
                             THEN mem[Owner][cur] ELSE disk[cur]
      BY <1>7, <2>1, <3>1, <3>2, MergeTakesEither DEF PersistMerge
    <3>4. Rank[mem[Owner][cur]] \in Nat /\ Rank[disk[cur]] \in Nat
      BY <3>1, <3>2, BoxRanks
    <3>5. Rank[mem[Owner][cur]] >= 2 => Rank[mem'[Owner][cur]] >= 2
      BY <3>3, <3>4
    <3> QED BY <1>7, <2>1, <3>5 DEF PersistMerge
  <2> QED BY <1>7, <2>1 DEF PersistMerge
<1>8. ASSUME NEW p \in Procs, PersistWrite(p) PROVE ChatPersisted'
  <2>1. \A m \in Mails : Rank[disk[m]] >= 2 => Rank[disk'[m]] >= 2
    <3>1. disk \in Box /\ disk' \in Box
      BY <1>8 DEF PersistWrite
    <3>2. \A m \in Mails : Rank[disk[m]] \in Nat /\ Rank[disk'[m]] \in Nat
      BY <3>1, BoxRanks
    <3>3. \A m \in Mails : Rank[disk'[m]] >= Rank[disk[m]]
      BY OutcomeIsFinal
    <3> QED BY ONLY <3>2, <3>3
  <2>2. owner \in {"starting", "chatting"} => cur \in Mails
    BY DEF WorkerHasMail
  <2>3. p = Owner => disk' = mem[Owner]
    BY <1>8 DEF PersistWrite, WritesItsMemory
  <2>4. CASE p = Owner
    <3>1. UNCHANGED <<owner, cur, failed>> /\ chain'[Owner] = Tail(chain[Owner])
      BY <1>8, <2>4 DEF PersistWrite, PersistReturns, Procs
    <3>2. chain[Owner] # <<>>
      BY <1>8, <2>4 DEF PersistWrite, PersistDiscipline
    <3>3. ASSUME owner = "starting", Owner \notin failed
          PROVE  chain'[Owner] = <<>> /\ Rank[disk'[cur]] >= 2
      <4>1. chain[Owner] = <<cur>> /\ Rank[mem[Owner][cur]] >= 2
        BY <3>2, <3>3
      <4> QED BY <2>3, <2>4, <3>1, <4>1
    <3> QED BY <2>1, <2>2, <3>1, <3>3
  <2>5. CASE p # Owner
    <3>1. chain'[Owner] = chain[Owner] /\ UNCHANGED <<mem, owner, cur, failed>>
      BY <1>8, <2>5 DEF PersistWrite, PersistReturns, Procs
    <3> QED BY <2>1, <2>2, <3>1
  <2> QED BY <2>4, <2>5
<1>9. ASSUME NEW p \in Procs, PersistFail(p) PROVE ChatPersisted'
  BY <1>9 DEF PersistFail, PersistReturns, NoPersist
<1>10. ASSUME LockExpire PROVE ChatPersisted'
  BY <1>10 DEF LockExpire
<1>11. ASSUME OwnerBoot PROVE ChatPersisted'
  BY <1>11 DEF OwnerBoot
<1>12. ASSUME OwnerReady PROVE ChatPersisted'
  BY <1>12 DEF OwnerReady
<1>13. ASSUME TakeMail PROVE ChatPersisted'
  <2>1. PICK m \in Mails : /\ disk[m] = "queued" /\ cur' = m
                           /\ mem'[Owner][m] = "running" /\ chain'[Owner] = <<m>>
    BY <1>13, TakesQueuedMail
  <2>2. Rank["running"] = 2 /\ Rank[disk[m]] = 1 /\ <<m>> # <<>>
    BY <2>1 DEF Rank
  <2>3. UNCHANGED failed /\ owner' = "starting"
    BY <1>13 DEF TakeMail
  <2> QED BY <2>1, <2>2, <2>3
<1>14. ASSUME StartChat PROVE ChatPersisted'
  <2>1. cur \in Mails /\ chain[Owner] = <<>>
    BY <1>14 DEF StartChat, Quiet, WorkerHasMail
  <2>2. Owner \notin failed => Rank[disk[cur]] >= 2
    BY <1>14, <2>1 DEF StartChat
  <2> QED BY <1>14, <2>1, <2>2 DEF StartChat
<1>15. ASSUME NEW o \in Settled, Settle(o) PROVE ChatPersisted'
  BY <1>15 DEF Settle
<1>16. ASSUME NEW a \in BOOLEAN, Publish(a) PROVE ChatPersisted'
  BY <1>16 DEF Publish
<1>17. ASSUME OfficeBoot PROVE ChatPersisted'
  BY <1>17 DEF OfficeBoot, SettledIn
<1>18. ASSUME OfficeReady PROVE ChatPersisted'
  BY <1>18 DEF OfficeReady
<1>19. ASSUME ScanRead PROVE ChatPersisted'
  BY <1>19 DEF ScanRead
<1>20. ASSUME ScanMerge PROVE ChatPersisted'
  BY <1>20 DEF ScanMerge, SetMail
<1>21. ASSUME ScanWrap PROVE ChatPersisted'
  BY <1>21 DEF ScanWrap, IsOldest, Unreported, SettledIn
<1>22. ASSUME ScanEnd PROVE ChatPersisted'
  BY <1>22 DEF ScanEnd, NoScan
<1>23. ASSUME NEW m \in Mails, IngestRead(m) PROVE ChatPersisted'
  BY <1>23 DEF IngestRead
<1>24. ASSUME NEW m \in Mails, IngestSet(m) PROVE ChatPersisted'
  BY <1>24 DEF IngestSet, SetMail, NoIngest, Unreported, SettledIn
<1>25. ASSUME NEW m \in Mails, WrapUpEnd(m) PROVE ChatPersisted'
  BY <1>25 DEF WrapUpEnd
<1>26. ASSUME OwnerCrash PROVE ChatPersisted'
  BY <1>26 DEF OwnerCrash, Die, LockAfterDeathOf, NoPersist
<1>27. ASSUME OfficeCrash PROVE ChatPersisted'
  BY <1>27 DEF OfficeCrash, Die, LockAfterDeathOf, NoPersist, NoScan, NoIngest
<1>28. CASE UNCHANGED vars
  BY <1>28 DEF vars
<1> QED
  BY <1>1, <1>2, <1>3, <1>4, <1>5, <1>6, <1>7, <1>8, <1>9, <1>10, <1>11, <1>12, <1>13, <1>14,
     <1>15, <1>16, <1>17, <1>18, <1>19, <1>20, <1>21, <1>22, <1>23, <1>24, <1>25, <1>26, <1>27,
     <1>28
     DEF Next, PersistStep, OwnerStep, ScanStep

\* Push and reconciliation bring no outcome.
LEMMA NoNewOutcome ==
  ASSUME NumMails <= MaxMail, NEW box \in Box, NEW m \in Mails
  PROVE  /\ EmptyBox[m] \notin Settled
         /\ Reconciled(box)[m] \in Settled => box[m] = Reconciled(box)[m]
         /\ \A k \in Mails : Push(box, k)[m] \in Settled => box[m] = Push(box, k)[m]
<1>1. EmptyBox[m] \notin Settled
  BY DEF EmptyBox, Settled
<1>2. Reconciled(box)[m] \in Settled => box[m] = Reconciled(box)[m]
  BY DEF Reconciled, Settled
<1>3. ASSUME NEW k \in Mails PROVE Push(box, k)[m] \in Settled => box[m] = Push(box, k)[m]
  BY PushAdds DEF Box, Settled
<1> QED BY <1>1, <1>2, <1>3

\* A mail gets its first copy when it is dispatched.
LEMMA NotYetWrittenStep ==
  ASSUME NumMails <= MaxMail, TypeOK, PersistDiscipline, NotYetWritten, WorkerHasMail, [Next]_vars
  PROVE  NotYetWritten'
<1>1. next' >= next /\ \A m \in Mails : m >= next' => m >= next /\ m \notin asks'
  BY DEF TypeOK, Mails, NotYetWritten, Next, vars, Delegate, SendFrom, Ask, Dispatch, AskPoll,
         AskTimeout, PersistStep, PersistBegin, PersistMerge, PersistWrite, PersistFail,
         PersistReturns, LockExpire, OwnerStep, OwnerBoot, OwnerReady, TakeMail,
         StartChat, Settle, Publish, OfficeBoot, OfficeReady, ScanStep, ScanRead,
         ScanMerge, ScanWrap, ScanEnd, IngestRead, IngestSet, WrapUpEnd,
         OwnerCrash, OfficeCrash, Die
<1> SUFFICES ASSUME NEW m \in Mails, m >= next'
             PROVE  /\ disk'[m] = "absent" /\ scan'.box[m] = "absent"
                    /\ \A p \in Procs : mem'[p][m] = "absent" /\ persist'[p].box[m] = "absent"
                    /\ \A k \in Mails : ingest'[k].box[m] = "absent"
  BY <1>1 DEF NotYetWritten
<1>2. /\ disk[m] = "absent" /\ scan.box[m] = "absent" /\ EmptyBox[m] = "absent"
      /\ \A p \in Procs : mem[p][m] = "absent" /\ persist[p].box[m] = "absent"
      /\ \A k \in Mails : ingest[k].box[m] = "absent"
  BY <1>1 DEF NotYetWritten, EmptyBox
<1>3. disk'[m] = "absent"
  BY <1>2, OnlyWriteTouchesFile
<1>4. ASSUME NEW p \in Procs PROVE mem'[p][m] = "absent"
  <2>1. \A file, memory \in Box :
          file[m] = "absent" /\ memory[m] = "absent" => Merge(file, memory)[m] = "absent"
    BY MergeTakesEither
  <2>2. /\ disk \in Box /\ scan.box \in Box /\ mem[p] \in Box /\ PersistSource(p) \in Box
        /\ PersistSource(p)[m] = "absent"
    BY <1>2 DEF TypeOK, PersistSource, PersistState
  <2>3. CASE mem'[p] = mem[p]
    BY <1>2, <2>3
  <2>4. CASE mem'[p] \in {EmptyBox, disk, Reconciled(disk)} \cup {ingest[k].box : k \in Mails}
    BY <1>2, <2>4 DEF Reconciled
  <2>5. CASE mem'[p] = Merge(disk, PersistSource(p))
    BY <1>2, <2>1, <2>2, <2>5
  <2>6. CASE p = Office /\ mem'[p] = Merge(scan.box, mem[p])
    BY <1>2, <2>1, <2>2, <2>6
  <2>7. CASE next \in Mails /\ next' = next + 1 /\ mem'[p] = Push(mem[p], next)
    <3>1. m # next
      BY <2>7 DEF Mails
    <3>2. mem'[p] = [mem[p] EXCEPT ![next] = "queued"]
      BY <2>2, <2>7, PushAdds
    <3>3. mem'[p][m] = mem[p][m]
      BY <2>2, <3>1, <3>2 DEF Box
    <3> QED BY <1>2, <3>3
  <2>8. CASE \E k \in Mails : disk[k] = "queued" /\ mem'[p] = [disk EXCEPT ![k] = "running"]
    BY <1>2, <2>2, <2>8
  <2>9. CASE \E o \in Settled : mem'[p] = [mem[p] EXCEPT ![cur] = IF mem[p][cur] = "absent"
                                                                 THEN "absent" ELSE o]
    BY <1>2, <2>2, <2>9 DEF Box
  <2> QED BY <2>3, <2>4, <2>5, <2>6, <2>7, <2>8, <2>9, CopiesStep DEF CopiesFollow, ComesFrom
<1>5. ASSUME NEW p \in Procs
      PROVE  /\ persist'[p].box[m] = "absent" /\ scan'.box[m] = "absent"
             /\ \A k \in Mails : ingest'[k].box[m] = "absent"
  <2>1. CopiesFollow(p)
    BY CopiesStep
  <2> QED BY <1>2, <1>4, <2>1 DEF CopiesFollow
<1> QED BY <1>3, <1>4, <1>5 DEF Procs

\* No copy of the file ever knows an outcome the file does not hold, except the
\* child's, and two outcomes of one mail never meet.
LEMMA OutcomesStep ==
  ASSUME NumMails <= MaxMail, TypeOK, PersistDiscipline, MergedIsOnward, OutcomesAgree,
         WritesItsMemory, WorkerHasMail, WorksOnOpenMail, [Next]_vars
  PROVE  OutcomesAgree'
<1>1. \A m \in Mails : disk[m] \in Settled => disk'[m] = disk[m]
  BY OutcomeIsFinal
<1> DEFINE Follows(box) == \A m \in Mails : box[m] \in Settled => disk'[m] = box[m]
<1>2. \A box : Agrees(box) => Follows(box)
  BY <1>1 DEF Agrees
<1>3. Follows(EmptyBox) /\ Follows(disk) /\ Follows(Reconciled(disk)) /\ Follows(scan.box)
  BY <1>1, <1>2, NoNewOutcome DEF OutcomesAgree, TypeOK
<1>4. \A k \in Mails : Follows(ingest[k].box)
  BY <1>2 DEF OutcomesAgree
<1>5. \A file, memory \in Box : Follows(file) /\ Follows(memory) => Follows(Merge(file, memory))
  BY MergeTakesEither
<1>6. ASSUME NEW p \in Procs \ {Owner} PROVE Follows(mem'[p]) /\ Follows(persist'[p].box)
  <2>1. /\ Follows(mem[p]) /\ Follows(persist[p].box) /\ Follows(PersistSource(p))
        /\ disk \in Box /\ scan.box \in Box /\ mem[p] \in Box /\ PersistSource(p) \in Box
    BY <1>2 DEF OutcomesAgree, PersistSource, TypeOK, PersistState
  <2>2. CopiesFollow(p)
    BY CopiesStep
  <2>3. Follows(mem'[p])
    <3>1. CASE mem'[p] \in {mem[p], EmptyBox, disk, Reconciled(disk)}
                           \cup {ingest[k].box : k \in Mails}
      BY <1>3, <1>4, <2>1, <3>1
    <3>2. CASE mem'[p] \in {Merge(disk, PersistSource(p)), Merge(scan.box, mem[p])}
      BY <1>3, <1>5, <2>1, <3>2
    <3>3. CASE next \in Mails /\ mem'[p] = Push(mem[p], next)
      BY <2>1, <3>3, NoNewOutcome
    <3> QED BY <2>2, <3>1, <3>2, <3>3 DEF CopiesFollow, ComesFrom
  <2> QED BY <1>3, <2>1, <2>2, <2>3 DEF CopiesFollow
<1>7. Follows(scan'.box) /\ \A k \in Mails : Follows(ingest'[k].box)
  <2>1. CopiesFollow(Owner)
    BY CopiesStep DEF Procs
  <2> QED BY <1>3, <1>4, <2>1 DEF CopiesFollow
<1>8. ASSUME NEW m \in Mails, disk'[m] \in Settled, mem'[Owner][m] \in Settled
      PROVE  mem'[Owner][m] = disk'[m]
  <2>1. CopiesFollow(Owner)
    BY CopiesStep DEF Procs
  <2>2. /\ disk \in Box /\ scan.box \in Box /\ mem[Owner] \in Box
    BY DEF TypeOK, Procs
  <2>3. disk[m] \in Settled /\ mem[Owner][m] \in Settled => mem[Owner][m] = disk[m]
    BY DEF OutcomesAgree
  <2>4. CASE mem'[Owner] = mem[Owner]
    BY <1>8, <2>3, <2>4, OutcomeIsFinal
  <2>5. CASE mem'[Owner] \in {EmptyBox, disk, Reconciled(disk)} \cup {ingest[k].box : k \in Mails}
    BY <1>3, <1>4, <1>8, <2>5
  <2>6. CASE disk' = disk /\ persist[Owner].pc = "captured"
             /\ mem'[Owner] = Merge(disk, PersistSource(Owner))
    <3>1. PersistSource(Owner) = mem[Owner]
      BY <2>6 DEF PersistSource, WritesItsMemory
    <3>2. mem'[Owner][m] \in {mem[Owner][m], disk[m]}
      BY <2>2, <2>6, <3>1, MergeTakesEither
    <3> QED BY <1>8, <2>3, <2>6, <3>2
  <2>7. CASE disk' = disk /\ \E k \in Mails : /\ disk[k] = "queued"
                                              /\ mem'[Owner] = [disk EXCEPT ![k] = "running"]
    BY <1>8, <2>2, <2>7 DEF Settled, Box
  <2>8. CASE disk' = disk /\ owner = "chatting"
             /\ \E o \in Settled :
                  mem'[Owner] = [mem[Owner] EXCEPT ![cur] = IF mem[Owner][cur] = "absent"
                                                            THEN "absent" ELSE o]
    <3>1. m # cur
      BY <1>8, <2>8 DEF WorksOnOpenMail
    <3> QED BY <1>8, <2>2, <2>3, <2>8, <3>1 DEF Box
  <2> QED BY <2>1, <2>4, <2>5, <2>6, <2>7, <2>8 DEF CopiesFollow, ComesFrom
<1> QED BY <1>6, <1>7, <1>8 DEF OutcomesAgree, Agrees

(***************************************************************************)
(* The mailbox implements the ledger.                                      *)
(***************************************************************************)
\* Everything the refinement and the single chat rest on.
MailInv ==
  /\ TypeOK /\ PersistDiscipline /\ WorkerHasMail /\ MergedIsOnward
  /\ NotYetWritten /\ WritesItsMemory /\ OutcomesAgree /\ WorksOnOpenMail
  /\ PostsAreFiled /\ ToldOnce /\ ChatPersisted

\* Nothing has been dispatched, settled or told when the processes start.
LEMMA MailInvInit == Init => MailInv
<1> SUFFICES ASSUME Init PROVE MailInv
  OBVIOUS
<1>1. PersistInv /\ MergedIsOnward
  BY PersistInvInit DEF Init, MergedIsOnward, NoPersist
<1>2. NotYetWritten
  BY DEF Init, NotYetWritten, NoPersist, NoScan, NoIngest, EmptyBox
<1>3. WritesItsMemory
  BY DEF Init, WritesItsMemory, NoPersist, Procs
<1>4. OutcomesAgree
  BY DEF Init, OutcomesAgree, Agrees, NoPersist, NoScan, NoIngest, EmptyBox, Settled
<1>5. WorksOnOpenMail /\ PostsAreFiled /\ ToldOnce
  BY DEF Init, WorksOnOpenMail, PostsAreFiled, ToldOnce, NoScan, NoIngest
<1>6. ChatPersisted
  BY DEF Init, ChatPersisted
<1> QED BY <1>1, <1>2, <1>3, <1>4, <1>5, <1>6 DEF MailInv, PersistInv

\* Below the capacity every step of every process keeps all of it.
LEMMA MailInvStep ==
  ASSUME NumMails <= MaxMail, MailInv, [Next]_vars
  PROVE  MailInv'
<1>1. TypeOK' /\ PersistDiscipline' /\ WorkerHasMail' /\ MergedIsOnward'
  BY TypeStep, DisciplineStep, WorkerStep, OnwardStep DEF MailInv
<1>2. NotYetWritten' /\ WritesItsMemory' /\ OutcomesAgree' /\ WorksOnOpenMail'
  BY NotYetWrittenStep, WritesItsMemoryStep, OutcomesStep, WorksOnOpenMailStep DEF MailInv
<1>3. PostsAreFiled' /\ ToldOnce' /\ ChatPersisted'
  BY PostsAreFiledStep, ToldOnceStep, ChatPersistedStep DEF MailInv
<1> QED BY <1>1, <1>2, <1>3 DEF MailInv

\* Below the capacity, whatever dies and however the persists of the processes
\* interleave, the file is the ledger: statuses only move on, an outcome never
\* changes, and a completion is told at most once, only when it is in the file
\* and only when no colleague has asked for it.
THEOREM MailboxImplementsLedger ==
  ASSUME NumMails <= MaxMail
  PROVE  Spec => ImplementsLedger
<1>1. Init => Ledger!LedgerInit
  BY DEF Init, Ledger!LedgerInit, EmptyBox
<1>2. ASSUME MailInv, [Next]_vars
      PROVE  [Ledger!LedgerNext]_<<disk, reported, asks>>
  <2>1. CASE UNCHANGED <<disk, reported, asks>>
    BY <2>1
  <2>2. ASSUME NEW p \in Procs, PersistWrite(p)
        PROVE  Ledger!Advance
    <3>1. disk \in Box /\ disk' \in Box
      BY <1>2, <2>2 DEF MailInv, TypeOK, PersistState, PersistWrite
    <3>2. ASSUME NEW m \in Mails PROVE disk'[m] \in Ledger!Later[disk[m]]
      <4>1. disk[m] \in Status /\ disk'[m] \in Status
        BY <3>1 DEF Box
      <4>2. /\ Rank[disk'[m]] >= Rank[disk[m]]
            /\ disk[m] \in Settled => disk'[m] = disk[m]
        BY <1>2, OutcomeIsFinal DEF MailInv
      <4> QED BY <4>1, <4>2 DEF Ledger!Later, Status, Settled, Rank
    <3>3. disk' \in [Mails -> {"absent", "queued", "running", "done", "failed"}]
      BY <3>1 DEF Box, Status
    <3>4. UNCHANGED <<reported, asks>>
      BY <2>2 DEF PersistWrite, PersistReturns
    <3> QED BY <3>2, <3>3, <3>4 DEF Ledger!Advance
  <2>3. ASSUME NEW p \in Peers, Ask(p)
        PROVE  Ledger!Question(next) /\ next \in Mails
    <3>1. next \in Mails
      BY <1>2, <2>3 DEF MailInv, TypeOK, Ask, Dispatch, Mails
    <3>2. disk[next] = "absent"
      BY <1>2, <3>1 DEF MailInv, NotYetWritten, Mails
    <3> QED BY <2>3, <3>1, <3>2 DEF Ask, Dispatch, Ledger!Question
  <2>4. ASSUME NEW m \in Mails, WrapUpEnd(m)
        PROVE  Ledger!Tell(m)
    <3>1. disk[m] \in Settled /\ m \notin asks /\ reported[m] = 0
      BY <1>2, <2>4 DEF MailInv, ToldOnce, WrapUpEnd
    <3>2. AtMostTwo(reported[m]) = 1
      BY <3>1 DEF AtMostTwo
    <3> QED BY <2>4, <3>1, <3>2 DEF WrapUpEnd, Settled, Ledger!Tell
  <2>5. ASSUME NEW m \in Mails, IngestSet(m)
        PROVE  UNCHANGED <<disk, reported, asks>>
    <3>1. ingest[m].box[m] # "absent"
      BY <1>2, <2>5 DEF MailInv, PostsAreFiled, IngestSet
    <3> QED BY <2>5, <3>1 DEF IngestSet
  <2>6. \/ UNCHANGED <<disk, reported, asks>>
        \/ \E p \in Procs : PersistWrite(p)
        \/ \E p \in Peers : Ask(p)
        \/ \E m \in Mails : WrapUpEnd(m) \/ IngestSet(m)
    BY <1>2 DEF Next, vars, Delegate, SendFrom, Dispatch, AskPoll, AskTimeout, PersistStep,
         PersistBegin, PersistMerge, PersistFail, PersistReturns, LockExpire, OwnerStep,
         OwnerBoot, OwnerReady, TakeMail, StartChat, Settle, Publish, OfficeBoot, OfficeReady,
         ScanStep, ScanRead, ScanMerge, ScanWrap, ScanEnd, IngestRead, OwnerCrash,
         OfficeCrash, Die
  <2> QED BY <2>1, <2>2, <2>3, <2>4, <2>5, <2>6 DEF Ledger!LedgerNext
<1>3. MailInv /\ [Next]_vars => MailInv'
  BY MailInvStep
<1> QED BY <1>1, <1>2, <1>3, MailInvInit, PTL DEF Spec, ImplementsLedger, Ledger!Spec

\* Below the capacity a mail stands as running in the file while its chat runs, whatever
\* dies and whoever else writes the file, unless the child has lost a persist; then it may
\* stand as queued, but never with an outcome.
THEOREM ChatsRunOnFile ==
  ASSUME NumMails <= MaxMail
  PROVE  Spec => []ChatIsOnFile
<1>1. MailInv /\ [Next]_vars => MailInv'
  BY MailInvStep
<1>2. MailInv => ChatIsOnFile
  <2> SUFFICES ASSUME MailInv, owner = "chatting"
               PROVE  \/ disk[cur] \in {"running", "absent"}
                      \/ disk[cur] = "queued" /\ Owner \in failed
    BY DEF ChatIsOnFile
  <2>1. cur \in Mails /\ disk \in Box
    BY DEF MailInv, WorkerHasMail, TypeOK
  <2>2. disk[cur] \in Status /\ disk[cur] \notin Settled
    BY <2>1 DEF MailInv, WorksOnOpenMail, Box
  <2>3. Owner \notin failed => Rank[disk[cur]] >= 2
    BY DEF MailInv, ChatPersisted
  <2>4. Rank[disk[cur]] >= 2 => disk[cur] # "queued"
    BY <2>1, BoxRanks
  <2> QED BY <2>2, <2>3, <2>4 DEF Status, Settled
<1> QED BY <1>1, <1>2, MailInvInit, PTL DEF Spec
=============================================================================
