----------------------- MODULE ColleagueMailboxProofs -----------------------
(***************************************************************************)
(* Proofs about ColleagueMailbox for any number of mails, peers and deaths.*)
(* What the capacity MAX_MAIL may cut away is excluded where a theorem     *)
(* says NumMails <= MaxMail.                                               *)
(***************************************************************************)
EXTENDS ColleagueMailbox, FiniteSetTheorems, SequenceTheorems, TLAPS

USE MailboxAssumption

(***************************************************************************)
(* The helpers                                                             *)
(***************************************************************************)

\* Below the capacity pushMail and mergeMailboxItems cut nothing away.
LEMMA TrimKeepsAll ==
  ASSUME NumMails <= MaxMail, NEW box \in Box
  PROVE  Trim(box) = box
<1>1. ASSUME NEW m \in Mails
      PROVE  Cardinality({k \in Mails : k > m /\ box[k] # "absent"}) < MaxMail
  <2> DEFINE Newer == {k \in Mails : k > m /\ box[k] # "absent"}
  <2>1. IsFiniteSet(Mails) /\ Cardinality(Mails) = NumMails
    BY FS_Interval DEF Mails
  <2>2. /\ IsFiniteSet(Mails \ {m})
        /\ Cardinality(Mails \ {m}) = NumMails - 1
    BY <2>1, FS_RemoveElement
  <2>3. Newer \subseteq Mails \ {m}
    BY DEF Mails
  <2>4. Cardinality(Newer) <= NumMails - 1 /\ Cardinality(Newer) \in Nat
    BY <2>2, <2>3, FS_Subset, FS_CardinalityType
  <2> QED BY <2>4
<1> QED BY <1>1 DEF Trim, Box

\* Each helper on mailboxes yields a mailbox.
LEMMA BoxClosed ==
  /\ EmptyBox \in Box
  /\ \A box \in Box : Trim(box) \in Box
  /\ \A file, memory \in Box : Merge(file, memory) \in Box
  /\ \A box \in Box : \A m \in Mails : Push(box, m) \in Box
  /\ \A box \in Box : Reconciled(box) \in Box
<1>1. \A box \in Box : Trim(box) \in Box
  BY DEF Trim, Box, Status
<1>2. EmptyBox \in Box
  BY DEF EmptyBox, Box, Status
<1>3. ASSUME NEW file \in Box, NEW memory \in Box
      PROVE  Merge(file, memory) \in Box
  <2>1. [m \in Mails |-> IF Rank[memory[m]] >= Rank[file[m]]
                         THEN memory[m] ELSE file[m]] \in Box
    BY DEF Box
  <2> QED BY <1>1, <2>1 DEF Merge
<1>4. ASSUME NEW box \in Box, NEW m \in Mails PROVE Push(box, m) \in Box
  <2>1. [box EXCEPT ![m] = "queued"] \in Box
    BY DEF Box, Status
  <2> QED BY <1>1, <2>1 DEF Push
<1>5. \A box \in Box : Reconciled(box) \in Box
  BY DEF Reconciled, Box, Status
<1> QED BY <1>1, <1>2, <1>3, <1>4, <1>5

\* What a merge writes is nowhere behind the file it has read.
LEMMA MergeIsOnward ==
  ASSUME NumMails <= MaxMail, NEW file \in Box, NEW memory \in Box, NEW m \in Mails
  PROVE  Rank[Merge(file, memory)[m]] >= Rank[file[m]]
<1> DEFINE joined == [k \in Mails |-> IF Rank[memory[k]] >= Rank[file[k]]
                                      THEN memory[k] ELSE file[k]]
<1>1. joined \in Box
  BY DEF Box
<1>2. Merge(file, memory) = joined
  BY <1>1, TrimKeepsAll DEF Merge
<1>3. \A s \in Status : Rank[s] \in Nat
  BY DEF Rank, Status
<1>4. Rank[file[m]] \in Nat
  BY <1>3 DEF Box
<1> QED BY <1>2, <1>4

\* Replacing a #mail entry changes at most the copy a captured task reads.
LEMMA DetachedKeeps ==
  ASSUME TypeOK, NEW p \in Procs
  PROVE  /\ Detached(p) \in [Procs -> PersistState]
         /\ \A q \in Procs : /\ Detached(p)[q].pc = persist[q].pc
                             /\ Detached(p)[q].live => persist[q].live
                             /\ ~persist[q].live => Detached(p)[q] = persist[q]
<1>1. \A q \in Procs : Detached(p)[q] =
        IF q = p /\ persist[p].live
        THEN [pc |-> persist[p].pc, live |-> FALSE, box |-> mem[p]] ELSE persist[q]
  BY DEF Detached, TypeOK
<1>2. [pc |-> persist[p].pc, live |-> FALSE, box |-> mem[p]] \in PersistState
  BY DEF TypeOK, PersistState
<1>3. Detached(p) = [q \in Procs |-> Detached(p)[q]]
  BY DEF Detached, TypeOK
<1>4. \A q \in Procs : Detached(p)[q] \in PersistState
  BY <1>1, <1>2 DEF TypeOK
<1> QED BY <1>1, <1>3, <1>4

\* Counting up a saturating history variable.
LEMMA CountUp ==
  ASSUME NEW f \in [Mails -> 0..2], NEW m
  PROVE  [f EXCEPT ![m] = AtMostTwo(f[m])] \in [Mails -> 0..2]
<1>1. m \in Mails => AtMostTwo(f[m]) \in 0..2
  BY DEF AtMostTwo
<1> QED BY <1>1

\* A boot, a mail taken and an outcome each put one task on the child's chain.
LEMMA ChainEntry ==
  \A x \in Mails \cup {0} : <<x>> \in Seq(Mails \cup {0})
  OBVIOUS

\* A dispatch leaves a chain that is not empty.
LEMMA ChainGrows ==
  ASSUME NEW c \in Seq(Mails \cup {0}), NEW x \in Mails
  PROVE  Append(c, x) # <<>>
<1>1. x \in Mails \cup {0}
  OBVIOUS
<1> QED BY ONLY <1>1, AppendProperties

(***************************************************************************)
(* Type correctness.  PersistDiscipline is what makes it inductive: the    *)
(* task that ends is the head of a chain that is not empty.                *)
(***************************************************************************)
\* Every step keeps to the domains.
LEMMA TypeStep ==
  ASSUME TypeOK, PersistDiscipline, WorkerHasMail, [Next]_vars
  PROVE  TypeOK'
<1> USE BoxClosed DEF TypeOK, PersistState, Procs
<1>1. ASSUME Delegate PROVE TypeOK'
  <2>1. next \in Mails
    BY <1>1 DEF Delegate, Dispatch, Mails
  <2>2. mem' \in [Procs -> Box]
    BY <1>1, <2>1 DEF Delegate, Dispatch
  <2>3. chain' \in [Procs -> Seq(Mails \cup {0})]
    BY <1>1, <2>1 DEF Delegate, Dispatch
  <2>4. next' \in 1..(NumMails + 1)
    BY <1>1 DEF Delegate, Dispatch
  <2> QED BY <1>1, <2>1, <2>2, <2>3, <2>4 DEF Delegate, Dispatch
<1>2. ASSUME NEW p \in Peers, SendFrom(p) PROVE TypeOK'
  <2>1. next \in Mails
    BY <1>2 DEF SendFrom, Dispatch, Mails
  <2>2. mem' \in [Procs -> Box]
    BY <1>2, <2>1 DEF SendFrom, Dispatch
  <2>3. chain' \in [Procs -> Seq(Mails \cup {0})]
    BY <1>2, <2>1 DEF SendFrom, Dispatch
  <2>4. next' \in 1..(NumMails + 1)
    BY <1>2 DEF SendFrom, Dispatch
  <2> QED BY <1>2, <2>1, <2>2, <2>3, <2>4 DEF SendFrom, Dispatch
<1>3. ASSUME NEW p \in Peers, Ask(p) PROVE TypeOK'
  <2>1. next \in Mails
    BY <1>3 DEF Ask, Dispatch, Mails
  <2>2. mem' \in [Procs -> Box]
    BY <1>3, <2>1 DEF Ask, Dispatch
  <2>3. chain' \in [Procs -> Seq(Mails \cup {0})]
    BY <1>3, <2>1 DEF Ask, Dispatch
  <2>4. next' \in 1..(NumMails + 1)
    BY <1>3 DEF Ask, Dispatch
  <2> QED BY <1>3, <2>1, <2>2, <2>3, <2>4 DEF Ask, Dispatch
<1>4. ASSUME NEW p \in Peers, AskPoll(p) PROVE TypeOK'
  BY <1>4, DetachedKeeps DEF AskPoll, SetMail
<1>5. ASSUME NEW p \in Peers, AskTimeout(p) PROVE TypeOK'
  BY <1>5 DEF AskTimeout, Quiet
<1>6. ASSUME NEW p \in Procs, PersistBegin(p) PROVE TypeOK'
  BY <1>6 DEF PersistBegin
<1>7. ASSUME NEW p \in Procs, PersistMerge(p) PROVE TypeOK'
  BY <1>7 DEF PersistMerge, PersistSource
<1>8. ASSUME NEW p \in Procs, PersistWrite(p) PROVE TypeOK'
  BY <1>8 DEF PersistDiscipline, PersistWrite, PersistReturns, NoPersist
<1>9. ASSUME NEW p \in Procs, PersistFail(p) PROVE TypeOK'
  BY <1>9 DEF PersistDiscipline, PersistFail, PersistReturns, NoPersist
<1>10. ASSUME LockExpire PROVE TypeOK'
  BY <1>10 DEF LockExpire
<1>11. ASSUME OwnerBoot PROVE TypeOK'
  <2>1. mem' \in [Procs -> Box]
    BY <1>11 DEF OwnerBoot
  <2>2. chain' \in [Procs -> Seq(Mails \cup {0})]
    BY <1>11, ChainEntry, EmptySeq DEF OwnerBoot
  <2> QED BY <1>11, <2>1, <2>2 DEF OwnerBoot
<1>12. ASSUME OwnerReady PROVE TypeOK'
  BY <1>12 DEF OwnerReady, Quiet
<1>13. ASSUME TakeMail PROVE TypeOK'
  <2>1. PICK m \in Mails :
          /\ cur' = m
          /\ mem' = [mem EXCEPT ![Owner] = [disk EXCEPT ![m] = "running"]]
          /\ chain' = [chain EXCEPT ![Owner] = <<m>>]
    BY <1>13 DEF TakeMail
  <2>2. mem' \in [Procs -> Box]
    BY <2>1 DEF Box, Status
  <2>3. chain' \in [Procs -> Seq(Mails \cup {0})]
    BY <2>1, ChainEntry
  <2> QED BY <1>13, <2>1, <2>2, <2>3 DEF TakeMail
<1>14. ASSUME StartChat PROVE TypeOK'
  BY <1>14 DEF StartChat
<1>15. ASSUME NEW o \in Settled, Settle(o) PROVE TypeOK'
  <2>1. mem' \in [Procs -> Box]
    <3> DEFINE new == IF mem[Owner][cur] = "absent" THEN "absent" ELSE o
    <3>1. mem' = [mem EXCEPT ![Owner] = [mem[Owner] EXCEPT ![cur] = new]]
      BY <1>15 DEF Settle
    <3>2. new \in Status
      BY DEF Settled, Status
    <3>3. [mem[Owner] EXCEPT ![cur] = new] \in Box
      BY <3>2 DEF Box
    <3> QED BY <3>1, <3>3
  <2>2. chain' \in [Procs -> Seq(Mails \cup {0})]
    BY <1>15, ChainEntry DEF Settle
  <2> QED BY <1>15, <2>1, <2>2 DEF Settle
<1>16. ASSUME NEW a \in BOOLEAN, Publish(a) PROVE TypeOK'
  BY <1>16 DEF Publish, Quiet, WorkerHasMail
<1>17. ASSUME OfficeBoot PROVE TypeOK'
  <2>1. mem' \in [Procs -> Box]
    BY <1>17 DEF OfficeBoot
  <2>2. chain' \in [Procs -> Seq(Mails \cup {0})]
    BY <1>17, ChainEntry, EmptySeq DEF OfficeBoot
  <2> QED BY <1>17, <2>1, <2>2 DEF OfficeBoot, SettledIn
<1>18. ASSUME OfficeReady PROVE TypeOK'
  BY <1>18 DEF OfficeReady, Quiet
<1>19. ASSUME ScanRead PROVE TypeOK'
  BY <1>19 DEF ScanRead
<1>20. ASSUME ScanMerge PROVE TypeOK'
  BY <1>20, DetachedKeeps DEF ScanMerge, SetMail
<1>21. ASSUME ScanWrap PROVE TypeOK'
  <2>1. PICK m \in Mails :
          /\ wrapped' = wrapped \cup {m}
          /\ wrapping' = wrapping \cup {m}
          /\ scan' = [scan EXCEPT !.mail = m]
    BY <1>21 DEF ScanWrap
  <2>2. scan' \in [pc : {"idle", "read", "loop"}, box : Box, mail : Mails \cup {0}]
    BY <2>1
  <2> QED BY <1>21, <2>1, <2>2 DEF ScanWrap
<1>22. ASSUME ScanEnd PROVE TypeOK'
  BY <1>22 DEF ScanEnd, NoScan
<1>23. ASSUME NEW m \in Mails, IngestRead(m) PROVE TypeOK'
  BY <1>23 DEF IngestRead
<1>24. ASSUME NEW m \in Mails, IngestSet(m) PROVE TypeOK'
  <2>1. /\ mem' \in [Procs -> Box]
        /\ persist' \in [Procs -> PersistState]
    BY <1>24, DetachedKeeps DEF IngestSet, SetMail
  <2>2. reported' \in [Mails -> 0..2]
    BY <1>24, CountUp DEF IngestSet
  <2>3. ingest' \in [Mails -> [pc : {"idle", "read"}, box : Box]]
    BY <1>24 DEF IngestSet, NoIngest
  <2>4. wrapped' \subseteq Mails /\ wrapping' \subseteq Mails
    BY <1>24 DEF IngestSet
  <2> QED BY <1>24, <2>1, <2>2, <2>3, <2>4 DEF IngestSet
<1>25. ASSUME NEW m \in Mails, WrapUpEnd(m) PROVE TypeOK'
  <2>1. reported' \in [Mails -> 0..2]
    BY <1>25, CountUp DEF WrapUpEnd
  <2>2. scan' \in [pc : {"idle", "read", "loop"}, box : Box, mail : Mails \cup {0}]
    BY <1>25 DEF WrapUpEnd
  <2> QED BY <1>25, <2>1, <2>2 DEF WrapUpEnd
<1>26. ASSUME OwnerCrash PROVE TypeOK'
  BY <1>26 DEF OwnerCrash, Die, LockAfterDeathOf, NoPersist
<1>27. ASSUME OfficeCrash PROVE TypeOK'
  BY <1>27 DEF OfficeCrash, Die, LockAfterDeathOf, NoPersist, NoScan, NoIngest
<1>28. CASE UNCHANGED vars
  BY <1>28 DEF vars
<1> QED
  BY <1>1, <1>2, <1>3, <1>4, <1>5, <1>6, <1>7, <1>8, <1>9, <1>10, <1>11, <1>12, <1>13, <1>14, <1>15, <1>16, <1>17, <1>18, <1>19, <1>20, <1>21, <1>22, <1>23, <1>24, <1>25, <1>26, <1>27, <1>28
     DEF Next, PersistStep, OwnerStep, ScanStep

(***************************************************************************)
(* The locking discipline of #persist.                                     *)
(***************************************************************************)
\* Every step keeps the locking discipline.
LEMMA DisciplineStep ==
  ASSUME TypeOK, PersistDiscipline, [Next]_vars
  PROVE  PersistDiscipline'
<1> USE DEF TypeOK, PersistDiscipline, PersistState, Procs, Quiet
<1>1. ASSUME Delegate PROVE PersistDiscipline'
  <2>1. next \in Mails
    BY <1>1 DEF Delegate, Dispatch, Mails
  <2>2. Append(chain[Office], next) # <<>>
    BY <2>1, ChainGrows
  <2>3. \A p \in Procs : chain[p] # <<>> => chain'[p] # <<>>
    BY <1>1, <2>2 DEF Delegate, Dispatch
  <2> QED BY <1>1, <2>3 DEF Delegate, Dispatch
<1>2. ASSUME NEW p \in Peers, SendFrom(p) PROVE PersistDiscipline'
  BY <1>2 DEF SendFrom, Dispatch
<1>3. ASSUME NEW p \in Peers, Ask(p) PROVE PersistDiscipline'
  BY <1>3 DEF Ask, Dispatch
<1>4. ASSUME NEW p \in Peers, AskPoll(p) PROVE PersistDiscipline'
  BY <1>4, DetachedKeeps DEF AskPoll, SetMail
<1>5. ASSUME NEW p \in Peers, AskTimeout(p) PROVE PersistDiscipline'
  BY <1>5 DEF AskTimeout
<1>6. ASSUME NEW p \in Procs, PersistBegin(p) PROVE PersistDiscipline'
  BY <1>6 DEF PersistBegin
<1>7. ASSUME NEW p \in Procs, PersistMerge(p) PROVE PersistDiscipline'
  BY <1>7 DEF PersistMerge
<1>8. ASSUME NEW p \in Procs, PersistWrite(p) PROVE PersistDiscipline'
  BY <1>8 DEF PersistWrite, PersistReturns, NoPersist
<1>9. ASSUME NEW p \in Procs, PersistFail(p) PROVE PersistDiscipline'
  BY <1>9 DEF PersistFail, PersistReturns, NoPersist
<1>10. ASSUME LockExpire PROVE PersistDiscipline'
  BY <1>10 DEF LockExpire
<1>11. ASSUME OwnerBoot PROVE PersistDiscipline'
  BY <1>11 DEF OwnerBoot
<1>12. ASSUME OwnerReady PROVE PersistDiscipline'
  BY <1>12 DEF OwnerReady
<1>13. ASSUME TakeMail PROVE PersistDiscipline'
  BY <1>13 DEF TakeMail
<1>14. ASSUME StartChat PROVE PersistDiscipline'
  BY <1>14 DEF StartChat
<1>15. ASSUME NEW o \in Settled, Settle(o) PROVE PersistDiscipline'
  BY <1>15 DEF Settle
<1>16. ASSUME NEW a \in BOOLEAN, Publish(a) PROVE PersistDiscipline'
  BY <1>16 DEF Publish
<1>17. ASSUME OfficeBoot PROVE PersistDiscipline'
  BY <1>17 DEF OfficeBoot
<1>18. ASSUME OfficeReady PROVE PersistDiscipline'
  BY <1>18 DEF OfficeReady
<1>19. ASSUME ScanRead PROVE PersistDiscipline'
  BY <1>19 DEF ScanRead
<1>20. ASSUME ScanMerge PROVE PersistDiscipline'
  BY <1>20, DetachedKeeps DEF ScanMerge, SetMail
<1>21. ASSUME ScanWrap PROVE PersistDiscipline'
  BY <1>21 DEF ScanWrap
<1>22. ASSUME ScanEnd PROVE PersistDiscipline'
  BY <1>22 DEF ScanEnd
<1>23. ASSUME NEW m \in Mails, IngestRead(m) PROVE PersistDiscipline'
  BY <1>23 DEF IngestRead
<1>24. ASSUME NEW m \in Mails, IngestSet(m) PROVE PersistDiscipline'
  BY <1>24, DetachedKeeps DEF IngestSet, SetMail
<1>25. ASSUME NEW m \in Mails, WrapUpEnd(m) PROVE PersistDiscipline'
  BY <1>25 DEF WrapUpEnd
<1>26. ASSUME OwnerCrash PROVE PersistDiscipline'
  BY <1>26 DEF OwnerCrash, Die, LockAfterDeathOf, NoPersist
<1>27. ASSUME OfficeCrash PROVE PersistDiscipline'
  BY <1>27 DEF OfficeCrash, Die, LockAfterDeathOf, NoPersist
<1>28. CASE UNCHANGED vars
  BY <1>28 DEF vars
<1> QED
  BY <1>1, <1>2, <1>3, <1>4, <1>5, <1>6, <1>7, <1>8, <1>9, <1>10, <1>11, <1>12, <1>13, <1>14,
     <1>15, <1>16, <1>17, <1>18, <1>19, <1>20, <1>21, <1>22, <1>23, <1>24, <1>25, <1>26, <1>27, <1>28
     DEF Next, PersistStep, OwnerStep, ScanStep

(***************************************************************************)
(* #workerLoop: the child has a mail from TakeMail until Publish.          *)
(***************************************************************************)

\* No step of any process takes the child's mail away while it is at work.
LEMMA WorkerStep ==
  ASSUME TypeOK, WorkerHasMail, [Next]_vars
  PROVE  WorkerHasMail'
<1> USE DEF TypeOK, WorkerHasMail, Mails
<1>1. ASSUME Delegate PROVE WorkerHasMail'
  BY <1>1 DEF Delegate, Dispatch
<1>2. ASSUME NEW p \in Peers, SendFrom(p) PROVE WorkerHasMail'
  BY <1>2 DEF SendFrom, Dispatch
<1>3. ASSUME NEW p \in Peers, Ask(p) PROVE WorkerHasMail'
  BY <1>3 DEF Ask, Dispatch
<1>4. ASSUME NEW p \in Peers, AskPoll(p) PROVE WorkerHasMail'
  BY <1>4 DEF AskPoll, SetMail
<1>5. ASSUME NEW p \in Peers, AskTimeout(p) PROVE WorkerHasMail'
  BY <1>5 DEF AskTimeout
<1>6. ASSUME NEW p \in Procs, PersistBegin(p) PROVE WorkerHasMail'
  BY <1>6 DEF PersistBegin
<1>7. ASSUME NEW p \in Procs, PersistMerge(p) PROVE WorkerHasMail'
  BY <1>7 DEF PersistMerge
<1>8. ASSUME NEW p \in Procs, PersistWrite(p) PROVE WorkerHasMail'
  BY <1>8 DEF PersistWrite, PersistReturns
<1>9. ASSUME NEW p \in Procs, PersistFail(p) PROVE WorkerHasMail'
  BY <1>9 DEF PersistFail, PersistReturns
<1>10. ASSUME LockExpire PROVE WorkerHasMail'
  BY <1>10 DEF LockExpire
<1>11. ASSUME OwnerBoot PROVE WorkerHasMail'
  BY <1>11 DEF OwnerBoot
<1>12. ASSUME OwnerReady PROVE WorkerHasMail'
  BY <1>12 DEF OwnerReady
<1>13. ASSUME TakeMail PROVE WorkerHasMail'
  BY <1>13 DEF TakeMail
<1>14. ASSUME StartChat PROVE WorkerHasMail'
  BY <1>14 DEF StartChat
<1>15. ASSUME NEW o \in Settled, Settle(o) PROVE WorkerHasMail'
  BY <1>15 DEF Settle
<1>16. ASSUME NEW a \in BOOLEAN, Publish(a) PROVE WorkerHasMail'
  BY <1>16 DEF Publish
<1>17. ASSUME OfficeBoot PROVE WorkerHasMail'
  BY <1>17 DEF OfficeBoot
<1>18. ASSUME OfficeReady PROVE WorkerHasMail'
  BY <1>18 DEF OfficeReady
<1>19. ASSUME ScanRead PROVE WorkerHasMail'
  BY <1>19 DEF ScanRead
<1>20. ASSUME ScanMerge PROVE WorkerHasMail'
  BY <1>20 DEF ScanMerge, SetMail
<1>21. ASSUME ScanWrap PROVE WorkerHasMail'
  BY <1>21 DEF ScanWrap
<1>22. ASSUME ScanEnd PROVE WorkerHasMail'
  BY <1>22 DEF ScanEnd
<1>23. ASSUME NEW m \in Mails, IngestRead(m) PROVE WorkerHasMail'
  BY <1>23 DEF IngestRead
<1>24. ASSUME NEW m \in Mails, IngestSet(m) PROVE WorkerHasMail'
  BY <1>24 DEF IngestSet, SetMail
<1>25. ASSUME NEW m \in Mails, WrapUpEnd(m) PROVE WorkerHasMail'
  BY <1>25 DEF WrapUpEnd
<1>26. ASSUME OwnerCrash PROVE WorkerHasMail'
  BY <1>26 DEF OwnerCrash, Die, LockAfterDeathOf
<1>27. ASSUME OfficeCrash PROVE WorkerHasMail'
  BY <1>27 DEF OfficeCrash, Die, LockAfterDeathOf
<1>28. CASE UNCHANGED vars
  BY <1>28 DEF vars
<1> QED
  BY <1>1, <1>2, <1>3, <1>4, <1>5, <1>6, <1>7, <1>8, <1>9, <1>10, <1>11, <1>12, <1>13, <1>14,
     <1>15, <1>16, <1>17, <1>18, <1>19, <1>20, <1>21, <1>22, <1>23, <1>24, <1>25, <1>26, <1>27, <1>28
     DEF Next, PersistStep, OwnerStep, ScanStep

\* Only the merge fills what waits to be written, and while it waits the lock
\* keeps every other process from writing the file.
LEMMA OnwardStep ==
  ASSUME NumMails <= MaxMail, TypeOK, PersistDiscipline, MergedIsOnward, [Next]_vars
  PROVE  MergedIsOnward'
<1> USE DEF TypeOK, PersistDiscipline, PersistState, Procs, MergedIsOnward
<1>1. ASSUME Delegate PROVE MergedIsOnward'
  BY <1>1 DEF Delegate, Dispatch
<1>2. ASSUME NEW p \in Peers, SendFrom(p) PROVE MergedIsOnward'
  BY <1>2 DEF SendFrom, Dispatch
<1>3. ASSUME NEW p \in Peers, Ask(p) PROVE MergedIsOnward'
  BY <1>3 DEF Ask, Dispatch
<1>4. ASSUME NEW p \in Peers, AskPoll(p) PROVE MergedIsOnward'
  BY <1>4, DetachedKeeps DEF AskPoll, SetMail
<1>5. ASSUME NEW p \in Peers, AskTimeout(p) PROVE MergedIsOnward'
  BY <1>5 DEF AskTimeout
<1>6. ASSUME NEW p \in Procs, PersistBegin(p) PROVE MergedIsOnward'
  BY <1>6 DEF PersistBegin
<1>7. ASSUME NEW p \in Procs, PersistMerge(p) PROVE MergedIsOnward'
  <2> DEFINE merged == Merge(disk, PersistSource(p))
  <2>1. PersistSource(p) \in Box
    BY DEF PersistSource
  <2>2. \A k \in Mails : Rank[merged[k]] >= Rank[disk[k]]
    BY <2>1, MergeIsOnward
  <2>3. /\ persist' = [persist EXCEPT ![p] = [pc |-> "merged", live |-> FALSE, box |-> merged]]
        /\ disk' = disk
    BY <1>7 DEF PersistMerge
  <2>4. \A q \in Procs \ {p} : persist'[q] = persist[q]
    BY <2>3
  <2> HIDE DEF merged
  <2> QED BY <2>2, <2>3, <2>4
<1>8. ASSUME NEW p \in Procs, PersistWrite(p) PROVE MergedIsOnward'
  BY <1>8 DEF PersistWrite, PersistReturns, NoPersist
<1>9. ASSUME NEW p \in Procs, PersistFail(p) PROVE MergedIsOnward'
  BY <1>9 DEF PersistFail, PersistReturns, NoPersist
<1>10. ASSUME LockExpire PROVE MergedIsOnward'
  BY <1>10 DEF LockExpire
<1>11. ASSUME OwnerBoot PROVE MergedIsOnward'
  BY <1>11 DEF OwnerBoot
<1>12. ASSUME OwnerReady PROVE MergedIsOnward'
  BY <1>12 DEF OwnerReady
<1>13. ASSUME TakeMail PROVE MergedIsOnward'
  BY <1>13 DEF TakeMail
<1>14. ASSUME StartChat PROVE MergedIsOnward'
  BY <1>14 DEF StartChat
<1>15. ASSUME NEW o \in Settled, Settle(o) PROVE MergedIsOnward'
  BY <1>15 DEF Settle
<1>16. ASSUME NEW a \in BOOLEAN, Publish(a) PROVE MergedIsOnward'
  BY <1>16 DEF Publish
<1>17. ASSUME OfficeBoot PROVE MergedIsOnward'
  BY <1>17 DEF OfficeBoot
<1>18. ASSUME OfficeReady PROVE MergedIsOnward'
  BY <1>18 DEF OfficeReady
<1>19. ASSUME ScanRead PROVE MergedIsOnward'
  BY <1>19 DEF ScanRead
<1>20. ASSUME ScanMerge PROVE MergedIsOnward'
  BY <1>20, DetachedKeeps DEF ScanMerge, SetMail
<1>21. ASSUME ScanWrap PROVE MergedIsOnward'
  BY <1>21 DEF ScanWrap
<1>22. ASSUME ScanEnd PROVE MergedIsOnward'
  BY <1>22 DEF ScanEnd
<1>23. ASSUME NEW m \in Mails, IngestRead(m) PROVE MergedIsOnward'
  BY <1>23 DEF IngestRead
<1>24. ASSUME NEW m \in Mails, IngestSet(m) PROVE MergedIsOnward'
  <2>1. disk' = disk /\ persist' = Detached(Office)
    BY <1>24 DEF IngestSet, SetMail
  <2>2. \A q \in Procs : persist'[q].pc = "merged" => persist'[q] = persist[q]
    BY <2>1, DetachedKeeps
  <2> QED BY <2>1, <2>2
<1>25. ASSUME NEW m \in Mails, WrapUpEnd(m) PROVE MergedIsOnward'
  BY <1>25 DEF WrapUpEnd
<1>26. ASSUME OwnerCrash PROVE MergedIsOnward'
  BY <1>26 DEF OwnerCrash, Die, LockAfterDeathOf, NoPersist
<1>27. ASSUME OfficeCrash PROVE MergedIsOnward'
  BY <1>27 DEF OfficeCrash, Die, LockAfterDeathOf, NoPersist
<1>28. CASE UNCHANGED vars
  BY <1>28 DEF vars
<1> QED
  BY <1>1, <1>2, <1>3, <1>4, <1>5, <1>6, <1>7, <1>8, <1>9, <1>10, <1>11, <1>12, <1>13, <1>14,
     <1>15, <1>16, <1>17, <1>18, <1>19, <1>20, <1>21, <1>22, <1>23, <1>24, <1>25, <1>26, <1>27, <1>28
     DEF Next, PersistStep, OwnerStep, ScanStep

(***************************************************************************)
(* The theorems                                                            *)
(***************************************************************************)
\* The inductive invariant.
PersistInv == TypeOK /\ PersistDiscipline /\ WorkerHasMail

\* Nothing is under way when the processes start on an empty mailbox.
LEMMA PersistInvInit == Init => PersistInv
BY BoxClosed, EmptySeq
   DEF Init, PersistInv, TypeOK, PersistDiscipline, WorkerHasMail, Quiet,
       NoPersist, PersistState, NoScan, NoIngest, Procs

\* Every variable of the mailbox keeps to its domain, for any number of mails,
\* peers and deaths and any capacity (ColleagueOffice's maps and chains).
THEOREM TypeCorrect == Spec => []TypeOK
<1>1. PersistInv /\ [Next]_vars => PersistInv'
  BY TypeStep, DisciplineStep, WorkerStep DEF PersistInv
<1>2. PersistInv => TypeOK
  BY DEF PersistInv
<1> QED BY <1>1, <1>2, PersistInvInit, PTL DEF Spec

\* The locking discipline of #persist holds: what is merged and not yet written
\* belongs to the lock's holder alone.
THEOREM LockDiscipline == Spec => []PersistDiscipline
<1>1. PersistInv /\ [Next]_vars => PersistInv'
  BY TypeStep, DisciplineStep, WorkerStep DEF PersistInv
<1>2. PersistInv => PersistDiscipline
  BY DEF PersistInv
<1> QED BY <1>1, <1>2, PersistInvInit, PTL DEF Spec

\* A step writes the file only in PersistWrite, and writes what was merged.
LEMMA OnlyWriteTouchesFile ==
  ASSUME [Next]_vars
  PROVE  \/ disk' = disk
         \/ \E p \in Procs : persist[p].pc = "merged" /\ disk' = persist[p].box
BY DEF Next, vars, Delegate, SendFrom, Ask, Dispatch, AskPoll, AskTimeout,
       PersistStep, PersistBegin, PersistMerge, PersistWrite, PersistFail,
       PersistReturns, LockExpire, OwnerStep, OwnerBoot, OwnerReady, TakeMail,
       StartChat, Settle, Publish, OfficeBoot, OfficeReady, ScanStep, ScanRead,
       ScanMerge, ScanWrap, ScanEnd, IngestRead, IngestSet, WrapUpEnd,
       OwnerCrash, OfficeCrash, Die

\* Below the capacity, no interleaving of the processes' persists and no death
\* loses a mail from the file or takes one back to an earlier status.
THEOREM FileOnlyMovesOn ==
  ASSUME NumMails <= MaxMail
  PROVE  Spec => FileNeverRegresses
<1> DEFINE Inv == PersistInv /\ MergedIsOnward
<1>1. Init => Inv
  BY PersistInvInit DEF Init, MergedIsOnward, NoPersist
<1>2. Inv /\ [Next]_vars => Inv'
  BY TypeStep, DisciplineStep, WorkerStep, OnwardStep DEF PersistInv
<1>3. Inv /\ [Next]_vars => [\A m \in Mails : Rank[disk'[m]] >= Rank[disk[m]]]_vars
  <2> SUFFICES ASSUME Inv, [Next]_vars, NEW m \in Mails
               PROVE  Rank[disk'[m]] >= Rank[disk[m]]
    OBVIOUS
  <2>1. CASE disk' = disk
    <3>1. Rank[disk[m]] \in Nat
      BY DEF PersistInv, TypeOK, Box, Status, Rank
    <3> QED BY <2>1, <3>1
  <2>2. CASE \E p \in Procs : persist[p].pc = "merged" /\ disk' = persist[p].box
    BY <2>2 DEF MergedIsOnward
  <2> QED BY <2>1, <2>2, OnlyWriteTouchesFile
<1> QED BY <1>1, <1>2, <1>3, PTL DEF Spec, FileNeverRegresses
=============================================================================
