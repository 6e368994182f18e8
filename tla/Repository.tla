----------------------------- MODULE Repository -----------------------------
(***************************************************************************)
(* The repository that everybody works in: each colleague's mail is        *)
(* delivered as a commit (deliverMailChanges of git-delivery.ts, called by *)
(* colleague-office.ts), and the self.commit tool commits whatever is      *)
(* there.  Deliveries exclude each other (#withGit and the lock file);     *)
(* writers and self.commit do not ask for that lock.  A push that fails    *)
(* only adds a note.  Files are those that isDeliveryNoise and git's       *)
(* ignore rules let through.                                               *)
(***************************************************************************)
EXTENDS Naturals

CONSTANTS
  Errands,      \* the mails of a behaviour that are delivered: bounds it
  Paths,        \* the files they change
  MaxGitFaults  \* git commands of a behaviour that fail: bounds it

Free == "free"

ASSUME RepositoryAssumption == MaxGitFaults \in Nat /\ Free \notin Errands

VARIABLES
  errand,      \* where each mail is
  modified,    \* files whose working copy is not in the index
  inIndex,     \* files whose copy in the index is not in HEAD
  startList,   \* each mail's git status when it started (#gitSnapshots)
  since,       \* files written since each mail started: mtime > startedAt
  selected,    \* the files of each delivery
  gitLock,     \* the mail whose delivery holds the lock, or Free
  selfCommit,  \* "idle", or "added": self.commit between its add and its commit
  owes,        \* each mail's writes that no commit has (history)
  unindexed,   \* each mail's writes that the index has not (history)
  leftIn,      \* files that were put into the index by somebody else than the delivery that
               \* commits: by self.commit, or by a delivery whose commit failed (history)
  strays,      \* files of a delivery's commit that are neither new work nor left in (history)
  gitFaults

repoVars == <<errand, modified, inIndex, startList, since, selected, gitLock, selfCommit, owes,
              unindexed, leftIn, strays, gitFaults>>
treeVars == <<modified, inIndex, owes, unindexed, leftIn, strays>>

RepoInit ==
  /\ errand = [m \in Errands |-> "new"]
  /\ modified \in SUBSET Paths /\ inIndex = {}
  /\ startList = [m \in Errands |-> {}] /\ since = [m \in Errands |-> {}]
  /\ selected = [m \in Errands |-> {}]
  /\ gitLock = Free /\ selfCommit = "idle"
  /\ owes = [m \in Errands |-> {}] /\ unindexed = [m \in Errands |-> {}]
  /\ leftIn = {} /\ strays = {} /\ gitFaults = 0

GitFails == gitFaults < MaxGitFaults /\ gitFaults' = gitFaults + 1
GitSucceeds == UNCHANGED gitFaults
Becomes(m, state) ==
  errand' = [errand EXCEPT ![m] = state] /\ UNCHANGED <<startList, since, selected>>
\* #settle forgets the mail's snapshot.
ErrandEnds(m, outcome) ==
  /\ errand' = [errand EXCEPT ![m] = outcome]
  /\ startList' = [startList EXCEPT ![m] = {}] /\ since' = [since EXCEPT ![m] = {}]
  /\ selected' = [selected EXCEPT ![m] = {}]
\* git status --porcelain
Status == modified \cup inIndex

\* #snapshotGit, then the work begins.  Without a snapshot ("unseen") there will
\* be no delivery.
ErrandStarts(m) ==
  /\ errand[m] = "new"
  /\ \/ GitFails /\ ErrandEnds(m, "unseen")
     \/ /\ GitSucceeds
        /\ errand' = [errand EXCEPT ![m] = "working"]
        /\ startList' = [startList EXCEPT ![m] = Status]
        /\ UNCHANGED <<since, selected>>
  /\ UNCHANGED <<treeVars, gitLock, selfCommit>>

\* A file is written: by the mail's worker, or (m is Free) by somebody whose work is not
\* delivered: the user, the assistant, a colleague that is only asked something
\* (shouldAutoCommitMail), a worker without a snapshot.
FileIsWritten(m, f) ==
  /\ m # Free => errand[m] = "working"
  /\ modified' = modified \cup {f}
  /\ since' = [n \in Errands |-> IF errand[n] \in {"working", "listed", "added"}
                                 THEN since[n] \cup {f} ELSE since[n]]
  /\ owes' = [n \in Errands |-> IF n = m THEN owes[n] \cup {f} ELSE owes[n]]
  /\ unindexed' = [n \in Errands |-> IF n = m THEN unindexed[n] \cup {f} ELSE unindexed[n]]
  /\ UNCHANGED <<errand, inIndex, startList, selected, gitLock, selfCommit, leftIn, strays, gitFaults>>

\* Mutants: a file that was dirty at the start is nobody's; everything dirty is taken.
Candidates_NewOnly(m) == Status \ startList[m]
Candidates_All(m) == Status

\* selectDeliveryCandidates: new in the list, or written since the mail started.
Candidates(m) == (Status \ startList[m]) \cup (Status \cap since[m])

\* deliverMailChanges takes the lock and looks at what there is.  When git has no answer
\* ("blind") or there is no candidate it is over.
DeliveryLists(m) ==
  /\ errand[m] = "working" /\ gitLock = Free
  /\ \/ GitFails /\ ErrandEnds(m, "blind") /\ UNCHANGED gitLock
     \/ /\ GitSucceeds
        /\ IF Candidates(m) = {}
           THEN ErrandEnds(m, "skipped") /\ UNCHANGED gitLock
           ELSE /\ errand' = [errand EXCEPT ![m] = "listed"] /\ gitLock' = m
                /\ selected' = [selected EXCEPT ![m] = Candidates(m)]
                /\ UNCHANGED <<startList, since>>
  /\ UNCHANGED <<treeVars, selfCommit>>

\* git add of files, for whoever asks.
Adds(files) ==
  /\ inIndex' = inIndex \cup (modified \cap files)
  /\ modified' = modified \ files
  /\ unindexed' = [n \in Errands |-> unindexed[n] \ files]
  /\ UNCHANGED <<owes, strays>>

\* git add, and git diff --cached: with nothing in the index there is nothing to commit.
DeliveryAdds(m) ==
  /\ errand[m] = "listed"
  /\ \/ GitFails /\ ErrandEnds(m, "failed") /\ gitLock' = Free /\ UNCHANGED treeVars
     \/ /\ GitSucceeds /\ Adds(selected[m]) /\ UNCHANGED leftIn
        /\ IF inIndex' = {}
           THEN ErrandEnds(m, "skipped") /\ gitLock' = Free
           ELSE Becomes(m, "added") /\ UNCHANGED gitLock
  /\ UNCHANGED selfCommit

\* git commit names no file: all of the index goes into it.
Commits ==
  /\ inIndex # {}
  /\ inIndex' = {} /\ leftIn' = {}
  /\ owes' = [n \in Errands |-> owes[n] \cap unindexed[n]]
  /\ UNCHANGED <<modified, unindexed>>

\* The commit and the push.  It fails by itself, or because self.commit has just taken the
\* index; the files stay in the index.
DeliveryCommits(m) ==
  /\ errand[m] = "added"
  /\ gitLock' = Free
  /\ \/ /\ GitSucceeds /\ Commits /\ ErrandEnds(m, "committed")
        /\ strays' = strays \cup (inIndex \ (since[m] \cup leftIn))
     \/ /\ \/ inIndex = {} /\ GitSucceeds
           \/ inIndex # {} /\ GitFails
        /\ ErrandEnds(m, "failed")
        /\ leftIn' = leftIn \cup inIndex
        /\ UNCHANGED <<modified, inIndex, owes, unindexed, strays>>
  /\ UNCHANGED selfCommit

\* self.commit: git add -A ...
SelfAdds ==
  /\ selfCommit = "idle" /\ Status # {}
  /\ Adds(Paths) /\ leftIn' = leftIn \cup modified
  /\ selfCommit' = "added"
  /\ UNCHANGED <<errand, startList, since, selected, gitLock, gitFaults>>

\* ... and git commit, or its failure.
SelfCommits ==
  /\ selfCommit = "added"
  /\ selfCommit' = "idle"
  /\ \/ GitSucceeds /\ Commits /\ UNCHANGED strays
     \/ /\ \/ inIndex = {} /\ GitSucceeds
           \/ inIndex # {} /\ GitFails
        /\ UNCHANGED treeVars
  /\ UNCHANGED <<errand, startList, since, selected, gitLock>>

\* self.rollback, git reset --hard: all that is not committed is given up, but for files
\* that git does not know yet.  What is given up on purpose is owed no more.
SelfRollsBack ==
  /\ Status # {}
  /\ \E untracked \in SUBSET (modified \ inIndex) :
       /\ modified' = untracked /\ inIndex' = {} /\ leftIn' = {}
       /\ owes' = [n \in Errands |-> owes[n] \cap untracked]
       /\ unindexed' = [n \in Errands |-> unindexed[n] \cap untracked]
  /\ UNCHANGED <<errand, startList, since, selected, gitLock, selfCommit, strays, gitFaults>>

RepoNext ==
  \/ \E m \in Errands :
       \/ ErrandStarts(m) \/ DeliveryLists(m) \/ DeliveryAdds(m) \/ DeliveryCommits(m)
  \/ \E m \in Errands \cup {Free}, f \in Paths : FileIsWritten(m, f)
  \/ SelfAdds \/ SelfCommits \/ SelfRollsBack

RepoSpec == RepoInit /\ [][RepoNext]_repoVars

(***************************************************************************)
(* Properties                                                              *)
(***************************************************************************)
\* Every variable keeps to its domain.
RepoTypeOK ==
  /\ errand \in [Errands -> {"new", "working", "unseen", "blind", "listed", "added", "committed",
                             "skipped", "failed"}]
  /\ modified \cup inIndex \cup leftIn \cup strays \subseteq Paths
  /\ {startList, since, selected, owes, unindexed} \subseteq [Errands -> SUBSET Paths]
  /\ gitLock \in Errands \cup {Free} /\ selfCommit \in {"idle", "added"}
  /\ gitFaults \in 0..MaxGitFaults

\* A mail's commit holds only what was written since the mail started, by whomever
\* (deliverMailChanges: its doc comment).  Except files that somebody else had put into
\* the index: self.commit, which does not take the lock, or a delivery whose commit failed.
OnlyNewWork == strays = {}

\* What a worker wrote is in the repository's history when its delivery reports a commit,
\* or nothing to commit, also when the file was dirty before.  Except when git had no
\* answer to the second git status: that too is reported as nothing to commit.
WorkIsDelivered == \A m \in Errands : errand[m] \in {"committed", "skipped"} => owes[m] = {}

\* Both, of the deliveries.
DeliveriesAreExact == OnlyNewWork /\ WorkIsDelivered
=============================================================================
