------------------------------ MODULE FileJobs ------------------------------
(***************************************************************************)
(* Files sent in the background (weixin-bridge/src/jobs.ts): a request     *)
(* looks for a job of the same name, finds and reads the file, and makes a *)
(* job that runs at once or waits for one of the MaxConcurrent slots.      *)
(* Requests and jobs are numbered in the order they are made.              *)
(***************************************************************************)
EXTENDS Naturals, Sequences, FiniteSets, SequencesExt

CONSTANTS
  NumRequests,     \* bounds a behaviour
  Names,           \* the names the user may type
  FileOf,          \* name -> the file resolveFileByName takes it for
  MaxConcurrent,   \* MAX_CONCURRENT_JOBS
  MaxJobs          \* MAX_JOBS

ASSUME FileJobsAssumption ==
  /\ NumRequests \in Nat /\ Names # {}
  /\ FileOf \in [Names -> Names]
  /\ MaxConcurrent \in Nat \ {0} /\ MaxJobs \in Nat

Ids == 1..NumRequests

VARIABLES
  request,   \* request -> "none", "reading" or "over", its name, and whether another
             \* job of its file was made while it read (history)
  made,      \* how many jobs were made
  job,       \* job -> its file, its status, whether #run's finally is still to come
  waiting    \* #waiting

fileJobsVars == <<request, made, job, waiting>>

NoRequest == [at |-> "none", name |-> CHOOSE n \in Names : TRUE, passed |-> FALSE]
Answered == [NoRequest EXCEPT !.at = "over"]
NoJob == [file |-> CHOOSE n \in Names : TRUE, status |-> "none", atWork |-> FALSE,
          unseen |-> FALSE]

Uploading == {"uploading", "sending"}
Unfinished == {"queued"} \cup Uploading

FileJobsInit ==
  /\ request = [r \in Ids |-> NoRequest]
  /\ made = 0
  /\ job = [j \in Ids |-> NoJob]
  /\ waiting = <<>>

\* Mutant: a job that waits for its slot is not looked for.
ActiveFor_Running(n) == {j \in Ids : job[j].file = n /\ job[j].status \in Uploading}

\* The jobs under way with the name that was typed as their file's name.
ActiveFor(n) == {j \in Ids : job[j].file = n /\ job[j].status \in Unfinished}

\* A request for a name: it ends at once if such a job is under way.
Ask(r, n) ==
  /\ request[r].at = "none" /\ \A q \in Ids : q < r => request[q].at # "none"
  /\ request' = [request EXCEPT ![r] =
       IF ActiveFor(n) = {} THEN [at |-> "reading", name |-> n, passed |-> FALSE] ELSE Answered]
  /\ UNCHANGED <<made, job, waiting>>

\* No such file, an unreadable one or one too large.
AskFails(r) ==
  /\ request[r].at = "reading"
  /\ request' = [request EXCEPT ![r] = Answered]
  /\ UNCHANGED <<made, job, waiting>>

\* Mutant: a job that is being delivered has left its slot.
ActiveCount_Uploads(table) == Cardinality({j \in Ids : table[j].status = "uploading"})

ActiveCount(table) == Cardinality({j \in Ids : table[j].status \in Uploading})

Running(entry) == [entry EXCEPT !.status = "uploading", !.atWork = TRUE]

\* The file is read: its job is made, and runs or waits.
AskDone(r) ==
  /\ request[r].at = "reading"
  /\ made' = made + 1
  /\ LET f == FileOf[request[r].name]
         entry == [file |-> f, status |-> "queued", atWork |-> FALSE,
                   unseen |-> request[r].passed \/ request[r].name # f]
         waits == ActiveCount(job) >= MaxConcurrent
     IN  /\ job' = [job EXCEPT ![made'] = IF waits THEN entry ELSE Running(entry)]
         /\ waiting' = IF waits THEN Append(waiting, made') ELSE waiting
         /\ request' = [q \in Ids |->
              CASE q = r -> Answered
                [] q # r /\ request[q].at = "reading" /\ FileOf[request[q].name] = f
                       -> [request[q] EXCEPT !.passed = TRUE]
                [] OTHER -> request[q]]

Uploaded(j) ==
  /\ job[j].status = "uploading"
  /\ job' = [job EXCEPT ![j].status = "sending"]
  /\ UNCHANGED <<request, made, waiting>>

\* Delivered, or failed: the user is told before the finally.
Finishes(j, status) ==
  /\ job[j].status \in IF status = "done" THEN {"sending"} ELSE Uploading
  /\ job' = [job EXCEPT ![j].status = status]
  /\ UNCHANGED <<request, made, waiting>>

\* The waiting jobs that have a slot, in their order.
Drained(table) ==
  LET free == IF ActiveCount(table) < MaxConcurrent THEN MaxConcurrent - ActiveCount(table) ELSE 0
  IN  IF free < Len(waiting) THEN free ELSE Len(waiting)

\* #evict: of the finished jobs the oldest go, as many as the table has too many.
Evicted(table) ==
  LET kept == {j \in Ids : table[j].status \notin {"none", "evicted"}}
      finished == {j \in kept : table[j].status \in {"done", "failed"}}
  IN  {j \in finished : Cardinality({i \in finished : i < j}) + MaxJobs < Cardinality(kept)}

\* Mutant: a failed job does not look at the queue.
Release_OnSuccess(j) ==
  /\ job[j].status \in {"done", "failed", "evicted"} /\ job[j].atWork
  /\ LET n == IF job[j].status = "failed" THEN 0 ELSE Drained(job)
     IN  /\ job' = [i \in Ids |-> IF i = j THEN [job[i] EXCEPT !.atWork = FALSE]
                                  ELSE IF \E k \in 1..n : waiting[k] = i THEN Running(job[i])
                                  ELSE job[i]]
         /\ waiting' = SubSeq(waiting, n + 1, Len(waiting))
  /\ UNCHANGED <<request, made>>

\* #run's finally: the queue is drained into the free slots, then old jobs go.
Release(j) ==
  /\ job[j].status \in {"done", "failed", "evicted"} /\ job[j].atWork
  /\ LET n == Drained(job)
         drained == [i \in Ids |-> IF i = j THEN [job[i] EXCEPT !.atWork = FALSE]
                                   ELSE IF \E k \in 1..n : waiting[k] = i THEN Running(job[i])
                                   ELSE job[i]]
     IN  /\ job' = [i \in Ids |-> IF i \in Evicted(drained)
                                  THEN [drained[i] EXCEPT !.status = "evicted"] ELSE drained[i]]
         /\ waiting' = SubSeq(waiting, n + 1, Len(waiting))
  /\ UNCHANGED <<request, made>>

FileJobsNext ==
  \/ \E r \in Ids, n \in Names : Ask(r, n)
  \/ \E r \in Ids : AskFails(r) \/ AskDone(r)
  \/ \E j \in Ids : Uploaded(j) \/ Release(j) \/ \E status \in {"done", "failed"} : Finishes(j, status)

FileJobsSpec == FileJobsInit /\ [][FileJobsNext]_fileJobsVars

(***************************************************************************)
(* Properties                                                              *)
(***************************************************************************)
\* Every variable keeps to its domain.
FileJobsTypeOK ==
  /\ request \in [Ids -> [at : {"none", "reading", "over"}, name : Names, passed : BOOLEAN]]
  /\ made \in 0..NumRequests
  /\ job \in [Ids -> [file : Names, unseen : BOOLEAN, atWork : BOOLEAN,
                      status : Unfinished \cup {"none", "done", "failed", "evicted"}]]
  /\ waiting \in Seq(Ids)

\* At most MaxConcurrent files are on their way, new requests that overtake the
\* queue included; and a job that waits is in the queue once, with a running
\* job that will look at the queue when it ends ("over it: they queue").
QueueIsServed ==
  /\ ActiveCount(job) <= MaxConcurrent
  /\ \A j \in Ids : job[j].status = "queued" <=> \E k \in DOMAIN waiting : waiting[k] = j
  /\ IsInjective(waiting)
  /\ waiting # <<>> => \E j \in Ids : job[j].atWork

\* "The same file is being sent" (activeFor): a file is on its way once, unless a
\* request for it was reading while the other job was made, or the name typed is
\* not the file's own: the check compares the former, the job has the latter.
OneJobPerFile ==
  \A i, j \in Ids : /\ i < j /\ job[i].file = job[j].file
                    /\ job[i].status \in Unfinished /\ job[j].status \in Unfinished
                    => job[j].unseen

\* Both: each file is sent in its turn, and once.
SentInTurnOnce == QueueIsServed /\ OneJobPerFile
=============================================================================
