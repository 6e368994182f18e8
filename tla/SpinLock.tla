------------------------------ MODULE SpinLock ------------------------------
(***************************************************************************)
(* The lock of a file between processes (services/file-lock.ts) without    *)
(* flock, which Node's FileHandle does not have: a lock file created with  *)
(* O_EXCL, into which its maker then writes the time.  A waiter that finds *)
(* the time older than 120 s removes the file and tries again; after 60 s  *)
(* it gives up.  Files are numbered as they are made: a waiter reads the   *)
(* file it opened, but unlinks whatever has its name by then.              *)
(***************************************************************************)
EXTENDS Naturals

CONSTANTS
  Lockers,          \* the processes
  MaxFiles,         \* lock files made: bounds a behaviour
  MaxSpinFaults

ASSUME SpinAssumption == MaxFiles \in Nat /\ MaxSpinFaults \in Nat

LockFiles == 1..MaxFiles

VARIABLES
  lockFile,     \* the file at the lock's path, 0 when none
  filesMade,
  stamped,      \* the files whose time is written
  aged,         \* those whose time is older than SPIN_STALE_MS
  spinning,     \* process -> where withExclusiveFileLock is
  mine,         \* process -> the file it made
  looked,       \* process -> the file it reads
  spinFaults,
  excuses       \* how the file of a living process was taken away (history)

spinVars == <<lockFile, filesMade, stamped, aged, spinning, mine, looked, spinFaults, excuses>>

SpinInit ==
  /\ lockFile = 0 /\ filesMade = 0 /\ stamped = {} /\ aged = {}
  /\ spinning = [p \in Lockers |-> "out"]
  /\ mine = [p \in Lockers |-> 0] /\ looked = [p \in Lockers |-> 0]
  /\ spinFaults = 0 /\ excuses = {}

SpinAt(p, where) == spinning' = [spinning EXCEPT ![p] = where]

\* Mutant: the file is opened to be written, whether it is there or not.
SpinMakes_Overwrites(p) ==
  /\ spinning[p] = "out" /\ filesMade < MaxFiles
  /\ filesMade' = filesMade + 1
  /\ lockFile' = filesMade'
  /\ mine' = [mine EXCEPT ![p] = filesMade']
  /\ SpinAt(p, "stamping")
  /\ UNCHANGED <<stamped, aged, looked, spinFaults, excuses>>

\* open with "wx": there was no file.
SpinMakes(p) ==
  /\ spinning[p] = "out" /\ lockFile = 0 /\ filesMade < MaxFiles
  /\ filesMade' = filesMade + 1
  /\ lockFile' = filesMade'
  /\ mine' = [mine EXCEPT ![p] = filesMade']
  /\ SpinAt(p, "stamping")
  /\ UNCHANGED <<stamped, aged, looked, spinFaults, excuses>>

\* The time is written: the lock is held.
SpinStamps(p) ==
  /\ spinning[p] = "stamping"
  /\ stamped' = stamped \cup {mine[p]}
  /\ SpinAt(p, "inside")
  /\ UNCHANGED <<lockFile, filesMade, aged, mine, looked, spinFaults, excuses>>

\* It cannot be written: withExclusiveFileLock throws, and the file stays.
SpinStampFails(p) ==
  /\ spinning[p] = "stamping" /\ spinFaults < MaxSpinFaults
  /\ spinFaults' = spinFaults + 1
  /\ SpinAt(p, "out")
  /\ UNCHANGED <<lockFile, filesMade, stamped, aged, mine, looked, excuses>>

\* EEXIST: the file that is there is opened.
SpinOpens(p) ==
  /\ spinning[p] = "out" /\ lockFile # 0
  /\ looked' = [looked EXCEPT ![p] = lockFile]
  /\ SpinAt(p, "reading")
  /\ UNCHANGED <<lockFile, filesMade, stamped, aged, mine, spinFaults, excuses>>

\* A file without a time counts as written at the epoch: Number('') is 0.
IsStale(f) == f \notin stamped \/ f \in aged

\* Stale, or to be waited for (or, after 60 s, no longer).
SpinReads(p) ==
  /\ spinning[p] = "reading"
  /\ SpinAt(p, IF IsStale(looked[p]) THEN "removing" ELSE "out")
  /\ UNCHANGED <<lockFile, filesMade, stamped, aged, mine, looked, spinFaults, excuses>>

\* Whose file goes when p unlinks the lock's path, and why it should not.
Wronged(p, f) ==
  IF lockFile # 0 /\ \E q \in Lockers \ {p} : mine[q] = lockFile /\ spinning[q] \in {"stamping", "inside"}
  THEN IF lockFile # f THEN {"another_file"}
       ELSE IF f \notin aged THEN {"no_time_yet"} ELSE {"too_old"}
  ELSE {}

SpinRemoves(p) ==
  /\ spinning[p] = "removing"
  /\ excuses' = excuses \cup Wronged(p, looked[p])
  /\ lockFile' = 0
  /\ SpinAt(p, "out")
  /\ UNCHANGED <<filesMade, stamped, aged, mine, looked, spinFaults>>

\* releaseSpinLock: the path is unlinked, whoever's file it is.
SpinLeaves(p) ==
  /\ spinning[p] = "inside"
  /\ excuses' = excuses \cup Wronged(p, mine[p])
  /\ lockFile' = 0
  /\ SpinAt(p, "out")
  /\ UNCHANGED <<filesMade, stamped, aged, mine, looked, spinFaults>>

\* 120 s after the time in it.
SpinAges(f) ==
  /\ f \in stamped \ aged
  /\ aged' = aged \cup {f}
  /\ UNCHANGED <<lockFile, filesMade, stamped, spinning, mine, looked, spinFaults, excuses>>

\* The process dies.
SpinDies(p) ==
  /\ spinning[p] \notin {"out", "dead"} /\ spinFaults < MaxSpinFaults
  /\ spinFaults' = spinFaults + 1
  /\ SpinAt(p, "dead")
  /\ UNCHANGED <<lockFile, filesMade, stamped, aged, mine, looked, excuses>>

SpinStep(p) ==
  \/ SpinMakes(p) \/ SpinStamps(p) \/ SpinStampFails(p) \/ SpinOpens(p) \/ SpinReads(p)
  \/ SpinRemoves(p) \/ SpinLeaves(p) \/ SpinDies(p)

SpinNext == (\E p \in Lockers : SpinStep(p)) \/ (\E f \in LockFiles : SpinAges(f))

SpinSpec == SpinInit /\ [][SpinNext]_spinVars

(***************************************************************************)
(* Properties                                                              *)
(***************************************************************************)
\* Every variable keeps to its domain.
SpinTypeOK ==
  /\ lockFile \in 0..MaxFiles /\ filesMade \in 0..MaxFiles
  /\ stamped \subseteq LockFiles /\ aged \subseteq stamped
  /\ spinning \in [Lockers -> {"out", "stamping", "reading", "removing", "inside", "dead"}]
  /\ mine \in [Lockers -> 0..MaxFiles] /\ looked \in [Lockers -> 0..MaxFiles]
  /\ spinFaults \in 0..MaxSpinFaults
  /\ excuses \subseteq {"another_file", "no_time_yet", "too_old"}

SpinHolders == {p \in Lockers : spinning[p] \in {"stamping", "inside"}}

\* No two processes hold the lock, whatever dies and whenever, until the file of
\* a living holder is taken away: by a waiter that read it before its time was
\* written, by one that found its time over 120 s old, or by one that unlinks
\* a file other than the one it judged, or made.
SpinExclusive ==
  excuses = {} => \A p \in SpinHolders : /\ lockFile = mine[p]
                                        /\ \A q \in SpinHolders : q = p
=============================================================================
