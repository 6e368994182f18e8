------------------------- MODULE TaskSchedulerProofs -------------------------
(***************************************************************************)
(* That the slots of checkNow are neither lost nor exceeded, and that      *)
(* ticks which do not overlap run each moment once, for any number of      *)
(* tasks, slots, store errors and restarts.                                *)
(***************************************************************************)
EXTENDS TaskScheduler, FiniteSetTheorems, TLAPS

USE SchedulerAssumption

\* A task is its number.
LEMMA TasksAreNumbers == Tasks \subseteq Int
  BY DEF Tasks, SchedulerAssumption

(***************************************************************************)
(* The first tasks of a list                                               *)
(***************************************************************************)
\* Any set of tasks is finite.
LEMMA TasksFinite == ASSUME NEW S \in SUBSET Tasks PROVE IsFiniteSet(S) /\ Cardinality(S) \in Nat
  <1>1. IsFiniteSet(Tasks) BY FS_Interval DEF Tasks, SchedulerAssumption
  <1> QED BY <1>1, FS_Subset, FS_CardinalityType

\* The first n tasks of a set are at most n: each has a place of its own among
\* the n first.
LEMMA FirstOfBounded ==
  ASSUME NEW S \in SUBSET Tasks, NEW n \in Nat
  PROVE  FirstOf(S, n) \subseteq S /\ Cardinality(FirstOf(S, n)) <= n
  <1> DEFINE F == FirstOf(S, n)
             Before(t) == {u \in S : u < t}
             place == [t \in F |-> Cardinality(Before(t))]
  <1>1. F \subseteq S /\ F \subseteq Int BY TasksAreNumbers DEF FirstOf
  <1>2. \A t : Before(t) \in SUBSET Tasks OBVIOUS
  <1>3. \A t : IsFiniteSet(Before(t)) /\ Cardinality(Before(t)) \in Nat BY <1>2, TasksFinite
  <1>4. \A t \in F : Cardinality(Before(t)) < n BY DEF FirstOf
  <1>5. \A t, u \in F : t < u => Before(t) \cup {t} \subseteq Before(u)
    <2>1. \A t, u \in F, v \in S : v < t /\ t < u => v < u BY <1>1, TasksAreNumbers
    <2> QED BY <1>1, <2>1
  <1>6. \A t : t \in Int => t \notin Before(t) OBVIOUS
  <1> HIDE DEF F, Before
  <1>7. \A t, u \in F : t < u => Cardinality(Before(t)) < Cardinality(Before(u))
    <2> SUFFICES ASSUME NEW t \in F, NEW u \in F, t < u
                 PROVE  Cardinality(Before(t)) < Cardinality(Before(u))
      OBVIOUS
    <2>1. Cardinality(Before(t) \cup {t}) = Cardinality(Before(t)) + 1
      BY <1>1, <1>3, <1>6, FS_AddElement
    <2>2. Cardinality(Before(t) \cup {t}) <= Cardinality(Before(u)) BY <1>3, <1>5, FS_Subset
    <2> QED BY <1>3, <2>1, <2>2
  <1>8. place \in [F -> 0..(n - 1)] BY <1>3, <1>4
  <1>9. \A t, u \in F : place[t] = place[u] => t = u
    <2> SUFFICES ASSUME NEW t \in F, NEW u \in F, place[t] = place[u] PROVE t = u
      OBVIOUS
    <2>1. Cardinality(Before(t)) = Cardinality(Before(u)) OBVIOUS
    <2>2. ~(t < u) /\ ~(u < t) BY <1>3, <1>7, <2>1
    <2> QED BY <1>1, <2>2
  <1> HIDE DEF place
  <1>10. place \in Injection(F, 0..(n - 1)) BY <1>8, <1>9 DEF Injection, IsInjective
  <1>11. IsFiniteSet(0..(n - 1)) /\ Cardinality(0..(n - 1)) = n
    <2>1. CASE n = 0
      <3>1. 0..(n - 1) = {} BY <2>1
      <3> QED BY <2>1, <3>1, FS_EmptySet
    <2>2. CASE n # 0
      <3>1. 0 \in Int /\ n - 1 \in Int /\ ~(0 > n - 1) BY <2>2
      <3> QED BY <3>1, FS_Interval
    <2> QED BY <2>1, <2>2
  <1>12. Cardinality(F) <= n BY <1>10, <1>11, FS_Injection
  <1> QED BY <1>1, <1>12 DEF F

(***************************************************************************)
(* The inductive invariant                                                 *)
(***************************************************************************)
\* A tick has jobs only while its workers are at them.
TickJobs == \A i \in Ticks, t \in Tasks : tick[i].pc # "working" => job[i][t] = "none"

\* A mark has its run; until a task is marked twice a run has its mark, and no
\* other tick runs the same task.
MarksAreRuns ==
  /\ \A t \in running : \E i \in Ticks : job[i][t] \in Active
  /\ ~doubled => \A i \in Ticks, t \in Tasks : job[i][t] \in Active => t \in running
  /\ ~doubled => \A i, k \in Ticks, t \in Tasks :
                    job[i][t] \in Active /\ job[k][t] \in Active => i = k

SlotsBounded == ~doubled => Cardinality(running) <= MaxConcurrent

IInv == TypeOK /\ TickJobs /\ MarksAreRuns /\ SlotsBounded

(***************************************************************************)
(* The domains                                                             *)
(***************************************************************************)
\* A tick that is not under way.
LEMMA NoTickType ==
  NoTick \in [pc : {"none", "listed", "working"}, listing : [Tasks -> Times \cup {Never}]]
  BY DEF NoTick

\* A stamp is a moment.
LEMMA StampedType ==
  ASSUME TypeOK, NEW t \in Tasks, NEW s \in Times PROVE Stamped(t, s) \in [Tasks -> Times]
  BY DEF Stamped, TypeOK

\* The end of a run, well or not.
LEMMA ReleaseType ==
  ASSUME TypeOK, NEW i \in Ticks, NEW t \in Tasks, Release(i, t),
         base' \in [Tasks -> Times], faults' \in 0..MaxFaults
  PROVE  TypeOK'
  <1> DEFINE next == FirstOf({u \in Tasks : job[i][u] = "waiting"}, 1)
             after == [u \in Tasks |-> IF u = t THEN "none"
                               ELSE IF u \in next THEN "starting" ELSE job[i][u]]
  <1>1. next \subseteq Tasks BY DEF FirstOf
  <1>2. after \in [Tasks -> JobStates] BY DEF TypeOK, JobStates
  <1>3. job' = [job EXCEPT ![i] = after] BY DEF Release
  <1>4. running' = (running \ {t}) \cup next BY DEF Release
  <1>5. startedAt' = [startedAt EXCEPT ![i] =
           [u \in Tasks |-> IF u = t THEN 0 ELSE IF u \in next THEN now ELSE @[u]]] BY DEF Release
  <1>6. tick' = tick \/ tick' = [tick EXCEPT ![i] = NoTick] BY DEF Release
  <1>7. doubled' \in BOOLEAN BY DEF Release, TypeOK
  <1>8. UNCHANGED <<now, task, fires, overlapped>> BY DEF Release
  <1> HIDE DEF next, after
  <1>9. job' \in [Ticks -> [Tasks -> JobStates]] BY <1>2, <1>3 DEF TypeOK
  <1>10. startedAt' \in [Ticks -> [Tasks -> Times]]
    <2>1. 0 \in Times BY SchedulerAssumption DEF Times
    <2> QED BY <1>5, <2>1 DEF TypeOK
  <1>11. tick' \in [Ticks -> [pc : {"none", "listed", "working"},
                            listing : [Tasks -> Times \cup {Never}]]]
    BY <1>6, NoTickType DEF TypeOK
  <1>12. running' \subseteq Tasks BY <1>1, <1>4 DEF TypeOK
  <1> QED BY <1>7, <1>8, <1>9, <1>10, <1>11, <1>12 DEF TypeOK

\* The domains at the start.
LEMMA TypeInit == Init => TypeOK
  <1> SUFFICES ASSUME Init PROVE TypeOK OBVIOUS
  <1>1. 0 \in Times /\ 0 \in 0..MaxFaults BY SchedulerAssumption DEF Times
  <1>2. fires \in [Tasks -> [Times -> 0..2]] BY DEF Init
  <1>3. job \in [Ticks -> [Tasks -> JobStates]] BY DEF Init, JobStates
  <1>4. startedAt \in [Ticks -> [Tasks -> Times]] BY <1>1 DEF Init
  <1>5. overlapped \in BOOLEAN /\ doubled \in BOOLEAN BY DEF Init
  <1>6. tick \in [Ticks -> [pc : {"none", "listed", "working"},
                          listing : [Tasks -> Times \cup {Never}]]] BY NoTickType DEF Init
  <1> QED BY <1>1, <1>2, <1>3, <1>4, <1>5, <1>6 DEF Init, TypeOK

\* Each step keeps the domains.
LEMMA TypeStep == TypeOK /\ [Next]_vars => TypeOK'
  <1> SUFFICES ASSUME TypeOK, [Next]_vars PROVE TypeOK' OBVIOUS
  <1>1. CASE PassTime BY <1>1, SchedulerAssumption DEF PassTime, TypeOK, Times
  <1>2. ASSUME NEW t \in Tasks, Create(t) PROVE TypeOK' BY <1>2 DEF Create, TypeOK
  <1>3. ASSUME NEW t \in Tasks, Delete(t) PROVE TypeOK' BY <1>3 DEF Delete, TypeOK
  <1>4. ASSUME NEW i \in Ticks, TickList(i) PROVE TypeOK'
    <2>1. tick' \in [Ticks -> [pc : {"none", "listed", "working"},
                             listing : [Tasks -> Times \cup {Never}]]]
      BY <1>4 DEF TickList, TypeOK
    <2>2. overlapped' \in BOOLEAN BY <1>4 DEF TickList, TypeOK
    <2> QED BY <1>4, <2>1, <2>2 DEF TickList, TypeOK
  <1>5. ASSUME NEW i \in Ticks, TickSkip(i) PROVE TypeOK'
    BY <1>5 DEF TickSkip, TypeOK, NoTick
  <1>6. ASSUME NEW i \in Ticks, TickRun(i) PROVE TypeOK'
    <2>1. FirstOf(Due(i), FreeSlots) \subseteq Tasks BY DEF FirstOf, Due
    <2>2. running' \subseteq Tasks BY <1>6, <2>1 DEF TickRun, TypeOK
    <2>3. job' \in [Ticks -> [Tasks -> JobStates]] BY <1>6 DEF TickRun, TypeOK, JobStates
    <2>4. 0 \in Times BY SchedulerAssumption DEF Times
    <2>5. startedAt' \in [Ticks -> [Tasks -> Times]] BY <1>6, <2>4 DEF TickRun, TypeOK
    <2>6. tick' \in [Ticks -> [pc : {"none", "listed", "working"},
                             listing : [Tasks -> Times \cup {Never}]]]
      BY <1>6 DEF TickRun, TypeOK, NoTick
    <2> QED BY <1>6, <2>2, <2>3, <2>5, <2>6 DEF TickRun, TypeOK
  <1>7. ASSUME NEW i \in Ticks, NEW t \in Tasks, JobMark(i, t) PROVE TypeOK'
    <2>1. base' \in [Tasks -> Times] BY <1>7, StampedType DEF JobMark, TypeOK
    <2>2. \A o \in Times : fires[t][o] \in 0..2 BY DEF TypeOK
    <2>3. fires' \in [Tasks -> [Times -> 0..2]] BY <1>7, <2>2 DEF JobMark, TypeOK
    <2>4. job' \in [Ticks -> [Tasks -> JobStates]] BY <1>7 DEF JobMark, TypeOK, JobStates
    <2> QED BY <1>7, <2>1, <2>3, <2>4 DEF JobMark, TypeOK
  <1>8. ASSUME NEW i \in Ticks, NEW t \in Tasks, JobEnd(i, t) PROVE TypeOK'
    BY <1>8, ReleaseType DEF JobEnd, TypeOK
  <1>9. ASSUME NEW i \in Ticks, NEW t \in Tasks, NEW stamped \in BOOLEAN, JobFail(i, t, stamped)
        PROVE  TypeOK'
    <2>1. base' \in [Tasks -> Times] BY <1>9, StampedType DEF JobFail, TypeOK
    <2>2. faults' \in 0..MaxFaults BY <1>9, SchedulerAssumption DEF JobFail, TypeOK
    <2> QED BY <1>9, <2>1, <2>2, ReleaseType DEF JobFail
  <1>10. CASE Restart
    <2>1. 0 \in Times BY SchedulerAssumption DEF Times
    <2>2. faults' \in 0..MaxFaults BY <1>10, SchedulerAssumption DEF Restart, TypeOK
    <2> QED BY <1>10, <2>1, <2>2 DEF Restart, TypeOK, NoTick, JobStates
  <1>11. CASE UNCHANGED vars BY <1>11 DEF vars, TypeOK
  <1> QED BY <1>1, <1>2, <1>3, <1>4, <1>5, <1>6, <1>7, <1>8, <1>9, <1>10, <1>11
          DEF Next, TickStep, JobStep

\* Every behaviour keeps to the scheduler's domains.
THEOREM SchedulerTypeCorrect == Spec => []TypeOK
  BY TypeInit, TypeStep, PTL DEF Spec

(***************************************************************************)
(* The slots                                                               *)
(***************************************************************************)
\* A worker that ends its task, well or not, gives its slot to the next task of
\* its own tick or back.
LEMMA ReleaseKeeps ==
  ASSUME IInv, NEW i \in Ticks, NEW t \in Tasks, job[i][t] \in Active, Release(i, t)
  PROVE  TickJobs' /\ MarksAreRuns' /\ SlotsBounded'
  <1> DEFINE waiting == {u \in Tasks : job[i][u] = "waiting"}
             next == FirstOf(waiting, 1)
             after == [u \in Tasks |-> IF u = t THEN "none"
                               ELSE IF u \in next THEN "starting" ELSE job[i][u]]
  <1>1. next \subseteq waiting /\ Cardinality(next) <= 1 BY FirstOfBounded
  <1>2. next \subseteq Tasks /\ \A u \in next : job[i][u] \notin Active BY <1>1 DEF Active
  <1>3. /\ job' = [job EXCEPT ![i] = after]
        /\ running' = (running \ {t}) \cup next
        /\ tick' = IF \A u \in Tasks : after[u] = "none" THEN [tick EXCEPT ![i] = NoTick] ELSE tick
        /\ doubled' = (doubled \/ next \cap running # {})
    BY DEF Release
  <1>4. t \notin next BY <1>2
  <1> HIDE DEF next, waiting
  <1>5. \A k \in Ticks, u \in Tasks :
          job'[k][u] = IF k # i THEN job[k][u] ELSE IF u = t THEN "none"
                       ELSE IF u \in next THEN "starting" ELSE job[i][u]
    <2>1. \A k \in Ticks : job'[k] = IF k = i THEN after ELSE job[k]
      BY <1>3 DEF IInv, TypeOK
    <2>2. \A u \in Tasks : after[u] = IF u = t THEN "none"
                                      ELSE IF u \in next THEN "starting" ELSE job[i][u]
      OBVIOUS
    <2> QED BY <2>1, <2>2
  <1>6. TickJobs'
    <2>1. tick[i].pc = "working" BY DEF IInv, TickJobs, Active
    <2>2. \A k \in Ticks : k # i => tick'[k] = tick[k] BY <1>3 DEF IInv, TypeOK
    <2>3. tick'[i].pc # "working" => \A u \in Tasks : after[u] = "none"
      BY <1>3, <2>1 DEF IInv, TypeOK
    <2>4. job'[i] = after BY <1>3 DEF IInv, TypeOK
    <2> QED BY <1>5, <2>2, <2>3, <2>4 DEF IInv, TickJobs
  <1>7. \A u \in running' : \E k \in Ticks : job'[k][u] \in Active
    <2>1. \A u \in next : job'[i][u] \in Active BY <1>2, <1>4, <1>5 DEF Active
    <2>2. \A u \in running \ {t} : \E k \in Ticks : job'[k][u] \in Active
      <3> SUFFICES ASSUME NEW u \in running, u # t PROVE \E k \in Ticks : job'[k][u] \in Active
        OBVIOUS
      <3>1. u \in Tasks BY DEF IInv, TypeOK
      <3>2. PICK k \in Ticks : job[k][u] \in Active BY DEF IInv, MarksAreRuns
      <3>3. job'[k][u] = job[k][u] BY <1>2, <1>5, <3>1, <3>2
      <3> QED BY <3>2, <3>3
    <2> QED BY <1>3, <2>1, <2>2
  <1>8. ASSUME ~doubled' PROVE /\ ~doubled /\ next \cap running = {}
                               /\ \A k \in Ticks, u \in Tasks :
                                    job[k][u] \in Active => u \in running
                               /\ \A k, l \in Ticks, u \in Tasks :
                                    job[k][u] \in Active /\ job[l][u] \in Active => k = l
    BY <1>3, <1>8 DEF IInv, MarksAreRuns
  <1>9. ASSUME ~doubled', NEW k \in Ticks, NEW u \in Tasks, job'[k][u] \in Active
        PROVE  u \in running'
    BY <1>3, <1>5, <1>8, <1>9 DEF Active
  <1>10. ASSUME ~doubled', NEW k \in Ticks, NEW l \in Ticks, NEW u \in Tasks,
               job'[k][u] \in Active, job'[l][u] \in Active
        PROVE  k = l
    BY <1>3, <1>5, <1>8, <1>10 DEF Active
  <1>11. MarksAreRuns' BY <1>7, <1>9, <1>10 DEF MarksAreRuns
  <1>12. SlotsBounded'
    <2> SUFFICES ASSUME ~doubled' PROVE Cardinality(running') <= MaxConcurrent BY DEF SlotsBounded
    <2>1. t \in running BY <1>8
    <2>2. running \in SUBSET Tasks /\ running \ {t} \in SUBSET Tasks BY DEF IInv, TypeOK
    <2>3. IsFiniteSet(running) /\ IsFiniteSet(running \ {t}) /\ IsFiniteSet(next)
      BY <1>2, <2>2, TasksFinite
    <2>4. Cardinality(running \ {t}) = Cardinality(running) - 1 BY <2>1, <2>3, FS_RemoveElement
    <2>5. (running \ {t}) \cap next = {} BY <1>8
    <2>6. Cardinality(running') = Cardinality(running \ {t}) + Cardinality(next)
                                 - Cardinality({})
      BY <1>3, <2>3, <2>5, FS_Union
    <2>7. Cardinality({}) = 0 BY FS_EmptySet
    <2>8. Cardinality(running) \in Nat /\ Cardinality(next) \in Nat
      BY <1>2, <2>2, TasksFinite
    <2>9. Cardinality(running) <= MaxConcurrent BY <1>8 DEF IInv, SlotsBounded
    <2> QED BY <1>1, <2>4, <2>6, <2>7, <2>8, <2>9, SchedulerAssumption
  <1> QED BY <1>6, <1>11, <1>12

\* The workers of a new tick are as many as there are slots free.
LEMMA TickRunKeeps ==
  ASSUME IInv, NEW i \in Ticks, TickRun(i)
  PROVE  TickJobs' /\ MarksAreRuns' /\ SlotsBounded'
  <1> DEFINE first == FirstOf(Due(i), FreeSlots)
  <1>1. running \in SUBSET Tasks /\ Due(i) \in SUBSET Tasks BY DEF IInv, TypeOK, Due
  <1>2. IsFiniteSet(running) /\ Cardinality(running) \in Nat BY <1>1, TasksFinite
  <1>3. FreeSlots \in Nat BY <1>2, SchedulerAssumption DEF TickRun, FreeSlots
  <1>4. first \subseteq Due(i) /\ Cardinality(first) <= FreeSlots BY <1>1, <1>3, FirstOfBounded
  <1>5. first \subseteq Tasks /\ first \cap running = {} BY <1>4 DEF Due
  <1>6. \A u \in Tasks : job[i][u] = "none" BY DEF TickRun, IInv, TickJobs
  <1>7. /\ running' = running \cup first
        /\ doubled' = doubled
        /\ tick' = [tick EXCEPT ![i] = [NoTick EXCEPT !.pc = "working"]]
        /\ job' = [job EXCEPT ![i] = [t \in Tasks |-> IF t \in first THEN "starting"
                                             ELSE IF t \in Due(i) THEN "waiting" ELSE "none"]]
    BY DEF TickRun
  <1> HIDE DEF first
  <1>8. \A k \in Ticks, u \in Tasks :
          job'[k][u] \in Active <=> IF k # i THEN job[k][u] \in Active ELSE u \in first
    <2>1. \A k \in Ticks :
            job'[k] = IF k = i THEN [t \in Tasks |-> IF t \in first THEN "starting"
                                              ELSE IF t \in Due(i) THEN "waiting" ELSE "none"]
                      ELSE job[k]
      BY <1>7 DEF IInv, TypeOK
    <2>2. \A u \in Tasks : job'[i][u] = IF u \in first THEN "starting"
                                      ELSE IF u \in Due(i) THEN "waiting" ELSE "none"
      BY <2>1
    <2> QED BY <2>1, <2>2 DEF Active
  <1>9. \A k \in Ticks : k # i => tick'[k] = tick[k] /\ job'[k] = job[k]
    BY <1>7 DEF IInv, TypeOK
  <1>10. tick'[i].pc = "working" BY <1>7 DEF IInv, TypeOK, NoTick
  <1>11. TickJobs' BY <1>9, <1>10 DEF IInv, TickJobs
  <1>12. MarksAreRuns'
    <2>1. \A u \in running' : \E k \in Ticks : job'[k][u] \in Active
      <3>1. \A u \in running : \E k \in Ticks \ {i} : job[k][u] \in Active
        BY <1>1, <1>6 DEF IInv, MarksAreRuns, Active
      <3> QED BY <1>1, <1>5, <1>7, <1>8, <3>1
    <2>2. ~doubled' => \A k \in Ticks, u \in Tasks : job'[k][u] \in Active => u \in running'
      BY <1>7, <1>8 DEF IInv, MarksAreRuns
    <2>3. ~doubled' => \A k, l \in Ticks, u \in Tasks :
                        job'[k][u] \in Active /\ job'[l][u] \in Active => k = l
      BY <1>5, <1>7, <1>8 DEF IInv, MarksAreRuns
    <2> QED BY <2>1, <2>2, <2>3 DEF MarksAreRuns
  <1>13. SlotsBounded'
    <2>1. IsFiniteSet(first) /\ Cardinality(first) \in Nat BY <1>5, TasksFinite
    <2>2. running \cap first = {} BY <1>5
    <2>3. Cardinality(running') = Cardinality(running) + Cardinality(first) - Cardinality({})
      BY <1>2, <1>7, <2>1, <2>2, FS_Union
    <2>4. Cardinality({}) = 0 BY FS_EmptySet
    <2>5. Cardinality(first) <= MaxConcurrent - Cardinality(running) BY <1>4 DEF FreeSlots
    <2> QED BY <1>2, <2>1, <2>3, <2>4, <2>5, SchedulerAssumption DEF SlotsBounded
  <1> QED BY <1>11, <1>12, <1>13

\* No tick, no mark.
LEMMA SlotsInit == Init => TickJobs /\ MarksAreRuns /\ SlotsBounded
  <1> SUFFICES ASSUME Init PROVE TickJobs /\ MarksAreRuns /\ SlotsBounded OBVIOUS
  <1>1. Cardinality(running) = 0 BY FS_EmptySet DEF Init
  <1>2. SlotsBounded BY <1>1, SchedulerAssumption DEF SlotsBounded
  <1> QED BY <1>2 DEF Init, TickJobs, MarksAreRuns, Active

\* Each step keeps the three parts.
LEMMA SlotsStep == IInv /\ [Next]_vars => (TickJobs /\ MarksAreRuns /\ SlotsBounded)'
  <1> SUFFICES ASSUME IInv, [Next]_vars PROVE (TickJobs /\ MarksAreRuns /\ SlotsBounded)' OBVIOUS
  <1> USE DEF TickJobs, MarksAreRuns, SlotsBounded
  <1>1. CASE UNCHANGED <<running, tick, job, doubled>> BY <1>1 DEF IInv
  <1>2. CASE PassTime \/ UNCHANGED vars BY <1>1, <1>2 DEF PassTime, vars
  <1>3. ASSUME NEW t \in Tasks, Create(t) \/ Delete(t)
        PROVE  (TickJobs /\ MarksAreRuns /\ SlotsBounded)'
    BY <1>1, <1>3 DEF Create, Delete
  <1>4. ASSUME NEW i \in Ticks, TickList(i) \/ TickSkip(i)
        PROVE  (TickJobs /\ MarksAreRuns /\ SlotsBounded)'
    <2>1. UNCHANGED <<running, job, doubled>> BY <1>4 DEF TickList, TickSkip
    <2>2. \A t \in Tasks : job[i][t] = "none" BY <1>4 DEF IInv, TickList, TickSkip
    <2>3. \A k \in Ticks \ {i} : tick'[k] = tick[k] BY <1>4 DEF IInv, TypeOK, TickList, TickSkip
    <2>4. TickJobs' BY <2>1, <2>2, <2>3 DEF IInv
    <2> QED BY <2>1, <2>4 DEF IInv
  <1>5. ASSUME NEW i \in Ticks, TickRun(i)
        PROVE  (TickJobs /\ MarksAreRuns /\ SlotsBounded)'
    BY <1>5, TickRunKeeps
  <1>6. ASSUME NEW i \in Ticks, NEW t \in Tasks, JobMark(i, t)
        PROVE  (TickJobs /\ MarksAreRuns /\ SlotsBounded)'
    <2>1. UNCHANGED <<running, tick, doubled>> /\ job[i][t] = "starting" BY <1>6 DEF JobMark
    <2>2. \A k \in Ticks, u \in Tasks :
            job'[k][u] = IF k = i /\ u = t THEN "chatting" ELSE job[k][u]
      BY <1>6 DEF JobMark, IInv, TypeOK
    <2>3. \A k \in Ticks, u \in Tasks : job'[k][u] \in Active <=> job[k][u] \in Active
      BY <2>1, <2>2 DEF Active
    <2>4. TickJobs' BY <2>1, <2>2 DEF IInv
    <2>5. running \subseteq Tasks BY DEF IInv, TypeOK
    <2> QED BY <2>1, <2>3, <2>4, <2>5 DEF IInv
  <1>7. ASSUME NEW i \in Ticks, NEW t \in Tasks,
               JobEnd(i, t) \/ \E stamped \in BOOLEAN : JobFail(i, t, stamped)
        PROVE  (TickJobs /\ MarksAreRuns /\ SlotsBounded)'
    BY <1>7, ReleaseKeeps DEF JobEnd, JobFail, Active
  <1>8. CASE Restart
    <2>1. running' = {} /\ \A i \in Ticks, t \in Tasks : job'[i][t] = "none"
      BY <1>8 DEF Restart
    <2>2. Cardinality(running') <= MaxConcurrent BY <2>1, FS_EmptySet, SchedulerAssumption
    <2> QED BY <2>1, <2>2 DEF Active
  <1> QED BY <1>2, <1>3, <1>4, <1>5, <1>6, <1>7, <1>8 DEF Next, TickStep, JobStep

\* Each run under way is that of a mark of its own.
LEMMA InvariantGivesSlots == IInv => SlotsKept
  <1> SUFFICES ASSUME IInv PROVE SlotsKept OBVIOUS
  <1>1. running \subseteq Tasks /\ \A t \in running : \E i \in Ticks : job[i][t] \in Active
    BY DEF IInv, TypeOK, MarksAreRuns
  <1>2. \A i \in Ticks, t \in Tasks : job[i][t] \in Active => <<i, t>> \in UnderWay
    BY DEF UnderWay
  <1>3. \A x \in UnderWay : /\ x[1] \in Ticks /\ x[2] \in Tasks /\ x = <<x[1], x[2]>>
                           /\ job[x[1]][x[2]] \in Active
    BY DEF UnderWay
  <1>4. MarkHasRun
    <2> DEFINE ran == {x[2] : x \in UnderWay}
    <2>1. running \subseteq ran
      <3> SUFFICES ASSUME NEW t \in running PROVE t \in ran OBVIOUS
      <3>1. PICK i \in Ticks : job[i][t] \in Active BY <1>1
      <3>2. <<i, t>> \in UnderWay /\ <<i, t>>[2] = t BY <1>1, <1>2, <3>1
      <3> QED BY <3>2
    <2>2. doubled \/ ran \subseteq running BY <1>3 DEF IInv, MarksAreRuns
    <2> QED BY <2>1, <2>2 DEF MarkHasRun
  <1>5. RunsBounded
    <2> SUFFICES ASSUME ~doubled PROVE Cardinality(UnderWay) <= MaxConcurrent BY DEF RunsBounded
    <2> DEFINE mark == [x \in UnderWay |-> x[2]]
    <2>1. mark \in [UnderWay -> running] BY <1>3 DEF IInv, MarksAreRuns
    <2>2. \A x, y \in UnderWay : mark[x] = mark[y] => x = y
      <3> SUFFICES ASSUME NEW x \in UnderWay, NEW y \in UnderWay, x[2] = y[2] PROVE x = y
        OBVIOUS
      <3>1. x[1] = y[1] BY <1>3 DEF IInv, MarksAreRuns
      <3> QED BY <1>3, <3>1
    <2> HIDE DEF mark
    <2>3. mark \in Injection(UnderWay, running) BY <2>1, <2>2 DEF Injection, IsInjective
    <2>4. IsFiniteSet(running) /\ Cardinality(running) \in Nat BY <1>1, TasksFinite
    <2>5. IsFiniteSet(UnderWay) /\ Cardinality(UnderWay) <= Cardinality(running)
      BY <2>3, <2>4, FS_Injection
    <2>6. Cardinality(UnderWay) \in Nat BY <2>5, FS_CardinalityType
    <2>7. Cardinality(running) <= MaxConcurrent BY DEF IInv, SlotsBounded
    <2> QED BY <2>4, <2>5, <2>6, <2>7, SchedulerAssumption
  <1> QED BY <1>4, <1>5 DEF SlotsKept

\* No slot of checkNow leaks, whatever fails, and until a worker marks a task
\* already marked no more than MaxConcurrent runs are under way, over all the
\* ticks.
THEOREM SlotsAreKept == Spec => []SlotsKept
  <1>1. Init => IInv BY TypeInit, SlotsInit DEF IInv
  <1>2. IInv /\ [Next]_vars => IInv'
    BY TypeStep, SlotsStep DEF IInv
  <1> QED BY <1>1, <1>2, InvariantGivesSlots, PTL DEF Spec

(***************************************************************************)
(* A run per moment, while ticks do not overlap                            *)
(***************************************************************************)
\* One tick is under way.
OneTick == \A i, k \in Ticks : tick[i].pc # "none" /\ tick[k].pc # "none" => i = k

\* What a tick has listed of a task is what the table still says: the task is
\* stamped by this tick's own runs, which begin after the listing was used.
ListedIsCurrent ==
  \A i \in Ticks, t \in Tasks :
    tick[i].pc = "listed" /\ tick[i].listing[t] # Never =>
      task[t] # "none" /\ tick[i].listing[t] = base[t]

\* A task of a tick's list is still due when its turn comes.
PendingIsDue ==
  \A i \in Ticks, t \in Tasks :
    /\ job[i][t] # "none" => task[t] # "none"
    /\ job[i][t] = "waiting" => IsDue(t, base[t])
    /\ job[i][t] = "starting" => \E o \in Schedule[t] : base[t] < o /\ o <= startedAt[i][t]

\* A deleted task is run once more at most: if a tick has it on its list.
MayRun(t) ==
  \/ task[t] # "deleted"
  \/ \E i \in Ticks : \/ tick[i].pc = "listed" /\ tick[i].listing[t] # Never
                      \/ job[i][t] \in {"waiting", "starting"}

\* The moments that a task was run for are behind its stamp, as long as it may be
\* run again.
FiredIsPast ==
  /\ \A t \in Tasks, o \in Times : task[t] = "none" => fires[t][o] = 0
  /\ \A t \in Tasks, o \in Times : MayRun(t) /\ fires[t][o] > 0 => o <= base[t]

OnceParts == OneTick /\ ListedIsCurrent /\ PendingIsDue /\ FiredIsPast /\ OneRunPerMoment

OnceInv == ~overlapped => OnceParts

\* The latest moment that has come is past the stamp if any such moment is.
LEMMA MomentIsNew ==
  ASSUME NEW t \in Tasks, NEW b \in Times, NEW s \in Times,
         \E o \in Schedule[t] : b < o /\ o <= s
  PROVE  \A o \in Moments(t, s) : o \in Times /\ b < o /\ o <= s
  <1>1. Schedule[t] \subseteq Nat /\ Schedule[t] \subseteq Times
    BY SchedulerAssumption DEF Times, SchedulerAssumption
  <1>2. b \in Nat /\ s \in Nat BY DEF Times
  <1> QED BY <1>1, <1>2 DEF Moments

\* While one tick is at work no other has a listing or a job.
LEMMA OthersAreIdle ==
  ASSUME IInv, OneTick, NEW i \in Ticks, tick[i].pc = "working"
  PROVE  /\ \A k \in Ticks : tick[k].pc # "listed"
         /\ \A k \in Ticks \ {i}, t \in Tasks : job[k][t] = "none"
  BY DEF IInv, TickJobs, OneTick

\* The end of a run, well or not: its task may be stamped meanwhile.
LEMMA ReleaseOnce ==
  ASSUME IInv, OnceParts, NEW i \in Ticks, NEW t \in Tasks, job[i][t] \in Active, Release(i, t),
         NEW s \in Times, base' = base \/ base' = Stamped(t, s), base[t] <= s
  PROVE  OnceParts'
  <1> DEFINE next == FirstOf({u \in Tasks : job[i][u] = "waiting"}, 1)
             after == [u \in Tasks |-> IF u = t THEN "none"
                               ELSE IF u \in next THEN "starting" ELSE job[i][u]]
             begun == [u \in Tasks |-> IF u = t THEN 0 ELSE IF u \in next THEN now
                                       ELSE startedAt[i][u]]
  <1> USE DEF IInv
  <1>1. tick[i].pc = "working" BY DEF TickJobs, Active
  <1>2. /\ \A k \in Ticks : tick[k].pc # "listed"
        /\ \A k \in Ticks \ {i}, u \in Tasks : job[k][u] = "none"
    BY <1>1, OthersAreIdle DEF OnceParts
  <1>3. \A u \in next : u \in Tasks /\ job[i][u] = "waiting" BY DEF FirstOf
  <1>4. /\ job' = [job EXCEPT ![i] = after]
        /\ startedAt' = [startedAt EXCEPT ![i] = begun]
        /\ tick' = tick \/ tick' = [tick EXCEPT ![i] = NoTick]
        /\ UNCHANGED <<now, task, fires, overlapped>>
    BY DEF Release, TypeOK
  <1> HIDE DEF next
  <1>5. \A k \in Ticks, u \in Tasks :
          /\ job'[k][u] = IF k # i THEN "none" ELSE IF u = t THEN "none"
                          ELSE IF u \in next THEN "starting" ELSE job[i][u]
          /\ k = i /\ u # t => startedAt'[k][u] = IF u \in next THEN now ELSE startedAt[i][u]
    BY <1>2, <1>4 DEF TypeOK
  <1>6. \A k \in Ticks : tick'[k] = tick[k] \/ tick'[k].pc = "none"
    BY <1>4 DEF TypeOK, NoTick
  <1>7. /\ \A u \in Tasks \ {t} : base'[u] = base[u]
        /\ base[t] <= base'[t] /\ base[t] \in Nat /\ base'[t] \in Nat
    BY DEF Stamped, TypeOK, Times
  <1>8. OneTick' BY <1>6 DEF OneTick, OnceParts
  <1>9. ListedIsCurrent' BY <1>2, <1>6 DEF ListedIsCurrent
  <1>10. PendingIsDue'
    <2> SUFFICES ASSUME NEW u \in Tasks, u # t, job'[i][u] # "none"
                 PROVE  /\ task'[u] # "none"
                        /\ job'[i][u] = "waiting" => IsDue(u, base[u])
                        /\ job'[i][u] = "starting" =>
                             \E o \in Schedule[u] : base[u] < o /\ o <= startedAt'[i][u]
      BY <1>4, <1>5, <1>7 DEF PendingIsDue, IsDue
    <2>1. CASE u \in next
      BY <2>1, <1>3, <1>4, <1>5 DEF OnceParts, PendingIsDue, IsDue
    <2>2. CASE u \notin next
      BY <2>2, <1>4, <1>5 DEF OnceParts, PendingIsDue
    <2> QED BY <2>1, <2>2
  <1>11. FiredIsPast'
    <2>1. \A u \in Tasks : MayRun(u)' => MayRun(u) /\ (u = t => task[t] # "deleted")
      BY <1>2, <1>3, <1>4, <1>5, <1>6 DEF MayRun
    <2>2. \A u \in Tasks, o \in Times : MayRun(u) /\ fires[u][o] > 0 => o <= base[u]
      BY DEF OnceParts, FiredIsPast
    <2>3. \A u \in Tasks, o \in Times : MayRun(u)' /\ fires'[u][o] > 0 => o <= base'[u]
      BY <1>4, <1>7, <2>1, <2>2 DEF Times
    <2> QED BY <1>4, <2>3 DEF OnceParts, FiredIsPast
  <1>12. OneRunPerMoment' BY <1>4 DEF OnceParts, OneRunPerMoment
  <1> QED BY <1>8, <1>9, <1>10, <1>11, <1>12 DEF OnceParts

\* The stamp and the run it is for.
LEMMA MarkOnce ==
  ASSUME IInv, OnceParts, NEW i \in Ticks, NEW t \in Tasks, JobMark(i, t)
  PROVE  OnceParts'
  <1> DEFINE s == startedAt[i][t]
  <1> USE DEF IInv
  <1>1. tick[i].pc = "working" BY DEF JobMark, TickJobs
  <1>2. /\ \A k \in Ticks : tick[k].pc # "listed"
        /\ \A k \in Ticks \ {i}, u \in Tasks : job[k][u] = "none"
    BY <1>1, OthersAreIdle DEF OnceParts
  <1>3. s \in Times /\ base[t] \in Times BY DEF TypeOK
  <1>4. \E o \in Schedule[t] : base[t] < o /\ o <= s BY DEF JobMark, OnceParts, PendingIsDue
  <1>5. \A o \in Moments(t, s) : o \in Times /\ base[t] < o /\ o <= s
    BY <1>3, <1>4, MomentIsNew
  <1>6. task[t] # "none" BY DEF JobMark, OnceParts, PendingIsDue
  <1>7. \A o \in Times : fires[t][o] > 0 => o <= base[t]
    BY DEF JobMark, OnceParts, FiredIsPast, MayRun
  <1>8. \A o \in Moments(t, s) : fires[t][o] = 0
    <2> SUFFICES ASSUME NEW o \in Moments(t, s) PROVE fires[t][o] = 0 OBVIOUS
    <2>1. o \in Times /\ ~(o <= base[t]) BY <1>3, <1>5 DEF Times
    <2>2. fires[t][o] \in 0..2 BY <2>1 DEF TypeOK
    <2> QED BY <1>7, <2>1, <2>2
  <1>9. \A k \in Ticks, u \in Tasks :
          job'[k][u] = IF k = i /\ u = t THEN "chatting" ELSE job[k][u]
    BY DEF JobMark, TypeOK
  <1>10. UNCHANGED <<now, task, tick, startedAt>> BY DEF JobMark
  <1>11. /\ \A u \in Tasks \ {t} : base'[u] = base[u]
         /\ task[t] # "deleted" => base'[t] = s
    BY <1>6 DEF JobMark, Stamped, TypeOK
  <1>12. \A u \in Tasks, o \in Times :
           fires'[u][o] = IF u = t /\ o \in Moments(t, s) THEN 1 ELSE fires[u][o]
    <2>1. fires' = [fires EXCEPT ![t] =
             [o \in Times |-> IF o \in Moments(t, s) /\ fires[t][o] < 2
                              THEN fires[t][o] + 1 ELSE fires[t][o]]]
      BY DEF JobMark
    <2>2. \A u \in Tasks \ {t} : fires'[u] = fires[u] BY <2>1 DEF TypeOK
    <2>3. \A o \in Times : fires'[t][o] = IF o \in Moments(t, s) /\ fires[t][o] < 2
                                          THEN fires[t][o] + 1 ELSE fires[t][o]
      BY <2>1 DEF TypeOK
    <2>4. \A o \in Times : o \in Moments(t, s) => fires'[t][o] = 1 BY <1>8, <2>3
    <2> QED BY <2>2, <2>3, <2>4
  <1> HIDE DEF s
  <1>13. OneTick' BY <1>10 DEF OnceParts, OneTick
  <1>14. ListedIsCurrent' BY <1>2, <1>10 DEF ListedIsCurrent
  <1>15. PendingIsDue'
    <2>1. \A k \in Ticks, u \in Tasks : job'[k][u] \in {"waiting", "starting"} => u # t
      BY <1>2, <1>9
    <2> QED BY <1>6, <1>9, <1>10, <1>11, <2>1 DEF OnceParts, PendingIsDue, IsDue
  <1>16. FiredIsPast'
    <2>1. \A u \in Tasks \ {t} : MayRun(u)' => MayRun(u) BY <1>9, <1>10 DEF MayRun
    <2>2. MayRun(t)' => task[t] # "deleted" BY <1>2, <1>9, <1>10 DEF MayRun
    <2>3. \A u \in Tasks \ {t}, o \in Times : MayRun(u)' /\ fires'[u][o] > 0 => o <= base'[u]
      BY <1>11, <1>12, <2>1 DEF OnceParts, FiredIsPast
    <2>4. base[t] <= s BY <1>3, <1>4, SchedulerAssumption DEF Times, SchedulerAssumption
    <2>5. \A o \in Times : MayRun(t)' /\ fires'[t][o] > 0 => o <= base'[t]
      BY <1>3, <1>5, <1>7, <1>11, <1>12, <2>2, <2>4 DEF Times
    <2>6. \A u \in Tasks, o \in Times : task'[u] = "none" => fires'[u][o] = 0
      BY <1>6, <1>10, <1>12 DEF OnceParts, FiredIsPast
    <2> QED BY <2>3, <2>5, <2>6 DEF FiredIsPast
  <1>17. OneRunPerMoment' BY <1>12 DEF OnceParts, OneRunPerMoment
  <1> QED BY <1>13, <1>14, <1>15, <1>16, <1>17 DEF OnceParts

\* The listing, and the list made of it.
LEMMA TickOnce ==
  ASSUME IInv, OnceInv, NEW i \in Ticks, TickStep(i), ~overlapped'
  PROVE  OnceParts'
  <1> USE DEF IInv
  <1>1. OnceParts /\ UNCHANGED <<now, task, base, fires>>
    BY DEF OnceInv, TickStep, TickList, TickSkip, TickRun, TypeOK
  <1>2. \A k \in Ticks \ {i} :
          tick'[k] = tick[k] /\ job'[k] = job[k] /\ startedAt'[k] = startedAt[k]
    BY DEF TickStep, TickList, TickSkip, TickRun, TypeOK
  <1>3. OneRunPerMoment' BY <1>1 DEF OnceParts, OneRunPerMoment
  <1>4. CASE TickList(i)
    <2>1. \A k \in Ticks \ {i} : tick[k].pc = "none" BY <1>4 DEF TickList, TypeOK
    <2>2. /\ tick'[i].pc = "listed" /\ UNCHANGED <<job, startedAt>>
          /\ \A t \in Tasks : tick'[i].listing[t] = IF task[t] = "active" THEN base[t] ELSE Never
      BY <1>4 DEF TickList, TypeOK
    <2>3. OneTick' BY <1>2, <2>1 DEF OneTick
    <2>4. ListedIsCurrent' BY <1>1, <1>2, <2>1, <2>2 DEF ListedIsCurrent
    <2>5. PendingIsDue' BY <1>1, <2>2 DEF OnceParts, PendingIsDue, IsDue
    <2>6. \A t \in Tasks : MayRun(t)' => MayRun(t) BY <1>1, <1>2, <2>2 DEF MayRun
    <2>7. FiredIsPast' BY <1>1, <2>6 DEF OnceParts, FiredIsPast
    <2> QED BY <1>3, <2>3, <2>4, <2>5, <2>7 DEF OnceParts
  <1>5. CASE TickSkip(i)
    <2>1. tick'[i].pc = "none" /\ UNCHANGED <<job, startedAt>>
      BY <1>5 DEF TickSkip, TypeOK, NoTick
    <2>2. OneTick' BY <1>1, <1>2, <2>1 DEF OneTick, OnceParts
    <2>3. ListedIsCurrent' BY <1>1, <1>2, <2>1 DEF ListedIsCurrent, OnceParts
    <2>4. PendingIsDue' BY <1>1, <2>1 DEF OnceParts, PendingIsDue, IsDue
    <2>5. \A t \in Tasks : MayRun(t)' => MayRun(t) BY <1>1, <1>2, <2>1 DEF MayRun
    <2>6. FiredIsPast' BY <1>1, <2>5 DEF OnceParts, FiredIsPast
    <2> QED BY <1>3, <2>2, <2>3, <2>4, <2>6 DEF OnceParts
  <1>6. CASE TickRun(i)
    <2>1. tick[i].pc = "listed" /\ tick'[i].pc = "working" BY <1>6 DEF TickRun, TypeOK, NoTick
    <2>2. \A t \in FirstOf(Due(i), FreeSlots) : t \in Due(i) BY DEF FirstOf
    <2>3. \A t \in Tasks :
            /\ job'[i][t] # "none" => t \in Due(i)
            /\ job'[i][t] = "starting" => startedAt'[i][t] = now
      BY <1>6, <2>2 DEF TickRun, TypeOK
    <2>4. \A t \in Due(i) : tick[i].listing[t] # Never /\ task[t] # "none" /\ IsDue(t, base[t])
      BY <1>1, <2>1 DEF Due, OnceParts, ListedIsCurrent
    <2>5. OneTick' BY <1>1, <1>2, <2>1 DEF OneTick, OnceParts
    <2>6. ListedIsCurrent' BY <1>1, <1>2, <2>1 DEF ListedIsCurrent, OnceParts
    <2>7. PendingIsDue'
      <3>1. \A t \in Tasks : /\ job'[i][t] # "none" => task'[t] # "none" /\ IsDue(t, base[t])
                             /\ job'[i][t] = "starting" => startedAt'[i][t] = now
        BY <1>1, <2>3, <2>4
      <3> QED BY <1>1, <1>2, <3>1 DEF OnceParts, PendingIsDue, IsDue
    <2>8. \A t \in Tasks : MayRun(t)' => MayRun(t)
      BY <1>1, <1>2, <2>1, <2>3, <2>4 DEF MayRun
    <2>9. FiredIsPast' BY <1>1, <2>8 DEF OnceParts, FiredIsPast
    <2> QED BY <1>3, <2>5, <2>6, <2>7, <2>9 DEF OnceParts
  <1> QED BY <1>4, <1>5, <1>6 DEF TickStep

\* Nothing was run yet.
LEMMA OnceInitially == Init => OnceInv
  <1> SUFFICES ASSUME Init PROVE OnceParts BY DEF OnceInv
  <1>1. \A t \in Tasks, o \in Times : fires[t][o] = 0 BY DEF Init
  <1>2. \A i \in Ticks : tick[i].pc = "none" /\ \A t \in Tasks : job[i][t] = "none"
    BY DEF Init, NoTick
  <1>3. OneTick /\ ListedIsCurrent BY <1>2 DEF OneTick, ListedIsCurrent
  <1>4. PendingIsDue BY <1>2 DEF PendingIsDue
  <1>5. FiredIsPast /\ OneRunPerMoment BY <1>1 DEF FiredIsPast, OneRunPerMoment
  <1> QED BY <1>3, <1>4, <1>5 DEF OnceParts

\* Each step keeps the parts while no tick begins beside another.
LEMMA OnceStep == IInv /\ OnceInv /\ [Next]_vars => OnceInv'
  <1> SUFFICES ASSUME IInv, OnceInv, [Next]_vars, ~overlapped' PROVE OnceParts' BY DEF OnceInv
  <1> USE DEF OnceParts, OneTick, ListedIsCurrent, PendingIsDue, FiredIsPast, OneRunPerMoment,
              MayRun
  <1>1. CASE PassTime
    <2>1. OnceParts /\ UNCHANGED <<task, base, tick, job, startedAt, fires>>
      BY <1>1 DEF OnceInv, PassTime
    <2>2. \A t \in Tasks : IsDue(t, base[t]) => IsDue(t, base[t])'
      BY <1>1, <2>1, SchedulerAssumption
      DEF PassTime, IsDue, IInv, TypeOK, Times, SchedulerAssumption
    <2> QED BY <2>1, <2>2
  <1>2. ASSUME NEW t \in Tasks, Create(t) PROVE OnceParts'
    <2>1. OnceParts /\ UNCHANGED <<now, tick, job, startedAt, fires>> BY <1>2 DEF OnceInv, Create
    <2>2. \A u \in Tasks \ {t} : task'[u] = task[u] /\ base'[u] = base[u]
      BY <1>2 DEF Create, IInv, TypeOK
    <2>3. task[t] = "none" /\ task'[t] = "active" BY <1>2 DEF Create, IInv, TypeOK
    <2>4. \A o \in Times : fires[t][o] = 0 BY <2>1, <2>3
    <2>5. \A i \in Ticks : /\ job[i][t] = "none"
                           /\ tick[i].pc = "listed" => tick[i].listing[t] = Never
      BY <2>1, <2>3
    <2>6. OneTick' /\ OneRunPerMoment' BY <2>1
    <2>7. ListedIsCurrent' BY <2>1, <2>2, <2>3, <2>5
    <2>8. PendingIsDue' BY <2>1, <2>2, <2>3, <2>5 DEF IsDue
    <2>9. FiredIsPast' BY <2>1, <2>2, <2>3, <2>4
    <2> QED BY <2>6, <2>7, <2>8, <2>9
  <1>3. ASSUME NEW t \in Tasks, Delete(t) PROVE OnceParts'
    <2>1. OnceParts /\ UNCHANGED <<now, base, tick, job, startedAt, fires>>
      BY <1>3 DEF OnceInv, Delete
    <2>2. \A u \in Tasks : task'[u] = IF u = t THEN "deleted" ELSE task[u]
      BY <1>3 DEF Delete, IInv, TypeOK
    <2>3. task[t] = "active" BY <1>3 DEF Delete
    <2> QED BY <2>1, <2>2, <2>3 DEF IsDue
  <1>4. ASSUME NEW i \in Ticks, TickStep(i) PROVE OnceParts' BY <1>4, TickOnce
  <1>5. ASSUME NEW i \in Ticks, NEW t \in Tasks, JobMark(i, t) PROVE OnceParts'
    BY <1>5, MarkOnce DEF OnceInv, JobMark
  <1>6. ASSUME NEW i \in Ticks, NEW t \in Tasks, JobEnd(i, t) PROVE OnceParts'
    <2>1. OnceParts /\ job[i][t] \in Active BY <1>6 DEF OnceInv, JobEnd, Release, Active
    <2>2. base[t] \in Times /\ base[t] <= base[t] BY DEF IInv, TypeOK, Times
    <2> QED BY ONLY <1>6, <2>1, <2>2, IInv, ReleaseOnce DEF JobEnd
  <1>7. ASSUME NEW i \in Ticks, NEW t \in Tasks, NEW stamped \in BOOLEAN, JobFail(i, t, stamped)
        PROVE  OnceParts'
    <2>1. OnceParts /\ job[i][t] \in Active BY <1>7 DEF OnceInv, JobFail, Release, Active
    <2>2. base[t] \in Times /\ startedAt[i][t] \in Times BY DEF IInv, TypeOK
    <2>3. \E o \in Schedule[t] : base[t] < o /\ o <= startedAt[i][t] BY <1>7, <2>1 DEF JobFail
    <2>4. base[t] <= startedAt[i][t]
      BY <2>2, <2>3, SchedulerAssumption DEF Times, SchedulerAssumption
    <2> QED BY ONLY <1>7, <2>1, <2>2, <2>4, IInv, ReleaseOnce DEF JobFail
  <1>8. CASE Restart
    <2>1. OnceParts /\ UNCHANGED <<now, task, base, fires>> BY <1>8 DEF OnceInv, Restart
    <2>2. \A i \in Ticks : tick'[i].pc = "none" /\ \A t \in Tasks : job'[i][t] = "none"
      BY <1>8 DEF Restart, NoTick
    <2>3. OneTick' /\ ListedIsCurrent' /\ OneRunPerMoment' BY <2>1, <2>2
    <2>4. PendingIsDue' BY <2>2
    <2>5. FiredIsPast' BY <2>1, <2>2
    <2> QED BY <2>3, <2>4, <2>5
  <1>9. CASE UNCHANGED vars
    <2>1. OnceParts /\ UNCHANGED <<now, task, base, tick, job, startedAt, fires>>
      BY <1>9 DEF OnceInv, vars
    <2> QED BY <2>1 DEF IsDue
  <1> QED BY <1>1, <1>2, <1>3, <1>4, <1>5, <1>6, <1>7, <1>8, <1>9 DEF Next, JobStep

\* While ticks do not overlap, each moment that a task's schedule names is run
\* for at most once, whatever fails and however often the server restarts.
THEOREM MomentsRunOnce == Spec => []OneRunWithoutOverlap
  <1>1. Init => IInv /\ OnceInv BY TypeInit, SlotsInit, OnceInitially DEF IInv
  <1>2. IInv /\ OnceInv /\ [Next]_vars => IInv' /\ OnceInv'
    BY TypeStep, SlotsStep, OnceStep DEF IInv
  <1>3. OnceInv => OneRunWithoutOverlap BY DEF OnceInv, OnceParts, OneRunWithoutOverlap
  <1> QED BY <1>1, <1>2, <1>3, PTL DEF Spec
=============================================================================
