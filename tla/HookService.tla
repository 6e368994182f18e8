----------------------------- MODULE HookService -----------------------------
(***************************************************************************)
(* External events (services/hook-service.ts).  A webhook hands its event  *)
(* to handle and does not wait.  At most MaxHookRuns events run at a time, *)
(* MaxQueuedRuns wait, the rest are dropped with a report.  The events of  *)
(* one hook share a session, remembered in #hookSessions and made anew     *)
(* when it is not known, or gone from the store.                           *)
(*                                                                         *)
(* An awaited #queue entry goes on a microtask after #release called its   *)
(* resolve: until then it is "woken", and its slot is free to take.        *)
(***************************************************************************)
EXTENDS Naturals, Sequences, FiniteSets

CONSTANTS
  NumHookEvents,    \* bounds a behaviour
  Hooks,            \* the hooks' names
  MaxHookRuns,      \* #maxConcurrentRuns
  MaxQueuedRuns,    \* #maxQueuedRuns
  MaxLosses         \* sessions deleted behind the service's back: bounds a behaviour

HookEvents == 1..NumHookEvents

ASSUME HookAssumption ==
  /\ NumHookEvents \in Nat /\ MaxLosses \in Nat
  /\ MaxHookRuns \in Nat \ {0} /\ MaxQueuedRuns \in Nat

VARIABLES
  hookOf,         \* event -> its hook, chosen when it arrives
  handling,       \* event -> where handle is
  hookAsked,      \* event -> the session #resolveSession asked the store for
  hookActive,     \* #active
  hookQueue,      \* #queue: the events that wait
  hookSessions,   \* hook -> its remembered session, 0 when none
  hookMade,       \* hook -> how many sessions were made for it
  hookStored,     \* hook -> which of them the store has
  hookLosses,     \* hook -> sessions the store lost, and cache entries forgotten
  hookRaced,      \* hooks of which two events sought a session at once (history)
  slotTaken       \* an event took the slot of a woken one (history)

hookVars == <<hookOf, hookAsked, handling, hookActive, hookQueue, hookSessions, hookMade, hookStored,
              hookLosses, hookRaced, slotTaken>>
hookBook == <<hookSessions, hookMade, hookStored, hookLosses, hookRaced>>

HookInit ==
  /\ hookOf \in [HookEvents -> Hooks]
  /\ handling = [e \in HookEvents |-> "none"]
  /\ hookAsked = [e \in HookEvents |-> 0]
  /\ hookActive = 0 /\ hookQueue = <<>>
  /\ hookSessions = [h \in Hooks |-> 0]
  /\ hookMade = [h \in Hooks |-> 0]
  /\ hookStored = [h \in Hooks |-> {}]
  /\ hookLosses = [h \in Hooks |-> 0]
  /\ hookRaced = {} /\ slotTaken = FALSE

HookAt(e, where) == handling' = [handling EXCEPT ![e] = where]
Woken == {e \in HookEvents : handling[e] = "woken"}

(***************************************************************************)
(* #acquire and #release                                                   *)
(***************************************************************************)
\* Mutant: a dropped event goes through the end of handle, too.
HookArrives_DropReleases(e) ==
  /\ handling[e] = "none" /\ \A d \in HookEvents : d < e => handling[d] # "none"
  /\ IF hookActive < MaxHookRuns
     THEN /\ hookActive' = hookActive + 1
          /\ HookAt(e, "looking")
          /\ slotTaken' = (slotTaken \/ Woken # {})
          /\ UNCHANGED hookQueue
     ELSE /\ IF Len(hookQueue) >= MaxQueuedRuns
             THEN HookAt(e, "dropped") /\ UNCHANGED hookQueue /\ hookActive' = hookActive - 1
             ELSE HookAt(e, "queued") /\ hookQueue' = Append(hookQueue, e) /\ UNCHANGED hookActive
          /\ UNCHANGED slotTaken
  /\ UNCHANGED <<hookOf, hookAsked, hookBook>>

\* An event arrives: it takes a slot, waits for one, or is dropped.
HookArrives(e) ==
  /\ handling[e] = "none" /\ \A d \in HookEvents : d < e => handling[d] # "none"
  /\ IF hookActive < MaxHookRuns
     THEN /\ hookActive' = hookActive + 1
          /\ HookAt(e, "looking")
          /\ slotTaken' = (slotTaken \/ Woken # {})
          /\ UNCHANGED hookQueue
     ELSE /\ IF Len(hookQueue) >= MaxQueuedRuns
             THEN HookAt(e, "dropped") /\ UNCHANGED hookQueue
             ELSE HookAt(e, "queued") /\ hookQueue' = Append(hookQueue, e)
          /\ UNCHANGED <<hookActive, slotTaken>>
  /\ UNCHANGED <<hookOf, hookAsked, hookBook>>

\* The rest of #acquire after its await.
HookGoesOn(e) ==
  /\ handling[e] = "woken"
  /\ hookActive' = hookActive + 1
  /\ HookAt(e, "looking")
  /\ UNCHANGED <<hookOf, hookAsked, hookQueue, hookBook, slotTaken>>

\* Mutant: the next in line is not called.
HookRelease_WakesNobody(e) ==
  /\ hookActive' = hookActive - 1
  /\ HookAt(e, "over")
  /\ UNCHANGED hookQueue

\* #release, and the end of e.
HookRelease(e) ==
  /\ hookActive' = hookActive - 1
  /\ handling' = [d \in HookEvents |-> CASE d = e -> "over"
                                         [] hookQueue # <<>> /\ d = Head(hookQueue) -> "woken"
                                         [] OTHER -> handling[d]]
  /\ hookQueue' = IF hookQueue = <<>> THEN hookQueue ELSE Tail(hookQueue)

(***************************************************************************)
(* #resolveSession, and the chat                                           *)
(***************************************************************************)
HookRaces(e) ==
  hookRaced' = IF \E d \in HookEvents \ {e} : /\ hookOf[d] = hookOf[e]
                                             /\ handling[d] \in {"asking", "making"}
               THEN hookRaced \cup {hookOf[e]} ELSE hookRaced

\* The remembered session is asked for; if there is none, one is made.
HookLooks(e) ==
  /\ handling[e] = "looking"
  /\ IF hookSessions[hookOf[e]] # 0
     THEN /\ HookAt(e, "asking")
          /\ hookAsked' = [hookAsked EXCEPT ![e] = hookSessions[hookOf[e]]]
          /\ UNCHANGED hookRaced
     ELSE HookAt(e, "making") /\ HookRaces(e) /\ UNCHANGED hookAsked
  /\ UNCHANGED <<hookOf, hookActive, hookQueue, hookSessions, hookMade, hookStored, hookLosses,
                 slotTaken>>

HookFinds(e) ==
  /\ handling[e] = "asking" /\ hookAsked[e] \in hookStored[hookOf[e]]
  /\ HookAt(e, "chatting")
  /\ UNCHANGED <<hookOf, hookAsked, hookActive, hookQueue, hookBook, slotTaken>>

\* The store does not know it any more: whichever is remembered by now is
\* forgotten, and a new one is made.
HookMisses(e) ==
  /\ handling[e] = "asking" /\ hookAsked[e] \notin hookStored[hookOf[e]]
  /\ HookAt(e, "making") /\ HookRaces(e)
  /\ hookSessions' = [hookSessions EXCEPT ![hookOf[e]] = 0]
  /\ UNCHANGED <<hookOf, hookAsked, hookActive, hookQueue, hookMade, hookStored, hookLosses,
                 slotTaken>>

\* Mutant: the new session is not remembered.
HookMakes_Forgets(e) ==
  /\ handling[e] = "making"
  /\ LET h == hookOf[e]
     IN  /\ hookMade' = [hookMade EXCEPT ![h] = @ + 1]
         /\ hookStored' = [hookStored EXCEPT ![h] = @ \cup {hookMade[h] + 1}]
  /\ HookAt(e, "chatting")
  /\ UNCHANGED <<hookOf, hookAsked, hookActive, hookQueue, hookSessions, hookLosses, hookRaced, slotTaken>>

HookMakes(e) ==
  /\ handling[e] = "making"
  /\ LET h == hookOf[e]
     IN  /\ hookMade' = [hookMade EXCEPT ![h] = @ + 1]
         /\ hookStored' = [hookStored EXCEPT ![h] = @ \cup {hookMade[h] + 1}]
         /\ hookSessions' = [hookSessions EXCEPT ![h] = hookMade[h] + 1]
  /\ HookAt(e, "chatting")
  /\ UNCHANGED <<hookOf, hookAsked, hookActive, hookQueue, hookLosses, hookRaced, slotTaken>>

\* Mutant: an event that fails before its chat keeps its slot.
HookEnds_InChat(e) ==
  /\ handling[e] \in {"looking", "asking", "making", "chatting"}
  /\ IF handling[e] = "chatting" THEN HookRelease(e)
     ELSE HookAt(e, "over") /\ UNCHANGED <<hookActive, hookQueue>>
  /\ UNCHANGED <<hookOf, hookAsked, hookBook, slotTaken>>

\* The chat is over, well or not, or its time is; or the store fails before it.
\* Whichever, the outcome is reported and the slot given back.
HookEnds(e) ==
  /\ handling[e] \in {"looking", "asking", "making", "chatting"}
  /\ HookRelease(e)
  /\ UNCHANGED <<hookOf, hookAsked, hookBook, slotTaken>>

\* A session of the hook is deleted, or forgetSession called.
HookSessionLost(h, forgotten) ==
  /\ hookSessions[h] # 0 /\ hookLosses[h] < MaxLosses
  /\ hookLosses' = [hookLosses EXCEPT ![h] = @ + 1]
  /\ IF forgotten
     THEN hookSessions' = [hookSessions EXCEPT ![h] = 0] /\ UNCHANGED hookStored
     ELSE /\ hookStored' = [hookStored EXCEPT ![h] = @ \ {hookSessions[h]}]
          /\ UNCHANGED hookSessions
  /\ UNCHANGED <<hookOf, hookAsked, handling, hookActive, hookQueue, hookMade, hookRaced, slotTaken>>

HookStep(e) ==
  \/ HookArrives(e) \/ HookGoesOn(e) \/ HookLooks(e) \/ HookFinds(e) \/ HookMisses(e) \/ HookMakes(e)
  \/ HookEnds(e)

HookNext ==
  \/ \E e \in HookEvents : HookStep(e)
  \/ \E h \in Hooks, forgotten \in BOOLEAN : HookSessionLost(h, forgotten)

HookSpec == HookInit /\ [][HookNext]_hookVars

(***************************************************************************)
(* Properties                                                              *)
(***************************************************************************)
HookStages == {"none", "dropped", "queued", "woken", "looking", "asking", "making", "chatting", "over"}
HookRunning == {e \in HookEvents : handling[e] \in {"looking", "asking", "making", "chatting"}}

\* Every variable keeps to its domain.
HookTypeOK ==
  /\ hookOf \in [HookEvents -> Hooks]
  /\ handling \in [HookEvents -> HookStages]
  /\ hookActive \in 0..NumHookEvents /\ hookAsked \in [HookEvents -> 0..NumHookEvents]
  /\ hookQueue \in Seq(HookEvents)
  /\ hookSessions \in [Hooks -> 0..NumHookEvents]
  /\ hookMade \in [Hooks -> 0..NumHookEvents]
  /\ hookStored \in [Hooks -> SUBSET HookEvents]
  /\ hookLosses \in [Hooks -> 0..MaxLosses]
  /\ hookRaced \subseteq Hooks /\ slotTaken \in BOOLEAN

\* No slot leaks and no waiting event is forgotten: #active counts the events
\* that run, whichever way one ends, and while an event waits all slots are
\* taken, or about to be taken by events that were called: each end calls one
\* more.  The limit is kept, but for an event that arrives between a resolve and
\* the microtask it wakes.
HookSlotsKept ==
  /\ hookActive = Cardinality(HookRunning)
  /\ \A e \in HookEvents : handling[e] = "queued" <=> \E i \in DOMAIN hookQueue : hookQueue[i] = e
  /\ hookQueue # <<>> => hookActive + Cardinality(Woken) >= MaxHookRuns
  /\ slotTaken \/ hookActive + Cardinality(Woken) <= MaxHookRuns

\* A hook does not get a session per event ("the events of one source share a
\* session", #resolveSession): a second one is only made when the first was lost,
\* or when two of its events sought theirs at once.
OneSessionPerHook ==
  \A h \in Hooks : h \notin hookRaced => hookMade[h] <= 1 + hookLosses[h]

\* Both: the limits of runs, queue and sessions hold over all hooks.
HookLimitsKept == HookSlotsKept /\ OneSessionPerHook
=============================================================================
