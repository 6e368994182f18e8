------------------------------ MODULE Heartbeat ------------------------------
(***************************************************************************)
(* The heartbeat (HeartbeatService of heartbeat-service.ts): a timer, and  *)
(* once a timer after the start, looks through mailboxes and recent runs.  *)
(* When something needs attention the model is asked, in a session of the  *)
(* heartbeat's own, and its answer is reported; HEARTBEAT_OK is a report   *)
(* that the event pusher keeps to itself.  Which session is its own, the   *)
(* server knows in memory only: a restart leaves the session in the store  *)
(* and makes another.  The digest tasks that ensureDigestTasks seeds are   *)
(* the tasks of TaskScheduler.                                             *)
(***************************************************************************)
EXTENDS Naturals, FiniteSets

CONSTANTS
  Beats,          \* checks of a behaviour: bounds it
  MaxBeatFaults   \* lost sessions, failing calls and restarts of the server: bounds a behaviour

ASSUME HeartbeatAssumption == IsFiniteSet(Beats) /\ MaxBeatFaults \in Nat

Sessions == 1..Cardinality(Beats)
NoSession == 0

VARIABLES
  beat,         \* what each check is doing
  beating,      \* #running
  userBusy,     \* isBusy: the user's conversation service has a chat in work
  beatSession,  \* #sessionId
  sessionsMade, \* how many sessions were created
  sessionsLost, \* those of them that are gone from the store
  asksIn,       \* the session that each check has made, or in which it asks the model
  forgotten,    \* the sessions that the heartbeat had, or had made, and lost sight of (history)
  found,        \* checks whose signals need attention
  report,       \* what each check reported: "none", "ok", "digest" or "error"
  saidFine,     \* checks to which the model said that nothing is the matter (history)
  chatFailed,   \* checks whose chat ended with chat.error, before any text (history)
  beatFaults

beatVars == <<beat, beating, userBusy, beatSession, sessionsMade, sessionsLost, asksIn,
              forgotten, found, report, saidFine, chatFailed, beatFaults>>
sessionVars == <<beatSession, sessionsMade, sessionsLost, asksIn, forgotten>>

BeatInit ==
  /\ beat = [b \in Beats |-> "new"]
  /\ beating = FALSE /\ userBusy = FALSE
  /\ beatSession = NoSession /\ sessionsMade = 0 /\ sessionsLost = {}
  /\ asksIn = [b \in Beats |-> NoSession] /\ forgotten = {}
  /\ found = {} /\ report = [b \in Beats |-> "none"] /\ saidFine = {} /\ chatFailed = {}
  /\ beatFaults = 0

BeatMoves(b, state) == beat' = [beat EXCEPT ![b] = state]
BeatGoesWrong == beatFaults < MaxBeatFaults /\ beatFaults' = beatFaults + 1

\* The emit of checkNow, and its finally.
BeatReports(b, said) ==
  /\ BeatMoves(b, "over")
  /\ report' = [report EXCEPT ![b] = said]
  /\ beating' = FALSE

\* Mutant: the flag is looked at, and set only when the model is asked.
MayBeat_Late == ~userBusy /\ \A b \in Beats : beat[b] # "asking"

\* checkNow's guards.
MayBeat == ~beating /\ ~userBusy

BeatStarts(b) ==
  /\ beat[b] = "new" /\ MayBeat
  /\ BeatMoves(b, "looking") /\ beating' = TRUE
  /\ UNCHANGED <<userBusy, sessionVars, found, report, saidFine, chatFailed, beatFaults>>

\* Somebody chats, or has finished.
UserChats ==
  /\ userBusy' = ~userBusy
  /\ UNCHANGED <<beat, beating, sessionVars, found, report, saidFine, chatFailed, beatFaults>>

\* #collectSignals: nothing needs attention and the model is not asked, or something does.
SignalsCollected(b) ==
  /\ beat[b] = "looking"
  /\ \/ BeatReports(b, "ok") /\ UNCHANGED found
     \/ /\ BeatMoves(b, "resolving") /\ found' = found \cup {b}
        /\ UNCHANGED <<beating, report>>
  /\ UNCHANGED <<userBusy, sessionVars, saidFine, chatFailed, beatFaults>>

SessionStands == beatSession # NoSession /\ beatSession \notin sessionsLost

\* createSession's insert, when there is none or the last one is gone.  The check does not
\* know of the new session before the store has been read again.
SessionIsMade(b) ==
  /\ beat[b] = "resolving" /\ ~SessionStands
  /\ BeatMoves(b, "made")
  /\ sessionsMade' = sessionsMade + 1
  /\ asksIn' = [asksIn EXCEPT ![b] = sessionsMade']
  /\ UNCHANGED <<beating, userBusy, beatSession, sessionsLost, forgotten, found, report, saidFine,
                 chatFailed, beatFaults>>

\* Mutant: #resolveSession returns the new session and does not keep it.
SessionResolved_Unkept(b) ==
  /\ beat[b] = "made" \/ (beat[b] = "resolving" /\ SessionStands)
  /\ BeatMoves(b, "asking")
  /\ asksIn' = IF beat[b] = "made" THEN asksIn ELSE [asksIn EXCEPT ![b] = beatSession]
  /\ UNCHANGED <<beating, userBusy, beatSession, sessionsMade, sessionsLost, forgotten, found,
                 report, saidFine, chatFailed, beatFaults>>

\* #resolveSession returns the session of the last time, or the new one.
SessionResolved(b) ==
  /\ \/ beat[b] = "resolving" /\ SessionStands /\ UNCHANGED beatSession
     \/ beat[b] = "made" /\ beatSession' = asksIn[b]
  /\ BeatMoves(b, "asking")
  /\ asksIn' = [asksIn EXCEPT ![b] = beatSession']
  /\ UNCHANGED <<beating, userBusy, sessionsMade, sessionsLost, forgotten, found, report, saidFine,
                 chatFailed, beatFaults>>

\* A session is deleted, between two checks or while one asks in it.
SessionIsLost(s) ==
  /\ s \in 1..sessionsMade /\ s \notin sessionsLost
  /\ BeatGoesWrong
  /\ sessionsLost' = sessionsLost \cup {s}
  /\ UNCHANGED <<beat, beating, userBusy, beatSession, sessionsMade, asksIn, forgotten, found,
                 report, saidFine, chatFailed>>

\* The model answers that all is well (isSilentHeartbeatOutput), or with a digest.
ModelAnswers(b) ==
  /\ beat[b] = "asking"
  /\ \/ BeatReports(b, "ok") /\ saidFine' = saidFine \cup {b}
     \/ BeatReports(b, "digest") /\ UNCHANGED saidFine
  /\ UNCHANGED <<userBusy, sessionVars, found, chatFailed, beatFaults>>

\* The chat ends with chat.error, which the loop does not look at.  No text at all is
\* silence, the text until then is taken for a digest.
ChatBreaks(b) ==
  /\ beat[b] = "asking" /\ BeatGoesWrong
  /\ \/ BeatReports(b, "ok") /\ chatFailed' = chatFailed \cup {b}
     \/ BeatReports(b, "digest") /\ UNCHANGED chatFailed
  /\ UNCHANGED <<userBusy, sessionVars, found, saidFine>>

\* The sessions that have been made and that #sessionId does not name yet.
Unnamed == {asksIn[b] : b \in {c \in Beats : beat[c] = "made"}}

\* Something throws: the stores, the session, runChat, the timeline, or the time limit.  When
\* it is the reading of a session that createSession has inserted, nobody remembers that one.
BeatThrows(b) ==
  /\ beat[b] \in {"looking", "resolving", "made", "asking"} /\ BeatGoesWrong
  /\ BeatReports(b, "error")
  /\ forgotten' = forgotten \cup Unnamed
  /\ UNCHANGED <<userBusy, beatSession, sessionsMade, sessionsLost, asksIn, found, saidFine,
                 chatFailed>>

\* The server dies and starts again: the check in work reports nothing any more, and the new
\* HeartbeatService knows of no session.
ServerRestarts ==
  /\ BeatGoesWrong
  /\ beat' = [b \in Beats |-> IF beat[b] = "new" THEN "new" ELSE "over"]
  /\ beating' = FALSE /\ userBusy' = FALSE
  /\ beatSession' = NoSession
  /\ forgotten' = forgotten \cup Unnamed \cup {beatSession}
  /\ UNCHANGED <<sessionsMade, sessionsLost, asksIn, found, report, saidFine, chatFailed>>

BeatNext ==
  \/ \E b \in Beats :
       \/ BeatStarts(b) \/ SignalsCollected(b) \/ SessionIsMade(b) \/ SessionResolved(b)
       \/ ModelAnswers(b) \/ ChatBreaks(b) \/ BeatThrows(b)
  \/ UserChats \/ ServerRestarts
  \/ \E s \in Sessions : SessionIsLost(s)

BeatSpec == BeatInit /\ [][BeatNext]_beatVars

(***************************************************************************)
(* Properties                                                              *)
(***************************************************************************)
\* Every variable keeps to its domain.
BeatTypeOK ==
  /\ beat \in [Beats -> {"new", "looking", "resolving", "made", "asking", "over"}]
  /\ report \in [Beats -> {"none", "ok", "digest", "error"}]
  /\ {beating, userBusy} \subseteq BOOLEAN
  /\ beatSession \in Sessions \cup {NoSession} /\ sessionsMade \in 0..Cardinality(Beats)
  /\ sessionsLost \subseteq Sessions /\ asksIn \in [Beats -> Sessions \cup {NoSession}]
  /\ forgotten \subseteq Sessions \cup {NoSession}
  /\ found \cup saidFine \cup chatFailed \subseteq Beats /\ beatFaults \in 0..MaxBeatFaults

Checking == {b \in Beats : beat[b] \in {"looking", "resolving", "made", "asking"}}

\* The checks keep to one conversation: never two of them in work, and of the sessions that
\* were made for them none stands in the store but the one in use and the one that is being
\* made.  Except what the server forgot: #sessionId is in memory only, and a restart, or a
\* throw out of createSession, leaves a session behind.  And every check that asks does it
\* in the session that is remembered.
OneHeartbeat ==
  /\ Cardinality(Checking) <= 1 /\ beating = (Checking # {})
  /\ 1..sessionsMade \subseteq sessionsLost \cup {beatSession} \cup Unnamed \cup forgotten
  /\ \A b \in Beats : beat[b] = "asking" => asksIn[b] = beatSession

\* What needs attention is not reported as fine without the model saying so (the doc
\* comment of HeartbeatService).  Except when the chat failed before any text: the
\* empty output counts as silence, and the user hears nothing of either trouble.
TroubleIsTold == \A b \in found : report[b] = "ok" => b \in saidFine \cup chatFailed
=============================================================================
