------------------------------- MODULE VoiceS2S -------------------------------
(***************************************************************************)
(* A voice connection over a speech-to-speech model (the route             *)
(* routes/qwen-voice-s2s.ts over the client packages/qwen-realtime).  The  *)
(* model hears the user, speaks, and calls tools; the route runs a call    *)
(* beside the model, hands its result back and asks for a response to it.  *)
(* One response is active at a time; the user may open one whenever none   *)
(* is, also while a tool runs.                                             *)
(***************************************************************************)
EXTENDS Naturals, Sequences, FiniteSets

CONSTANTS
  NumResponses,     \* responses of the model: bounds a behaviour
  NumCalls          \* tool calls it makes

ASSUME VoiceS2SAssumption == NumResponses \in Nat /\ NumCalls \in Nat

Responses == 1..NumResponses
Calls == 1..NumCalls

VARIABLES
  link,          \* the connection to the model: "connecting", "updating", "ready" or "failed"
  linkOpen,      \* its socket is open
  socketOpen,    \* the client's socket is
  listening,     \* the handlers of the client's socket are registered
  responses,     \* responses so far
  speaking,      \* the active response, or 0
  requested,     \* response.create messages the model has not answered
  turnId,        \* turnRequestId
  callState,     \* call -> "none", "running", "ignored", "answered" or "failed"
  callTurn,      \* call -> its toolContext's turn
  toolRunning, toolPending, toolResponseIds,
  overtaken,     \* a response was opened while another call's was still due (history)
  leftEarly,     \* the client's socket closed before the route listened to it (history)
  writeChain,    \* what is to be written to the session
  history        \* what was: "user" and "assistant" with the turn they belong to

s2sVars == <<link, linkOpen, socketOpen, listening, responses, speaking, requested, turnId,
             callState, callTurn, toolRunning, toolPending, toolResponseIds, overtaken,
             leftEarly, writeChain, history>>
wires == <<link, linkOpen, socketOpen, listening, leftEarly>>
tools == <<callState, callTurn, toolRunning>>

S2SInit ==
  /\ link = "connecting" /\ linkOpen = TRUE /\ socketOpen = TRUE /\ listening = FALSE
  /\ responses = 0 /\ speaking = 0 /\ requested = 0 /\ turnId = 1
  /\ callState = [c \in Calls |-> "none"] /\ callTurn = [c \in Calls |-> 0]
  /\ toolRunning = FALSE /\ toolPending = FALSE /\ toolResponseIds = {}
  /\ overtaken = FALSE /\ leftEarly = FALSE
  /\ writeChain = <<>> /\ history = <<>>

(***************************************************************************)
(* start and updateSession                                                 *)
(***************************************************************************)
ModelSessionCreated ==
  /\ link = "connecting" /\ linkOpen
  /\ link' = "updating"
  /\ UNCHANGED <<linkOpen, socketOpen, listening, leftEarly, responses, speaking, requested,
                 turnId, tools, toolPending, toolResponseIds, overtaken, writeChain, history>>

\* Only now the route listens to the client's socket, closed or not.
SessionUpdated ==
  /\ link = "updating" /\ linkOpen
  /\ link' = "ready"
  /\ listening' = TRUE
  /\ UNCHANGED <<linkOpen, socketOpen, leftEarly, responses, speaking, requested, turnId, tools,
                 toolPending, toolResponseIds, overtaken, writeChain, history>>

\* 15 s are over, or the model answers with an error: the client's socket is closed.
HandshakeFails ==
  /\ link \in {"connecting", "updating"} /\ linkOpen
  /\ link' = "failed"
  /\ socketOpen' = FALSE /\ leftEarly' = TRUE
  /\ UNCHANGED <<linkOpen, listening, responses, speaking, requested, turnId, tools,
                 toolPending, toolResponseIds, overtaken, writeChain, history>>

\* The model closes: #rejectPending, and onClose closes the client's socket.
ModelCloses ==
  /\ linkOpen
  /\ linkOpen' = FALSE
  /\ socketOpen' = FALSE
  /\ link' = IF link = "ready" THEN link ELSE "failed"
  /\ speaking' = 0
  /\ UNCHANGED <<listening, leftEarly, responses, requested, turnId, tools, toolPending, toolResponseIds,
                 overtaken, writeChain, history>>

\* Mutant: the handler forgets the model's connection.
ClientLeaves_Keeps ==
  /\ socketOpen
  /\ socketOpen' = FALSE /\ leftEarly' = ~listening
  /\ UNCHANGED <<link, linkOpen, listening, responses, speaking, requested, turnId, tools,
                 toolPending, toolResponseIds, overtaken, writeChain, history>>

\* The client's socket closes: qwen.close(), if the handler is there to call it.
ClientLeaves ==
  /\ socketOpen
  /\ socketOpen' = FALSE /\ leftEarly' = ~listening
  /\ linkOpen' = (linkOpen /\ ~listening)
  /\ speaking' = IF listening THEN 0 ELSE speaking
  /\ UNCHANGED <<link, listening, responses, requested, turnId, tools, toolPending,
                 toolResponseIds, overtaken, writeChain, history>>

(***************************************************************************)
(* The model's events                                                      *)
(***************************************************************************)
\* enqueueWrite: behind what is to be written already.
Enqueued(entry) == Append(writeChain, entry)

\* What the user said, and a response to it or to a tool's result.
ResponseCreated(forTool) ==
  /\ link = "ready" /\ linkOpen /\ speaking = 0 /\ responses < NumResponses
  /\ responses' = responses + 1
  /\ speaking' = responses'
  /\ IF forTool
     THEN requested > 0 /\ requested' = requested - 1 /\ UNCHANGED writeChain
     ELSE writeChain' = Enqueued(<<"user", responses'>>) /\ UNCHANGED requested
  /\ toolPending' = FALSE
  /\ overtaken' = (overtaken \/ toolRunning \/ requested' > 0)
  /\ UNCHANGED <<wires, turnId, tools, toolResponseIds, history>>

\* A call of the active response, announced once or twice (#emittedCalls), with
\* or without the response's id.  While a tool runs another call is ignored.
FunctionCall(c, named) ==
  /\ link = "ready" /\ linkOpen /\ speaking # 0
  /\ callState[c] = "none" /\ \A d \in Calls : d < c => callState[d] # "none"
  /\ IF toolRunning
     THEN /\ callState' = [callState EXCEPT ![c] = "ignored"]
          /\ UNCHANGED <<callTurn, toolRunning, toolPending, toolResponseIds>>
     ELSE /\ callState' = [callState EXCEPT ![c] = "running"]
          /\ callTurn' = [callTurn EXCEPT ![c] = turnId]
          /\ toolRunning' = TRUE
          /\ toolPending' = TRUE
          /\ toolResponseIds' = IF named THEN toolResponseIds \cup {speaking} ELSE toolResponseIds
  /\ UNCHANGED <<wires, responses, speaking, requested, turnId, overtaken, writeChain, history>>

\* Mutant: every response that is done ends the turn.
OnlyCarriedACall_Never == FALSE

\* Mutant: a response is known by its id only.
OnlyCarriedACall_ById == speaking \in toolResponseIds

\* Not the final reply: "the tool still has to run and the model then produces a
\* second response".
OnlyCarriedACall == speaking \in toolResponseIds \/ toolPending

\* response.done: completed, cancelled or failed; the final reply ends the turn.
ResponseDone(hasText) ==
  /\ link = "ready" /\ linkOpen /\ speaking # 0
  /\ speaking' = 0
  /\ toolResponseIds' = toolResponseIds \ {speaking}
  /\ IF OnlyCarriedACall
     THEN UNCHANGED <<writeChain, turnId>>
     ELSE /\ writeChain' = IF hasText THEN Enqueued(<<"assistant", speaking>>)
                           ELSE writeChain
          /\ turnId' = turnId + 1
  /\ UNCHANGED <<wires, responses, requested, tools, toolPending, overtaken, history>>

(***************************************************************************)
(* runFunctionCall, and the writes                                         *)
(***************************************************************************)
\* The tool, or the delegated chat, is over: its result and response.create are
\* sent, which throws when the model's connection is gone.
CallEnds(c) ==
  /\ callState[c] = "running"
  /\ callState' = [callState EXCEPT ![c] = IF linkOpen THEN "answered" ELSE "failed"]
  /\ requested' = IF linkOpen THEN requested + 1 ELSE requested
  /\ toolRunning' = FALSE
  /\ UNCHANGED <<wires, responses, speaking, turnId, callTurn, toolPending, toolResponseIds,
                 overtaken, writeChain, history>>

\* enqueueWrite: one write after the other; a failed one is logged.
WriteEnds(stored) ==
  /\ writeChain # <<>>
  /\ history' = IF stored THEN Append(history, Head(writeChain)) ELSE history
  /\ writeChain' = Tail(writeChain)
  /\ UNCHANGED <<wires, responses, speaking, requested, turnId, tools, toolPending,
                 toolResponseIds, overtaken>>

S2SNext ==
  \/ ModelSessionCreated \/ SessionUpdated \/ HandshakeFails \/ ModelCloses \/ ClientLeaves
  \/ \E flag \in BOOLEAN : ResponseCreated(flag) \/ ResponseDone(flag) \/ WriteEnds(flag)
  \/ \E c \in Calls : CallEnds(c) \/ \E named \in BOOLEAN : FunctionCall(c, named)

S2SSpec == S2SInit /\ [][S2SNext]_s2sVars

(***************************************************************************)
(* Properties                                                              *)
(***************************************************************************)
Entries == {"user", "assistant"} \X Responses

\* Every variable keeps to its domain.
S2STypeOK ==
  /\ link \in {"connecting", "updating", "ready", "failed"}
  /\ {linkOpen, socketOpen, listening, leftEarly, toolRunning, toolPending, overtaken} \subseteq BOOLEAN
  /\ responses \in 0..NumResponses /\ speaking \in {0} \cup Responses
  /\ requested \in 0..NumCalls /\ turnId \in 1..(NumResponses + 1)
  /\ callState \in [Calls -> {"none", "running", "ignored", "answered", "failed"}]
  /\ callTurn \in [Calls -> 0..(NumResponses + 1)]
  /\ toolResponseIds \subseteq Responses
  /\ writeChain \in Seq(Entries) /\ history \in Seq(Entries)

\* The turn a tool was called in is not over before its result is with the model
\* and the model's response to it begins ("ending the turn here closes the voice
\* session before the tool result can be fed back", onResponseDone): not by the
\* response that made the call, whenever its done event comes and with whichever
\* id.  Only a response opened while a call's own is still due ends it (one to
\* new speech, or the one to another call of the same response): its
\* response.created takes toolPending back though the call still runs.
TurnOutlivesItsCall ==
  ~overtaken =>
    /\ \A c \in Calls : callState[c] = "running" => callTurn[c] = turnId
    /\ requested > 0 => \E c \in Calls : callState[c] = "answered" /\ callTurn[c] = turnId

\* The connection to the model is not left open behind a client that is gone,
\* whoever closed first and whatever ran, except where the client went, or was
\* sent away, before the route listened to its socket: then nothing calls
\* qwen.close().
NoOrphanConnection == linkOpen /\ ~socketOpen => leftEarly
=============================================================================
