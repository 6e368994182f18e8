---------------------------- MODULE RequestProofs ----------------------------
(***************************************************************************)
(* Of what a request goes through on the server, and what it leaves there: *)
(* the parts share no state, and each below is about one of them alone.    *)
(***************************************************************************)
EXTENDS BridgeProofs

(***************************************************************************)
(* A voice turn outlives the tool call it made, and no connection to the   *)
(* model is left behind, for any number of responses and calls.            *)
(***************************************************************************)
\* The flags are flags, and the books have a page for each call.
FlagsKept ==
  /\ requested \in Nat /\ turnId \in Nat
  /\ toolRunning \in BOOLEAN /\ toolPending \in BOOLEAN /\ overtaken \in BOOLEAN
  /\ callState \in [Calls -> {"none", "running", "ignored", "answered", "failed"}]
  /\ callTurn \in [Calls -> Nat]

\* One call runs at a time, and toolRunning tells.
OneCallRuns ==
  \A c \in Calls : callState[c] = "running" =>
    toolRunning /\ \A d \in Calls : callState[d] = "running" => d = c

\* Until a response overtakes a call that is due, toolPending tells that one is:
\* it runs, or the model has yet to respond to its result.
DueIsPending == ~overtaken /\ (toolRunning \/ requested > 0) => toolPending

CallInv == FlagsKept /\ OneCallRuns /\ DueIsPending /\ TurnOutlivesItsCall

\* No call was made.
LEMMA CallInitially == S2SInit => CallInv
  <1> SUFFICES ASSUME S2SInit PROVE CallInv OBVIOUS
  <1> USE DEF S2SInit
  <1>1. FlagsKept BY DEF FlagsKept
  <1>2. OneCallRuns BY DEF OneCallRuns
  <1>3. DueIsPending BY DEF DueIsPending
  <1>4. TurnOutlivesItsCall BY DEF TurnOutlivesItsCall
  <1> QED BY <1>1, <1>2, <1>3, <1>4 DEF CallInv

\* The variables that the invariant speaks of.
callVars == <<callState, callTurn, toolRunning, requested, toolPending, turnId, overtaken>>

\* Each step keeps the calls and the turn in order.
LEMMA CallStep == CallInv /\ [S2SNext]_s2sVars => CallInv'
  <1> SUFFICES ASSUME CallInv, [S2SNext]_s2sVars PROVE CallInv' OBVIOUS
  <1> USE DEF CallInv
  <1>0. ASSUME UNCHANGED callVars PROVE CallInv'
    BY <1>0 DEF callVars, FlagsKept, OneCallRuns, DueIsPending, TurnOutlivesItsCall
  <1>1. CASE ModelSessionCreated \/ SessionUpdated \/ HandshakeFails \/ ModelCloses \/ ClientLeaves
    BY <1>0, <1>1
    DEF ModelSessionCreated, SessionUpdated, HandshakeFails, ModelCloses, ClientLeaves, tools,
        callVars
  <1>2. ASSUME NEW forTool \in BOOLEAN, ResponseCreated(forTool) PROVE CallInv'
    <2>1. UNCHANGED <<callState, callTurn, toolRunning, turnId>>
      BY <1>2 DEF ResponseCreated, tools
    <2>2. toolPending' = FALSE /\ overtaken' = (overtaken \/ toolRunning \/ requested' > 0)
      BY <1>2 DEF ResponseCreated
    <2>3. requested' \in Nat /\ (requested' > 0 => requested > 0)
      BY <1>2 DEF ResponseCreated, FlagsKept
    <2>4. FlagsKept' BY <2>1, <2>2, <2>3 DEF FlagsKept
    <2>5. OneCallRuns' BY <2>1 DEF OneCallRuns
    <2>6. DueIsPending' BY <2>1, <2>2 DEF DueIsPending
    <2>7. TurnOutlivesItsCall' BY <2>1, <2>2, <2>3 DEF TurnOutlivesItsCall
    <2> QED BY <2>4, <2>5, <2>6, <2>7
  <1>3. ASSUME NEW hasText \in BOOLEAN, ResponseDone(hasText) PROVE CallInv'
    <2>1. UNCHANGED <<callState, callTurn, toolRunning, requested, toolPending, overtaken>>
      BY <1>3 DEF ResponseDone, tools
    <2>2. CASE OnlyCarriedACall
      <3>1. turnId' = turnId BY <1>3, <2>2 DEF ResponseDone
      <3> QED BY <1>0, <2>1, <3>1 DEF callVars
    <2>3. CASE ~OnlyCarriedACall
      <3>1. turnId' = turnId + 1 BY <1>3, <2>3 DEF ResponseDone
      <3>2. ~overtaken => ~toolRunning /\ ~(requested > 0)
        BY <2>3 DEF OnlyCarriedACall, DueIsPending
      <3>3. ~overtaken => \A c \in Calls : callState[c] # "running" BY <3>2 DEF OneCallRuns
      <3>4. FlagsKept' BY <2>1, <3>1 DEF FlagsKept
      <3>5. OneCallRuns' /\ DueIsPending' BY <2>1 DEF OneCallRuns, DueIsPending
      <3>6. TurnOutlivesItsCall' BY <2>1, <3>2, <3>3 DEF TurnOutlivesItsCall
      <3> QED BY <3>4, <3>5, <3>6
    <2> QED BY <2>2, <2>3
  <1>4. ASSUME NEW c \in Calls, NEW named \in BOOLEAN, FunctionCall(c, named) PROVE CallInv'
    <2>1. UNCHANGED <<requested, turnId, overtaken>> /\ callState[c] = "none"
      BY <1>4 DEF FunctionCall
    <2>2. CASE toolRunning
      <3>1. UNCHANGED <<callTurn, toolRunning, toolPending>>
            /\ callState' = [callState EXCEPT ![c] = "ignored"]
        BY <1>4, <2>2 DEF FunctionCall
      <3> QED BY <2>1, <3>1 DEF FlagsKept, OneCallRuns, DueIsPending, TurnOutlivesItsCall
    <2>3. CASE ~toolRunning
      <3>1. toolRunning' = TRUE /\ toolPending' = TRUE
            /\ callState' = [callState EXCEPT ![c] = "running"]
            /\ callTurn' = [callTurn EXCEPT ![c] = turnId]
        BY <1>4, <2>3 DEF FunctionCall
      <3>2. \A d \in Calls : callState[d] # "running" BY <2>3 DEF OneCallRuns
      <3>3. FlagsKept' /\ OneCallRuns' BY <2>1, <3>1, <3>2 DEF FlagsKept, OneCallRuns
      <3>4. DueIsPending' BY <3>1 DEF DueIsPending
      <3>5. TurnOutlivesItsCall' BY <2>1, <3>1, <3>2 DEF FlagsKept, TurnOutlivesItsCall
      <3> QED BY <3>3, <3>4, <3>5
    <2> QED BY <2>2, <2>3
  <1>5. ASSUME NEW c \in Calls, CallEnds(c) PROVE CallInv'
    <2>1. /\ callState[c] = "running" /\ toolRunning' = FALSE
          /\ callState' = [callState EXCEPT ![c] = IF linkOpen THEN "answered" ELSE "failed"]
          /\ requested' = IF linkOpen THEN requested + 1 ELSE requested
          /\ UNCHANGED <<callTurn, toolPending, turnId, overtaken>>
      BY <1>5 DEF CallEnds
    <2>2. toolRunning /\ \A d \in Calls \ {c} : callState[d] # "running" BY <2>1 DEF OneCallRuns
    <2>3. FlagsKept'
      <3>1. callState' \in [Calls -> {"none", "running", "ignored", "answered", "failed"}]
        BY <2>1 DEF FlagsKept
      <3>2. requested' \in Nat BY <2>1 DEF FlagsKept
      <3> QED BY <2>1, <3>1, <3>2 DEF FlagsKept
    <2>4. OneCallRuns' BY <2>1, <2>2 DEF OneCallRuns, FlagsKept
    <2>5. DueIsPending' BY <2>1, <2>2 DEF DueIsPending
    <2>6. TurnOutlivesItsCall'
      <3>1. ~overtaken => callTurn[c] = turnId BY <2>1 DEF TurnOutlivesItsCall
      <3> QED BY <2>1, <2>2, <3>1 DEF FlagsKept, TurnOutlivesItsCall
    <2> QED BY <2>3, <2>4, <2>5, <2>6
  <1>6. ASSUME NEW saved \in BOOLEAN, WriteEnds(saved) PROVE CallInv'
    BY <1>0, <1>6 DEF WriteEnds, tools, callVars
  <1>7. CASE UNCHANGED s2sVars BY <1>0, <1>7 DEF s2sVars, callVars
  <1> QED BY <1>1, <1>2, <1>3, <1>4, <1>5, <1>6, <1>7 DEF S2SNext

\* onResponseDone and runFunctionCall: as long as no response overtakes a call
\* that is due, the turn is the one that made it.
THEOREM TurnsOutliveCalls == S2SSpec => []TurnOutlivesItsCall
  <1>1. CallInv => TurnOutlivesItsCall BY DEF CallInv
  <1> QED BY CallInitially, CallStep, <1>1, PTL DEF S2SSpec

(***************************************************************************)
(* The connection                                                          *)
(***************************************************************************)
LEMMA ConnectionStep ==
  NoOrphanConnection /\ [S2SNext]_s2sVars => NoOrphanConnection'
  <1> SUFFICES ASSUME NoOrphanConnection, [S2SNext]_s2sVars PROVE NoOrphanConnection' OBVIOUS
  <1> USE DEF NoOrphanConnection
  <1>1. CASE ModelSessionCreated BY <1>1 DEF ModelSessionCreated
  <1>2. CASE SessionUpdated BY <1>2 DEF SessionUpdated
  <1>3. CASE HandshakeFails BY <1>3 DEF HandshakeFails
  <1>4. CASE ModelCloses BY <1>4 DEF ModelCloses
  <1>5. CASE ClientLeaves
    BY <1>5 DEF ClientLeaves
  <1>6. ASSUME NEW flag \in BOOLEAN, ResponseCreated(flag) \/ ResponseDone(flag) \/ WriteEnds(flag)
        PROVE  NoOrphanConnection'
    BY <1>6 DEF ResponseCreated, ResponseDone, WriteEnds, wires
  <1>7. ASSUME NEW c \in Calls, CallEnds(c) \/ \E named \in BOOLEAN : FunctionCall(c, named)
        PROVE  NoOrphanConnection'
    BY <1>7 DEF CallEnds, FunctionCall, wires
  <1>8. CASE UNCHANGED s2sVars BY <1>8 DEF s2sVars
  <1> QED BY <1>1, <1>2, <1>3, <1>4, <1>5, <1>6, <1>7, <1>8 DEF S2SNext

\* socket.on("close") and qwen.onClose: whoever closes first, the connection to
\* the model does not outlive the client's, unless the client was gone before the
\* route listened to it.
THEOREM ConnectionsAreClosed == S2SSpec => []NoOrphanConnection
  <1>1. S2SInit => NoOrphanConnection BY DEF S2SInit, NoOrphanConnection
  <1> QED BY <1>1, ConnectionStep, PTL DEF S2SSpec

\* The calls whose result is with the model.
AnsweredCalls == {c \in Calls : callState[c] = "answered"}

\* A turn is of a response, and response.create was sent for an answered call.
S2STyped ==
  /\ S2STypeOK
  /\ turnId <= responses + 1 /\ (speaking # 0 => turnId <= responses)
  /\ requested <= Cardinality(AnsweredCalls)

\* Sets of calls are finite, and no larger than the set of all.
LEMMA CallsFinite ==
  ASSUME NEW S, S \subseteq Calls
  PROVE  IsFiniteSet(S) /\ Cardinality(S) \in Nat /\ Cardinality(S) <= NumCalls
  <1>1. IsFiniteSet(Calls) /\ Cardinality(Calls) = NumCalls
    <2>1. CASE NumCalls = 0
      <3>1. Calls = {} BY <2>1 DEF Calls
      <3> QED BY <2>1, <3>1, FS_EmptySet
    <2>2. CASE NumCalls # 0
      <3>1. 1 \in Int /\ NumCalls \in Int /\ ~(1 > NumCalls) BY <2>2, VoiceS2SAssumption
      <3> QED BY <3>1, FS_Interval DEF Calls
    <2> QED BY <2>1, <2>2
  <1> QED BY <1>1, FS_Subset, FS_CardinalityType

\* Every step keeps the domains.
LEMMA S2STypeStep == S2STyped /\ [S2SNext]_s2sVars => S2STyped'
  <1> SUFFICES ASSUME S2STyped, [S2SNext]_s2sVars PROVE S2STyped' OBVIOUS
  <1> USE VoiceS2SAssumption
  <1>0. S2STypeOK BY DEF S2STyped
  <1>1. ASSUME UNCHANGED <<responses, requested, turnId, tools, toolPending, toolResponseIds,
                           overtaken, writeChain, history>>,
               link' \in {"connecting", "updating", "ready", "failed"},
               {linkOpen', socketOpen', listening', leftEarly'} \subseteq BOOLEAN,
               speaking' \in {0, speaking}
        PROVE  S2STyped'
    <2>1. AnsweredCalls' = AnsweredCalls BY <1>1 DEF AnsweredCalls, tools
    <2>2. S2STypeOK' BY <1>0, <1>1 DEF S2STypeOK, tools
    <2> QED BY <1>1, <2>1, <2>2 DEF S2STyped
  <1>2. CASE \/ ModelSessionCreated \/ SessionUpdated \/ HandshakeFails \/ ModelCloses
             \/ ClientLeaves \/ UNCHANGED s2sVars
    BY <1>0, <1>1, <1>2
    DEF ModelSessionCreated, SessionUpdated, HandshakeFails, ModelCloses, ClientLeaves, s2sVars,
        tools, S2STypeOK
  <1>3. ASSUME NEW flag \in BOOLEAN, ResponseCreated(flag) PROVE S2STyped'
    <2>1. /\ responses' = responses + 1 /\ speaking' = responses + 1 /\ responses < NumResponses
          /\ toolPending' = FALSE /\ overtaken' \in BOOLEAN
          /\ (requested' = requested \/ (requested > 0 /\ requested' = requested - 1))
          /\ writeChain' = writeChain \/ writeChain' = Append(writeChain, <<"user", responses + 1>>)
          /\ UNCHANGED <<link, linkOpen, socketOpen, listening, leftEarly, turnId, callState,
                         callTurn, toolRunning, toolResponseIds, history>>
      BY <1>3 DEF ResponseCreated, wires, tools, Enqueued
    <2>2. AnsweredCalls' = AnsweredCalls BY <2>1 DEF AnsweredCalls
    <2>3. AnsweredCalls \subseteq Calls BY DEF AnsweredCalls
    <2>4. Cardinality(AnsweredCalls) \in Nat BY <2>3, CallsFinite
    <2>5. requested' \in 0..NumCalls /\ requested' <= Cardinality(AnsweredCalls)
      BY <1>0, <2>1, <2>4 DEF S2STyped, S2STypeOK
    <2>6. <<"user", responses + 1>> \in Entries
      BY <1>0, <2>1 DEF Entries, Responses, S2STypeOK
    <2>7. writeChain' \in Seq(Entries)
      <3>1. writeChain \in Seq(Entries) BY <1>0 DEF S2STypeOK
      <3>2. writeChain' = writeChain \/ writeChain' = Append(writeChain, <<"user", responses + 1>>)
        BY <2>1
      <3> QED BY ONLY <2>6, <3>1, <3>2
    <2>8. responses' \in 0..NumResponses /\ speaking' \in {0} \cup Responses
      BY <1>0, <2>1 DEF S2STypeOK, Responses
    <2>9. turnId <= responses' BY <1>0, <2>1 DEF S2STyped, S2STypeOK
    <2>10. turnId <= responses' + 1 BY <1>0, <2>1, <2>9 DEF S2STypeOK
    <2>11. S2STypeOK' BY <1>0, <2>1, <2>5, <2>7, <2>8 DEF S2STypeOK
    <2> QED BY <2>1, <2>2, <2>5, <2>9, <2>10, <2>11 DEF S2STyped
  <1>4. ASSUME NEW c \in Calls, NEW named \in BOOLEAN, FunctionCall(c, named) PROVE S2STyped'
    <2>1. /\ UNCHANGED <<link, linkOpen, socketOpen, listening, leftEarly, responses, speaking,
                         requested, turnId, overtaken, writeChain, history>>
          /\ callState' = [callState EXCEPT ![c] = "ignored"]
             \/ callState' = [callState EXCEPT ![c] = "running"]
          /\ callTurn' = callTurn \/ callTurn' = [callTurn EXCEPT ![c] = turnId]
          /\ toolRunning' = toolRunning \/ toolRunning' = TRUE
          /\ toolPending' = toolPending \/ toolPending' = TRUE
          /\ toolResponseIds' \in {toolResponseIds, toolResponseIds \cup {speaking}}
          /\ speaking # 0 /\ callState[c] = "none"
      BY <1>4 DEF FunctionCall, wires
    <2>2. AnsweredCalls' = AnsweredCalls BY <1>0, <2>1 DEF AnsweredCalls, S2STypeOK
    <2>3. callTurn' \in [Calls -> 0..(NumResponses + 1)]
      BY <1>0, <2>1 DEF S2STypeOK
    <2>4. callState' \in [Calls -> {"none", "running", "ignored", "answered", "failed"}]
      BY <1>0, <2>1 DEF S2STypeOK
    <2>5. toolResponseIds' \subseteq Responses BY <1>0, <2>1 DEF S2STypeOK
    <2>6. {toolRunning', toolPending'} \subseteq BOOLEAN BY <1>0, <2>1 DEF S2STypeOK
    <2>7. S2STypeOK' BY <1>0, <2>1, <2>3, <2>4, <2>5, <2>6 DEF S2STypeOK
    <2> QED BY <2>1, <2>2, <2>7 DEF S2STyped
  <1>5. ASSUME NEW hasText \in BOOLEAN, ResponseDone(hasText) PROVE S2STyped'
    <2>1. /\ speaking # 0 /\ speaking' = 0
          /\ toolResponseIds' = toolResponseIds \ {speaking}
          /\ turnId' = turnId \/ turnId' = turnId + 1
          /\ writeChain' = writeChain \/ writeChain' = Append(writeChain, <<"assistant", speaking>>)
          /\ UNCHANGED <<link, linkOpen, socketOpen, listening, leftEarly, responses, requested,
                         callState, callTurn, toolRunning, toolPending, overtaken, history>>
      BY <1>5 DEF ResponseDone, wires, tools, Enqueued
    <2>2. AnsweredCalls' = AnsweredCalls BY <2>1 DEF AnsweredCalls
    <2>3. turnId' \in 1..(NumResponses + 1) /\ turnId' <= responses + 1
      BY <1>0, <2>1 DEF S2STyped, S2STypeOK
    <2>4. <<"assistant", speaking>> \in Entries BY <1>0, <2>1 DEF Entries, S2STypeOK
    <2>5. writeChain' \in Seq(Entries)
      <3>1. writeChain \in Seq(Entries) BY <1>0 DEF S2STypeOK
      <3>2. writeChain' = writeChain \/ writeChain' = Append(writeChain, <<"assistant", speaking>>)
        BY <2>1
      <3> QED BY ONLY <2>4, <3>1, <3>2
    <2>6. S2STypeOK' BY <1>0, <2>1, <2>3, <2>5 DEF S2STypeOK
    <2> QED BY <2>1, <2>2, <2>3, <2>6 DEF S2STyped
  <1>6. ASSUME NEW c \in Calls, CallEnds(c) PROVE S2STyped'
    <2>1. /\ callState[c] = "running" /\ toolRunning' = FALSE
          /\ \/ callState' = [callState EXCEPT ![c] = "answered"] /\ requested' = requested + 1
             \/ callState' = [callState EXCEPT ![c] = "failed"] /\ requested' = requested
          /\ UNCHANGED <<link, linkOpen, socketOpen, listening, leftEarly, responses, speaking,
                         turnId, callTurn, toolPending, toolResponseIds, overtaken, writeChain,
                         history>>
      BY <1>6 DEF CallEnds, wires
    <2>2. /\ AnsweredCalls \subseteq Calls /\ AnsweredCalls' \subseteq Calls
          /\ c \notin AnsweredCalls
          /\ \/ AnsweredCalls' = AnsweredCalls \cup {c} /\ requested' = requested + 1
             \/ AnsweredCalls' = AnsweredCalls /\ requested' = requested
      BY <1>0, <2>1 DEF AnsweredCalls, S2STypeOK
    <2> DEFINE N == AnsweredCalls'
               O == AnsweredCalls
    <2>3. requested <= Cardinality(O) /\ requested \in Nat BY <1>0 DEF S2STyped, S2STypeOK
    <2> HIDE DEF N, O
    <2>4. /\ IsFiniteSet(O) /\ Cardinality(O) \in Nat
          /\ Cardinality(N) \in Nat /\ Cardinality(N) <= NumCalls
      BY <2>2, CallsFinite DEF N, O
    <2>5. N = O \cup {c} => Cardinality(N) = Cardinality(O) + 1
      BY <2>2, <2>4, FS_AddElement DEF O
    <2>6. requested' <= Cardinality(N) /\ requested' \in Nat
      BY <2>2, <2>3, <2>4, <2>5 DEF N, O
    <2>7. requested' \in 0..NumCalls BY <2>4, <2>6
    <2>8. callState' \in [Calls -> {"none", "running", "ignored", "answered", "failed"}]
      BY <1>0, <2>1 DEF S2STypeOK
    <2>9. S2STypeOK' BY <1>0, <2>1, <2>7, <2>8 DEF S2STypeOK
    <2> QED BY <2>1, <2>6, <2>9 DEF S2STyped, N
  <1>7. ASSUME NEW kept0 \in BOOLEAN, WriteEnds(kept0) PROVE S2STyped'
    <2>1. /\ writeChain # <<>> /\ writeChain' = Tail(writeChain)
          /\ history' = history \/ history' = Append(history, Head(writeChain))
          /\ UNCHANGED <<link, linkOpen, socketOpen, listening, leftEarly, responses, speaking,
                         requested, turnId, callState, callTurn, toolRunning, toolPending,
                         toolResponseIds, overtaken>>
      BY <1>7 DEF WriteEnds, wires, tools
    <2>2. AnsweredCalls' = AnsweredCalls BY <2>1 DEF AnsweredCalls
    <2>3. writeChain \in Seq(Entries) /\ history \in Seq(Entries) BY <1>0 DEF S2STypeOK
    <2>4. writeChain' \in Seq(Entries) /\ history' \in Seq(Entries)
      <3>1. Head(writeChain) \in Entries /\ Tail(writeChain) \in Seq(Entries) BY <2>1, <2>3
      <3> QED BY <2>1, <2>3, <3>1
    <2>5. S2STypeOK' BY <1>0, <2>1, <2>4 DEF S2STypeOK
    <2> QED BY <2>1, <2>2, <2>5 DEF S2STyped
  <1> QED BY <1>2, <1>3, <1>4, <1>5, <1>6, <1>7 DEF S2SNext

\* The route's variables keep to their domains (S2STypeOK).
LEMMA S2SIsTyped == S2SSpec => []S2STypeOK
  <1>1. S2SInit => S2STyped
    <2> SUFFICES ASSUME S2SInit PROVE S2STyped OBVIOUS
    <2>1. AnsweredCalls \subseteq Calls BY DEF AnsweredCalls
    <2>2. Cardinality(AnsweredCalls) \in Nat BY <2>1, CallsFinite
    <2>3. <<>> \in Seq(Entries) OBVIOUS
    <2>4. /\ writeChain \in Seq(Entries) /\ history \in Seq(Entries)
          /\ toolResponseIds \subseteq Responses
      BY <2>3 DEF S2SInit
    <2>5. /\ callState \in [Calls -> {"none", "running", "ignored", "answered", "failed"}]
          /\ callTurn \in [Calls -> 0..(NumResponses + 1)]
      BY VoiceS2SAssumption DEF S2SInit
    <2>6. /\ responses \in 0..NumResponses /\ speaking \in {0} \cup Responses
          /\ requested \in 0..NumCalls /\ turnId \in 1..(NumResponses + 1)
      BY VoiceS2SAssumption DEF S2SInit
    <2>7. /\ link \in {"connecting", "updating", "ready", "failed"}
          /\ {linkOpen, socketOpen, listening, leftEarly, toolRunning, toolPending, overtaken}
               \subseteq BOOLEAN
      BY DEF S2SInit
    <2>8. S2STypeOK BY <2>4, <2>5, <2>6, <2>7 DEF S2STypeOK
    <2>9. turnId <= responses + 1 /\ speaking = 0 /\ requested = 0 BY DEF S2SInit
    <2> QED BY <2>2, <2>8, <2>9 DEF S2STyped
  <1>2. S2STyped => S2STypeOK BY DEF S2STyped
  <1> QED BY <1>1, <1>2, S2STypeStep, PTL DEF S2SSpec

(***************************************************************************)
(* The webhooks' slots are neither lost nor exceeded, and their events     *)
(* share sessions, for any number of events, hooks, slots and losses.      *)
(***************************************************************************)
Seeking == {"asking", "making"}

\* What the variables may be.
HookDomains ==
  /\ hookOf \in [HookEvents -> Hooks] /\ handling \in [HookEvents -> HookStages]
  /\ hookAsked \in [HookEvents -> Nat] /\ hookQueue \in Seq(HookEvents)
  /\ hookSessions \in [Hooks -> Nat] /\ hookMade \in [Hooks -> Nat]
  /\ hookLosses \in [Hooks -> Nat] /\ hookStored \in [Hooks -> SUBSET (Nat \ {0})]
  /\ hookRaced \subseteq Hooks /\ slotTaken \in BOOLEAN

\* An event waits once.
QueuedOnce == \A i, j \in DOMAIN hookQueue : hookQueue[i] = hookQueue[j] => i = j

\* The books of a hook whose events never sought a session at once: a session that is
\* not remembered, or not stored any more, has its loss; whoever asks, asks for the one
\* that is remembered, if any is; whoever makes one is alone.
HookBooks(h) ==
  /\ hookMade[h] <= 1 + hookLosses[h]
  /\ hookSessions[h] \notin hookStored[h] => hookMade[h] <= hookLosses[h]
  /\ \A e \in HookEvents : hookOf[e] = h /\ handling[e] = "asking" =>
       hookSessions[h] \in {hookAsked[e], 0}
  /\ \A e \in HookEvents : hookOf[e] = h /\ handling[e] = "making" =>
       /\ hookSessions[h] = 0
       /\ \A d \in HookEvents \ {e} : hookOf[d] = h => handling[d] \notin Seeking

SessionsFollowed == \A h \in Hooks \ hookRaced : HookBooks(h)

HookInv == HookDomains /\ QueuedOnce /\ HookSlotsKept /\ SessionsFollowed

\* The events that run, and those called, are a finite number.
LEMMA HookEventsFinite ==
  ASSUME NEW S \in SUBSET HookEvents PROVE IsFiniteSet(S) /\ Cardinality(S) \in Nat
  <1>1. IsFiniteSet(HookEvents) BY HookAssumption, FS_Interval DEF HookEvents
  <1> QED BY <1>1, FS_Subset, FS_CardinalityType

\* No event has come.
LEMMA HookInitially == HookInit => HookInv
  <1> SUFFICES ASSUME HookInit PROVE HookInv OBVIOUS
  <1> USE DEF HookInit
  <1>1. HookDomains
    <2>1. handling \in [HookEvents -> HookStages] BY DEF HookStages
    <2>2. hookQueue \in Seq(HookEvents) OBVIOUS
    <2> QED BY <2>1, <2>2 DEF HookDomains
  <1>2. QueuedOnce BY DEF QueuedOnce
  <1>3. HookSlotsKept
    <2>1. HookRunning = {} /\ Woken = {} BY DEF HookRunning, Woken
    <2>2. Cardinality({}) = 0 BY FS_EmptySet
    <2> QED BY <2>1, <2>2, HookAssumption DEF HookSlotsKept
  <1>4. SessionsFollowed BY DEF SessionsFollowed, HookBooks, Seeking
  <1> QED BY <1>1, <1>2, <1>3, <1>4 DEF HookInv

\* Where one event goes, and what that does to the counts of slots.
LEMMA OneMoves ==
  ASSUME HookInv, NEW e \in HookEvents, NEW where \in HookStages, HookAt(e, where)
  PROVE  /\ handling' \in [HookEvents -> HookStages]
         /\ \A d \in HookEvents : handling'[d] = IF d = e THEN where ELSE handling[d]
         /\ HookRunning' = IF where \in {"looking", "asking", "making", "chatting"}
                           THEN HookRunning \cup {e} ELSE HookRunning \ {e}
         /\ Woken' = IF where = "woken" THEN Woken \cup {e} ELSE Woken \ {e}
  <1>1. \A d \in HookEvents : handling'[d] = IF d = e THEN where ELSE handling[d]
    BY DEF HookAt, HookInv, HookDomains
  <1>2. handling' \in [HookEvents -> HookStages] BY DEF HookAt, HookInv, HookDomains
  <1>3. HookRunning' = IF where \in {"looking", "asking", "making", "chatting"}
                       THEN HookRunning \cup {e} ELSE HookRunning \ {e}
    BY <1>1 DEF HookRunning
  <1>4. Woken' = IF where = "woken" THEN Woken \cup {e} ELSE Woken \ {e}
    BY <1>1 DEF Woken
  <1> QED BY <1>1, <1>2, <1>3, <1>4

\* Who seeks or asks for a session is where the books see it.
LEMMA BooksUntouched ==
  ASSUME HookInv, HookDomains', UNCHANGED <<hookOf, hookAsked, hookBook>>,
         \A d \in HookEvents : handling'[d] \in Seeking => handling'[d] = handling[d]
  PROVE  SessionsFollowed'
  BY DEF HookInv, SessionsFollowed, HookBooks, hookBook, Seeking

\* The arrival of an event.
LEMMA HookArrivesKeeps ==
  ASSUME HookInv, NEW e \in HookEvents, HookArrives(e) PROVE HookInv'
  <1> USE DEF HookInv
  <1>1. handling[e] = "none" /\ e \notin HookRunning /\ e \notin Woken
    BY DEF HookArrives, HookRunning, Woken
  <1>2. HookRunning \in SUBSET HookEvents /\ Woken \in SUBSET HookEvents BY DEF HookRunning, Woken
  <1>3. IsFiniteSet(HookRunning) /\ Cardinality(HookRunning) \in Nat /\ Cardinality(Woken) \in Nat
    BY <1>2, HookEventsFinite
  <1>4. UNCHANGED <<hookOf, hookAsked, hookBook>> BY DEF HookArrives
  <1>5. \A i \in DOMAIN hookQueue : hookQueue[i] # e BY <1>1 DEF HookSlotsKept
  <1>6. CASE hookActive < MaxHookRuns
    <2>1. /\ HookAt(e, "looking") /\ hookActive' = hookActive + 1 /\ hookQueue' = hookQueue
          /\ slotTaken' = (slotTaken \/ Woken # {})
      BY <1>6 DEF HookArrives
    <2>2. /\ handling' \in [HookEvents -> HookStages]
          /\ \A d \in HookEvents : handling'[d] = IF d = e THEN "looking" ELSE handling[d]
          /\ HookRunning' = HookRunning \cup {e} /\ Woken' = Woken \ {e}
      <3>1. "looking" \in HookStages BY DEF HookStages
      <3> QED BY <2>1, <3>1, OneMoves
    <2>3. HookDomains' BY <1>4, <2>1, <2>2 DEF HookDomains, hookBook
    <2>4. QueuedOnce' BY <2>1 DEF QueuedOnce
    <2>5. HookSlotsKept'
      <3>1. Woken' = Woken BY <1>1, <2>2
      <3>2. Cardinality(HookRunning') = Cardinality(HookRunning) + 1
        BY <1>1, <1>3, <2>2, FS_AddElement
      <3>3. hookActive' = Cardinality(HookRunning') BY <2>1, <3>2 DEF HookSlotsKept
      <3>4. \A d \in HookEvents :
              handling'[d] = "queued" <=> \E i \in DOMAIN hookQueue' : hookQueue'[i] = d
        BY <1>1, <1>5, <2>1, <2>2 DEF HookSlotsKept
      <3>5. hookQueue' # <<>> => hookActive' + Cardinality(Woken') >= MaxHookRuns
        BY <1>3, <2>1, <3>1, HookAssumption DEF HookSlotsKept
      <3>6. ~slotTaken' => hookActive' + Cardinality(Woken') <= MaxHookRuns
        <4> SUFFICES ASSUME ~slotTaken' PROVE hookActive' + Cardinality(Woken') <= MaxHookRuns
          OBVIOUS
        <4>1. Cardinality(Woken') = 0 BY <2>1, <3>1, FS_EmptySet
        <4> QED BY <1>3, <1>6, <2>1, <4>1, HookAssumption DEF HookSlotsKept
      <3> QED BY <3>3, <3>4, <3>5, <3>6 DEF HookSlotsKept
    <2>6. SessionsFollowed' BY <1>4, <2>2, <2>3, BooksUntouched DEF Seeking
    <2> QED BY <2>3, <2>4, <2>5, <2>6
  <1>7. CASE hookActive >= MaxHookRuns
    <2>1. PICK where \in {"dropped", "queued"} :
            /\ HookAt(e, where) /\ UNCHANGED <<hookActive, slotTaken>>
            /\ hookQueue' = IF where = "queued" THEN Append(hookQueue, e) ELSE hookQueue
      BY <1>3, <1>7, HookAssumption DEF HookArrives, HookSlotsKept
    <2>2. /\ handling' \in [HookEvents -> HookStages]
          /\ \A d \in HookEvents : handling'[d] = IF d = e THEN where ELSE handling[d]
          /\ HookRunning' = HookRunning \ {e} /\ Woken' = Woken \ {e}
      <3>1. where \in HookStages /\ where # "woken"
            /\ where \notin {"looking", "asking", "making", "chatting"} BY DEF HookStages
      <3> QED BY <2>1, <3>1, OneMoves
    <2>3. HookRunning' = HookRunning /\ Woken' = Woken BY <1>1, <2>2
    <2>4. HookDomains' BY <1>4, <2>1, <2>2 DEF HookDomains, hookBook
    <2>5. /\ \A i \in DOMAIN hookQueue : i \in DOMAIN hookQueue' /\ hookQueue'[i] = hookQueue[i]
          /\ \A i \in DOMAIN hookQueue' : \/ i \in DOMAIN hookQueue
                                          \/ /\ where = "queued" /\ i = Len(hookQueue) + 1
                                             /\ hookQueue'[i] = e
          /\ where = "queued" => /\ Len(hookQueue) + 1 \in DOMAIN hookQueue'
                                 /\ hookQueue'[Len(hookQueue) + 1] = e
      <3>1. hookQueue \in Seq(HookEvents) /\ Len(hookQueue) \in Nat
            /\ DOMAIN hookQueue = 1..Len(hookQueue) BY DEF HookDomains
      <3>2. CASE where = "dropped" BY <2>1, <3>1, <3>2
      <3>3. CASE where = "queued"
        <4>1. /\ DOMAIN hookQueue' = 1..(Len(hookQueue) + 1)
              /\ \A i \in 1..Len(hookQueue) : hookQueue'[i] = hookQueue[i]
              /\ hookQueue'[Len(hookQueue) + 1] = e
          BY <2>1, <3>1, <3>3, AppendProperties
        <4> QED BY <3>1, <3>3, <4>1
      <3> QED BY <3>2, <3>3
    <2>6. QueuedOnce' BY <1>5, <2>5 DEF QueuedOnce
    <2>7. HookSlotsKept'
      <3>1. \A d \in HookEvents :
              handling'[d] = "queued" <=> \E i \in DOMAIN hookQueue' : hookQueue'[i] = d
        BY <1>5, <2>2, <2>5 DEF HookSlotsKept
      <3>2. hookActive' + Cardinality(Woken') >= MaxHookRuns
        BY <1>3, <1>7, <2>1, <2>3, HookAssumption DEF HookSlotsKept
      <3> QED BY <2>1, <2>3, <3>1, <3>2 DEF HookSlotsKept
    <2>8. SessionsFollowed' BY <1>4, <2>2, <2>4, BooksUntouched DEF Seeking
    <2> QED BY <2>4, <2>6, <2>7, <2>8
  <1> QED BY <1>3, <1>6, <1>7, HookAssumption DEF HookSlotsKept

\* An event that was called takes the slot it was called for.
LEMMA HookGoesOnKeeps ==
  ASSUME HookInv, NEW e \in HookEvents, HookGoesOn(e) PROVE HookInv'
  <1> USE DEF HookInv
  <1>1. handling[e] = "woken" /\ e \notin HookRunning /\ e \in Woken
    BY DEF HookGoesOn, HookRunning, Woken
  <1>2. HookRunning \in SUBSET HookEvents /\ Woken \in SUBSET HookEvents BY DEF HookRunning, Woken
  <1>3. /\ IsFiniteSet(HookRunning) /\ Cardinality(HookRunning) \in Nat
        /\ IsFiniteSet(Woken) /\ Cardinality(Woken) \in Nat
    BY <1>2, HookEventsFinite
  <1>4. /\ UNCHANGED <<hookOf, hookAsked, hookQueue, hookBook, slotTaken>>
        /\ hookActive' = hookActive + 1 /\ HookAt(e, "looking")
    BY DEF HookGoesOn
  <1>5. /\ handling' \in [HookEvents -> HookStages]
        /\ \A d \in HookEvents : handling'[d] = IF d = e THEN "looking" ELSE handling[d]
        /\ HookRunning' = HookRunning \cup {e} /\ Woken' = Woken \ {e}
    <2>1. "looking" \in HookStages BY DEF HookStages
    <2> QED BY <1>4, <2>1, OneMoves
  <1>6. HookDomains' BY <1>4, <1>5 DEF HookDomains, hookBook
  <1>7. QueuedOnce' BY <1>4 DEF QueuedOnce
  <1>8. HookSlotsKept'
    <2>1. Cardinality(HookRunning') = Cardinality(HookRunning) + 1
      BY <1>1, <1>3, <1>5, FS_AddElement
    <2>2. Cardinality(Woken') = Cardinality(Woken) - 1 BY <1>1, <1>3, <1>5, FS_RemoveElement
    <2>3. \A d \in HookEvents :
            handling'[d] = "queued" <=> \E i \in DOMAIN hookQueue' : hookQueue'[i] = d
      BY <1>1, <1>4, <1>5 DEF HookSlotsKept
    <2>4. hookActive' + Cardinality(Woken') = hookActive + Cardinality(Woken)
      BY <1>3, <1>4, <2>2 DEF HookSlotsKept
    <2> QED BY <1>4, <2>1, <2>3, <2>4 DEF HookSlotsKept
  <1>9. SessionsFollowed' BY <1>4, <1>5, <1>6, BooksUntouched DEF Seeking
  <1> QED BY <1>6, <1>7, <1>8, <1>9

\* The end of an event, wherever it was: the next in line is called.
LEMMA HookEndsKeeps ==
  ASSUME HookInv, NEW e \in HookEvents, HookEnds(e) PROVE HookInv'
  <1> USE DEF HookInv
  <1>1. e \in HookRunning /\ e \notin Woken /\ handling[e] # "queued"
    BY DEF HookEnds, HookRunning, Woken
  <1>2. HookRunning \in SUBSET HookEvents /\ Woken \in SUBSET HookEvents BY DEF HookRunning, Woken
  <1>3. /\ IsFiniteSet(HookRunning) /\ Cardinality(HookRunning) \in Nat
        /\ IsFiniteSet(Woken) /\ Cardinality(Woken) \in Nat
    BY <1>2, HookEventsFinite
  <1>4. UNCHANGED <<hookOf, hookAsked, hookBook, slotTaken>> /\ hookActive' = hookActive - 1
    BY DEF HookEnds, HookRelease
  <1>5. Cardinality(HookRunning \ {e}) = Cardinality(HookRunning) - 1
    BY <1>1, <1>3, FS_RemoveElement
  <1>6. CASE hookQueue = <<>>
    <2>1. hookQueue' = hookQueue BY <1>6 DEF HookEnds, HookRelease
    <2>2. handling' = [d \in HookEvents |-> IF d = e THEN "over" ELSE handling[d]]
      BY <1>6 DEF HookEnds, HookRelease
    <2>3. handling' \in [HookEvents -> HookStages] BY <2>2 DEF HookDomains, HookStages
    <2>4. HookDomains' BY <1>4, <2>1, <2>3 DEF HookDomains, hookBook
    <2>5. HookRunning' = HookRunning \ {e} BY <2>2 DEF HookRunning
    <2>6. Woken' = Woken BY <1>1, <2>2 DEF Woken
    <2>7. QueuedOnce' BY <2>1 DEF QueuedOnce
    <2>8. HookSlotsKept'
      <3>1. hookActive' = Cardinality(HookRunning') BY <1>4, <1>5, <2>5 DEF HookSlotsKept
      <3>2. \A d \in HookEvents :
              handling'[d] = "queued" <=> \E i \in DOMAIN hookQueue' : hookQueue'[i] = d
        BY <1>1, <2>1, <2>2 DEF HookSlotsKept
      <3>3. ~slotTaken' => hookActive' + Cardinality(Woken') <= MaxHookRuns
        BY <1>3, <1>4, <2>6, HookAssumption DEF HookSlotsKept
      <3> QED BY <1>6, <2>1, <3>1, <3>2, <3>3 DEF HookSlotsKept
    <2>9. SessionsFollowed' BY <1>4, <2>2, <2>4, BooksUntouched DEF Seeking
    <2> QED BY <2>4, <2>7, <2>8, <2>9
  <1>7. CASE hookQueue # <<>>
    <2> DEFINE n == hookQueue[1]
    <2>1. hookQueue' = Tail(hookQueue) BY <1>7 DEF HookEnds, HookRelease
    <2>2. 1 \in DOMAIN hookQueue /\ n \in HookEvents BY <1>7 DEF HookDomains
    <2>3. handling[n] = "queued" /\ n # e BY <1>1, <2>2 DEF HookSlotsKept
    <2>4. handling' = [d \in HookEvents |-> CASE d = e -> "over" [] d = n -> "woken"
                                              [] OTHER -> handling[d]]
      BY <1>7, <2>2 DEF HookEnds, HookRelease
    <2>5. \A d \in HookEvents : handling'[d] = IF d = e THEN "over" ELSE IF d = n THEN "woken"
                                               ELSE handling[d]
      BY <2>3, <2>4
    <2>6. handling' \in [HookEvents -> HookStages] BY <2>4, <2>5 DEF HookDomains, HookStages
    <2>7. hookQueue' \in Seq(HookEvents) BY <1>7, <2>1 DEF HookDomains
    <2>8. HookDomains' BY <1>4, <2>6, <2>7 DEF HookDomains, hookBook
    <2>9. HookRunning' = HookRunning \ {e} BY <2>3, <2>5 DEF HookRunning
    <2>10. Woken' = Woken \cup {n} /\ n \notin Woken BY <1>1, <2>2, <2>3, <2>5 DEF Woken
    <2>10a. /\ Len(hookQueue) \in Nat /\ DOMAIN hookQueue = 1..Len(hookQueue)
           /\ DOMAIN hookQueue' = 1..(Len(hookQueue) - 1)
           /\ \A i \in 1..(Len(hookQueue) - 1) : hookQueue'[i] = hookQueue[i + 1]
      BY <1>7, <2>1, HeadTailProperties DEF HookDomains
    <2>11. \A i \in DOMAIN hookQueue' :
             /\ i + 1 \in DOMAIN hookQueue /\ hookQueue'[i] = hookQueue[i + 1]
             /\ i \in Nat /\ i # 0
      BY <2>10a
    <2>12. \A i \in DOMAIN hookQueue : i # 1 => i \in Nat /\ i - 1 \in DOMAIN hookQueue'
                                                /\ hookQueue'[i - 1] = hookQueue[i]
      BY <2>10a
    <2>13. QueuedOnce'
      <3> SUFFICES ASSUME NEW i \in DOMAIN hookQueue', NEW j \in DOMAIN hookQueue',
                          hookQueue'[i] = hookQueue'[j]
                   PROVE  i = j
        BY DEF QueuedOnce
      <3>1. i + 1 = j + 1 BY <2>11 DEF QueuedOnce
      <3> QED BY <2>11, <3>1
    <2>14. HookSlotsKept'
      <3>1. hookActive' = Cardinality(HookRunning') BY <1>4, <1>5, <2>9 DEF HookSlotsKept
      <3>2. ASSUME NEW d \in HookEvents
            PROVE  handling'[d] = "queued" <=> \E i \in DOMAIN hookQueue' : hookQueue'[i] = d
        <4>1. handling'[d] = "queued" => \E i \in DOMAIN hookQueue' : hookQueue'[i] = d
          <5> SUFFICES ASSUME handling'[d] = "queued"
                       PROVE  \E i \in DOMAIN hookQueue' : hookQueue'[i] = d
            OBVIOUS
          <5>1. d # n /\ handling[d] = "queued" BY <2>5
          <5>2. PICK i \in DOMAIN hookQueue : hookQueue[i] = d BY <5>1 DEF HookSlotsKept
          <5> QED BY <2>12, <5>1, <5>2
        <4>2. ASSUME NEW i \in DOMAIN hookQueue', hookQueue'[i] = d PROVE handling'[d] = "queued"
          <5>1. i + 1 \in DOMAIN hookQueue /\ hookQueue[i + 1] = d /\ i + 1 # 1 BY <2>11, <4>2
          <5>2. handling[d] = "queued" BY <5>1 DEF HookSlotsKept
          <5>3. d # n BY <2>2, <5>1 DEF QueuedOnce
          <5> QED BY <1>1, <2>5, <5>2, <5>3
        <4> QED BY <4>1, <4>2
      <3>3. Cardinality(Woken') = Cardinality(Woken) + 1 BY <1>3, <2>10, FS_AddElement
      <3>4. hookActive' + Cardinality(Woken') = hookActive + Cardinality(Woken)
        BY <1>3, <1>4, <3>3 DEF HookSlotsKept
      <3> QED BY <1>4, <1>7, <3>1, <3>2, <3>4 DEF HookSlotsKept
    <2>15. SessionsFollowed' BY <1>4, <2>5, <2>8, BooksUntouched DEF Seeking
    <2> QED BY <2>8, <2>13, <2>14, <2>15
  <1> QED BY <1>6, <1>7

\* An event that runs goes on to another stage: the slots are as they were.
LEMMA SlotsUntouched ==
  ASSUME HookInv, NEW e \in HookEvents, e \in HookRunning,
         NEW where \in {"asking", "making", "chatting"}, HookAt(e, where),
         UNCHANGED <<hookOf, hookActive, hookQueue, slotTaken>>
  PROVE  /\ QueuedOnce' /\ HookSlotsKept'
         /\ handling' \in [HookEvents -> HookStages]
         /\ \A d \in HookEvents : handling'[d] = IF d = e THEN where ELSE handling[d]
  <1>1. where \in HookStages /\ where # "woken"
        /\ where \in {"looking", "asking", "making", "chatting"} BY DEF HookStages
  <1>2. /\ handling' \in [HookEvents -> HookStages]
        /\ \A d \in HookEvents : handling'[d] = IF d = e THEN where ELSE handling[d]
        /\ HookRunning' = HookRunning \cup {e} /\ Woken' = Woken \ {e}
    BY <1>1, OneMoves
  <1>3. HookRunning' = HookRunning /\ Woken' = Woken /\ handling[e] # "queued"
    BY <1>2 DEF HookRunning, Woken
  <1>4. QueuedOnce' BY DEF HookInv, QueuedOnce
  <1>5. \A d \in HookEvents :
          handling'[d] = "queued" <=> \E i \in DOMAIN hookQueue' : hookQueue'[i] = d
    BY <1>2, <1>3 DEF HookInv, HookSlotsKept
  <1>6. HookSlotsKept' BY <1>3, <1>5 DEF HookInv, HookSlotsKept
  <1> QED BY <1>2, <1>4, <1>6

\* An event seeks its session.
LEMMA HookSeeksKeeps ==
  ASSUME HookInv, NEW e \in HookEvents,
         HookLooks(e) \/ HookFinds(e) \/ HookMisses(e) \/ HookMakes(e)
  PROVE  HookInv'
  <1> DEFINE h == hookOf[e]
  <1>1. h \in Hooks BY DEF HookInv, HookDomains
  <1>2. e \in HookRunning BY DEF HookRunning, HookLooks, HookFinds, HookMisses, HookMakes
  <1>3. UNCHANGED <<hookOf, hookActive, hookQueue, hookLosses, slotTaken>>
    BY DEF HookLooks, HookFinds, HookMisses, HookMakes, hookBook
  <1>4. PICK where \in {"asking", "making", "chatting"} : HookAt(e, where)
    BY DEF HookLooks, HookFinds, HookMisses, HookMakes
  <1>5. /\ QueuedOnce' /\ HookSlotsKept'
        /\ handling' \in [HookEvents -> HookStages]
        /\ \A d \in HookEvents : handling'[d] = IF d = e THEN where ELSE handling[d]
    BY ONLY HookInv, e \in HookEvents, <1>2, <1>3, <1>4, SlotsUntouched
  <1>6. handling'[e] = where BY <1>5
  <1> USE DEF HookInv
  <1>7. CASE HookLooks(e)
    <2>1. UNCHANGED <<hookSessions, hookMade, hookStored, hookLosses>> BY <1>7 DEF HookLooks
    <2>2. \/ /\ hookSessions[h] # 0 /\ where = "asking" /\ UNCHANGED hookRaced
             /\ hookAsked' = [hookAsked EXCEPT ![e] = hookSessions[h]]
          \/ /\ hookSessions[h] = 0 /\ where = "making" /\ HookRaces(e) /\ UNCHANGED hookAsked
      <3>1. handling'[e] \in {"asking", "making"}
            /\ (handling'[e] = "asking" <=> hookSessions[h] # 0)
        BY <1>7 DEF HookLooks, HookAt, HookDomains
      <3> QED BY <1>6, <1>7, <3>1 DEF HookLooks
    <2>3. hookRaced' \subseteq Hooks /\ hookRaced \subseteq hookRaced'
      BY <1>1, <2>2 DEF HookRaces, HookDomains
    <2>4. /\ hookAsked' \in [HookEvents -> Nat]
          /\ \A d \in HookEvents \ {e} : hookAsked'[d] = hookAsked[d]
      BY <1>1, <2>2 DEF HookDomains
    <2>5. HookDomains' BY <1>3, <1>5, <2>1, <2>3, <2>4 DEF HookDomains
    <2>6. SessionsFollowed'
      <3> SUFFICES ASSUME NEW g \in Hooks \ hookRaced' PROVE HookBooks(g)'
        BY DEF SessionsFollowed
      <3>1. HookBooks(g) BY <2>3 DEF SessionsFollowed
      <3>2. CASE g # h
        BY <1>3, <1>5, <2>1, <2>4, <3>1, <3>2 DEF HookBooks, Seeking
      <3>3. CASE g = h /\ where = "asking"
        <4>1. hookSessions[h] # 0 /\ hookAsked'[e] = hookSessions[h] BY <2>2, <3>3 DEF HookDomains
        <4>2. \A d \in HookEvents : hookOf[d] = g => handling[d] # "making"
          BY <3>1, <3>3, <4>1 DEF HookBooks
        <4> QED BY <1>3, <1>5, <2>1, <2>4, <3>1, <3>3, <4>1, <4>2 DEF HookBooks
      <3>4. CASE g = h /\ where = "making"
        <4>1. hookSessions[h] = 0 /\ HookRaces(e) /\ UNCHANGED hookAsked BY <2>2, <3>4
        <4>2. \A d \in HookEvents \ {e} : hookOf[d] = h => handling[d] \notin Seeking
          BY <3>4, <4>1 DEF HookRaces, Seeking
        <4> QED BY <1>3, <1>5, <2>1, <3>1, <3>4, <4>1, <4>2 DEF HookBooks, Seeking
      <3> QED BY <2>2, <3>2, <3>3, <3>4
    <2> QED BY <1>5, <2>5, <2>6
  <1>8. CASE HookFinds(e)
    <2>1. UNCHANGED <<hookAsked, hookBook>> /\ handling'[e] = "chatting"
      BY <1>8 DEF HookFinds, HookAt, HookDomains
    <2>2. HookDomains' BY <1>3, <1>5, <2>1 DEF HookDomains, hookBook
    <2>3. SessionsFollowed' BY <1>3, <1>5, <2>1, <2>2, BooksUntouched DEF Seeking
    <2> QED BY <1>5, <2>2, <2>3
  <1>9. CASE HookMisses(e)
    <2>1. /\ handling[e] = "asking" /\ hookAsked[e] \notin hookStored[h] /\ HookRaces(e)
          /\ hookSessions' = [hookSessions EXCEPT ![h] = 0]
          /\ UNCHANGED <<hookAsked, hookMade, hookStored>>
          /\ handling'[e] = "making"
      BY <1>9 DEF HookMisses, HookAt, HookDomains
    <2>2. hookRaced' \subseteq Hooks /\ hookRaced \subseteq hookRaced'
      BY <1>1, <2>1 DEF HookRaces, HookDomains
    <2>3. HookDomains' BY <1>3, <1>5, <2>1, <2>2 DEF HookDomains
    <2>4. SessionsFollowed'
      <3> SUFFICES ASSUME NEW g \in Hooks \ hookRaced' PROVE HookBooks(g)'
        BY DEF SessionsFollowed
      <3>1. HookBooks(g) BY <2>2 DEF SessionsFollowed
      <3>2. CASE g # h
        BY <1>3, <1>5, <2>1, <3>1, <3>2 DEF HookBooks, Seeking, HookDomains
      <3>3. CASE g = h
        <4>1. hookSessions'[h] = 0 BY <1>1, <2>1 DEF HookDomains
        <4>2. \A d \in HookEvents \ {e} : hookOf[d] = h => handling[d] \notin Seeking
          BY <2>1, <3>3 DEF HookRaces, Seeking
        <4>3. hookSessions[h] \notin hookStored[h]
          <5>1. hookSessions[h] \in {hookAsked[e], 0} BY <2>1, <3>1, <3>3 DEF HookBooks
          <5>2. 0 \notin hookStored[h] BY <1>1 DEF HookDomains
          <5> QED BY <2>1, <5>1, <5>2
        <4>4. hookMade'[h] <= hookLosses'[h] BY <1>3, <2>1, <3>1, <3>3, <4>3 DEF HookBooks
        <4>5. hookMade'[h] <= 1 + hookLosses'[h] BY <1>3, <2>1, <3>1, <3>3 DEF HookBooks
        <4>6. \A d \in HookEvents : hookOf'[d] = h /\ handling'[d] \in Seeking => d = e
          BY <1>3, <1>5, <4>2
        <4> QED BY <2>1, <3>3, <4>1, <4>4, <4>5, <4>6 DEF HookBooks, Seeking
      <3> QED BY <3>2, <3>3
    <2> QED BY <1>5, <2>3, <2>4
  <1>10. CASE HookMakes(e)
    <2>1. /\ handling[e] = "making" /\ handling'[e] = "chatting"
          /\ hookMade' = [hookMade EXCEPT ![h] = @ + 1]
          /\ hookStored' = [hookStored EXCEPT ![h] = @ \cup {hookMade[h] + 1}]
          /\ hookSessions' = [hookSessions EXCEPT ![h] = hookMade[h] + 1]
          /\ UNCHANGED <<hookAsked, hookRaced>>
      BY <1>10 DEF HookMakes, HookAt, HookDomains
    <2>2. hookMade[h] \in Nat BY <1>1 DEF HookDomains
    <2>3. /\ hookMade' \in [Hooks -> Nat] /\ hookSessions' \in [Hooks -> Nat]
          /\ hookStored' \in [Hooks -> SUBSET (Nat \ {0})]
      BY <1>1, <2>1, <2>2 DEF HookDomains
    <2>4. HookDomains' BY <1>3, <1>5, <2>1, <2>3 DEF HookDomains
    <2>5. SessionsFollowed'
      <3> SUFFICES ASSUME NEW g \in Hooks \ hookRaced PROVE HookBooks(g)'
        BY <2>1 DEF SessionsFollowed
      <3>1. HookBooks(g) BY DEF SessionsFollowed
      <3>2. CASE g # h
        BY <1>3, <1>5, <2>1, <3>1, <3>2 DEF HookBooks, Seeking, HookDomains
      <3>3. CASE g = h
        <4>1. /\ hookSessions[h] = 0
              /\ \A d \in HookEvents \ {e} : hookOf[d] = h => handling[d] \notin Seeking
          BY <2>1, <3>1, <3>3 DEF HookBooks
        <4>2. 0 \notin hookStored[h] BY <1>1 DEF HookDomains
        <4>3. hookMade[h] <= hookLosses[h] BY <3>1, <3>3, <4>1, <4>2 DEF HookBooks
        <4>4. hookMade'[h] = hookMade[h] + 1 /\ hookSessions'[h] \in hookStored'[h]
          BY <1>1, <2>1 DEF HookDomains
        <4>5. hookMade'[h] <= 1 + hookLosses'[h]
          BY <1>1, <1>3, <2>2, <4>3, <4>4 DEF HookDomains
        <4>6. \A d \in HookEvents : hookOf'[d] = h => handling'[d] \notin Seeking
          BY <1>3, <1>5, <2>1, <4>1 DEF Seeking
        <4> QED BY <3>3, <4>4, <4>5, <4>6 DEF HookBooks, Seeking
      <3> QED BY <3>2, <3>3
    <2> QED BY <1>5, <2>4, <2>5
  <1> QED BY <1>7, <1>8, <1>9, <1>10

\* A session is lost, or forgotten.
LEMMA HookLosesKeeps ==
  ASSUME HookInv, NEW h \in Hooks, NEW forgotten \in BOOLEAN, HookSessionLost(h, forgotten)
  PROVE  HookInv'
  <1> USE DEF HookInv
  <1>1. /\ UNCHANGED <<hookOf, hookAsked, handling, hookActive, hookQueue, hookMade, hookRaced,
                       slotTaken>>
        /\ hookLosses' = [hookLosses EXCEPT ![h] = @ + 1] /\ hookSessions[h] # 0
        /\ IF forgotten
           THEN hookSessions' = [hookSessions EXCEPT ![h] = 0] /\ UNCHANGED hookStored
           ELSE /\ hookStored' = [hookStored EXCEPT ![h] = @ \ {hookSessions[h]}]
                /\ UNCHANGED hookSessions
    BY DEF HookSessionLost
  <1>2. HookDomains'
    <2>1. hookLosses' \in [Hooks -> Nat] BY <1>1 DEF HookDomains
    <2>2. hookSessions' \in [Hooks -> Nat]
      <3>1. \/ hookSessions' = hookSessions
            \/ hookSessions' = [hookSessions EXCEPT ![h] = 0]
        BY <1>1
      <3>2. hookSessions \in [Hooks -> Nat] /\ 0 \in Nat BY DEF HookDomains
      <3> QED BY ONLY <3>1, <3>2
    <2>3. hookStored' \in [Hooks -> SUBSET (Nat \ {0})]
      <3>1. hookStored[h] \ {hookSessions[h]} \in SUBSET (Nat \ {0}) BY DEF HookDomains
      <3> QED BY <1>1, <3>1 DEF HookDomains
    <2> QED BY <1>1, <2>1, <2>2, <2>3 DEF HookDomains
  <1>3. QueuedOnce' /\ HookSlotsKept'
    BY <1>1 DEF QueuedOnce, HookSlotsKept, HookRunning, Woken
  <1>4. SessionsFollowed'
    <2> SUFFICES ASSUME NEW g \in Hooks \ hookRaced PROVE HookBooks(g)'
      BY <1>1 DEF SessionsFollowed
    <2>1. HookBooks(g) BY DEF SessionsFollowed
    <2>2. CASE g # h
      <3>1. /\ hookSessions'[g] = hookSessions[g] /\ hookStored'[g] = hookStored[g]
            /\ hookLosses'[g] = hookLosses[g]
        BY <1>1, <2>2 DEF HookDomains
      <3> QED BY <1>1, <2>1, <3>1 DEF HookBooks
    <2>3. CASE g = h
      <3>1. hookMade'[h] <= hookLosses'[h] /\ hookMade'[h] <= 1 + hookLosses'[h]
        BY <1>1, <2>1, <2>3 DEF HookBooks, HookDomains
      <3>2. hookSessions'[h] \in {hookSessions[h], 0} BY <1>1 DEF HookDomains
      <3> QED BY <1>1, <2>1, <2>3, <3>1, <3>2 DEF HookBooks
    <2> QED BY <2>2, <2>3
  <1> QED BY <1>2, <1>3, <1>4

\* Each step keeps the slots and the books.
LEMMA HookInvStep == HookInv /\ [HookNext]_hookVars => HookInv'
  <1> SUFFICES ASSUME HookInv, [HookNext]_hookVars PROVE HookInv' OBVIOUS
  <1>1. ASSUME NEW e \in HookEvents, HookStep(e) PROVE HookInv'
    BY <1>1, HookArrivesKeeps, HookGoesOnKeeps, HookEndsKeeps, HookSeeksKeeps DEF HookStep
  <1>2. ASSUME NEW h \in Hooks, NEW forgotten \in BOOLEAN, HookSessionLost(h, forgotten)
        PROVE  HookInv'
    BY <1>2, HookLosesKeeps
  <1>3. CASE UNCHANGED hookVars
    BY <1>3 DEF hookVars, HookInv, HookDomains, QueuedOnce, HookSlotsKept, HookRunning, Woken,
                SessionsFollowed, HookBooks
  <1> QED BY <1>1, <1>2, <1>3 DEF HookNext

\* No slot leaks, no waiting event is forgotten, the limit of runs holds but for the
\* microtask of a hand-over, and a hook gets a second session only when the first was
\* lost or two of its events sought theirs at once.
THEOREM HookLimitsAreKept == HookSpec => []HookLimitsKept
  <1>1. HookInv => HookLimitsKept
    BY DEF HookInv, HookLimitsKept, OneSessionPerHook, SessionsFollowed, HookBooks
  <1> QED BY <1>1, HookInitially, HookInvStep, PTL DEF HookSpec

\* The events of a hook that got to their chat, or ended.
CameTo(h) == {e \in HookEvents : hookOf[e] = h /\ handling[e] \in {"chatting", "over"}}

\* The sessions of a hook are numbered, and as many as its events that came to one at most.
HookCounted ==
  /\ \A h \in Hooks :
       /\ hookMade[h] <= Cardinality(CameTo(h)) /\ hookSessions[h] <= hookMade[h]
       /\ hookStored[h] \subseteq 1..hookMade[h] /\ hookLosses[h] <= MaxLosses
  /\ \A e \in HookEvents : hookAsked[e] <= hookMade[hookOf[e]]

\* Sets of events are no larger than the set of all.
LEMMA HookEventsFew ==
  ASSUME NEW S \in SUBSET HookEvents
  PROVE  IsFiniteSet(S) /\ Cardinality(S) \in Nat /\ Cardinality(S) <= NumHookEvents
  <1>1. IsFiniteSet(HookEvents) BY HookAssumption, FS_Interval DEF HookEvents
  <1>2. Cardinality(HookEvents) = NumHookEvents
    <2>1. CASE NumHookEvents = 0
      <3>1. HookEvents = {} BY <2>1 DEF HookEvents
      <3> QED BY <2>1, <3>1, FS_EmptySet
    <2>2. CASE NumHookEvents # 0
      <3>1. 1 \in Int /\ NumHookEvents \in Int /\ ~(1 > NumHookEvents) BY <2>2, HookAssumption
      <3> QED BY <3>1, FS_Interval DEF HookEvents
    <2> QED BY <2>1, <2>2
  <1> QED BY <1>1, <1>2, FS_Subset, FS_CardinalityType

\* Who came to a session has come to one.
LEMMA MoreCame ==
  ASSUME HookInv, [HookNext]_hookVars, NEW h \in Hooks
  PROVE  /\ CameTo(h) \subseteq CameTo(h)' /\ CameTo(h)' \in SUBSET HookEvents
         /\ hookOf' = hookOf
  <1>0. HookDomains /\ HookSlotsKept BY DEF HookInv
  <1>1. hookOf' = hookOf
    BY DEF HookNext, HookStep, HookArrives, HookGoesOn, HookLooks, HookFinds, HookMisses, HookMakes,
           HookEnds, HookSessionLost, hookVars
  <1>2. ASSUME NEW e \in HookEvents, handling[e] \in {"chatting", "over"}
        PROVE  handling'[e] \in {"chatting", "over"}
    <2>1. ASSUME NEW d \in HookEvents, NEW where, HookAt(d, where),
                 handling[d] \in {"chatting", "over"} => where \in {"chatting", "over"}
          PROVE  handling'[e] \in {"chatting", "over"}
      BY <1>0, <1>2, <2>1 DEF HookAt, HookDomains
    <2>2. ASSUME NEW d \in HookEvents, HookArrives(d) PROVE handling'[e] \in {"chatting", "over"}
      BY <2>1, <2>2 DEF HookArrives
    <2>3. ASSUME NEW d \in HookEvents,
                 HookGoesOn(d) \/ HookLooks(d) \/ HookFinds(d) \/ HookMisses(d) \/ HookMakes(d)
          PROVE  handling'[e] \in {"chatting", "over"}
      BY <2>1, <2>3 DEF HookGoesOn, HookLooks, HookFinds, HookMisses, HookMakes
    <2>4. ASSUME NEW d \in HookEvents, HookEnds(d) PROVE handling'[e] \in {"chatting", "over"}
      <3>1. handling' = [c \in HookEvents |-> CASE c = d -> "over"
                                [] hookQueue # <<>> /\ c = Head(hookQueue) -> "woken"
                                [] OTHER -> handling[c]]
        BY <2>4 DEF HookEnds, HookRelease
      <3>2. hookQueue # <<>> => e # Head(hookQueue)
        <4>1. hookQueue # <<>> => 1 \in DOMAIN hookQueue /\ Head(hookQueue) = hookQueue[1]
          BY <1>0 DEF HookDomains
        <4> QED BY <1>0, <1>2, <4>1 DEF HookSlotsKept
      <3> QED BY <1>2, <3>1, <3>2
    <2>5. CASE \E g \in Hooks, forgotten \in BOOLEAN : HookSessionLost(g, forgotten)
      BY <1>2, <2>5 DEF HookSessionLost
    <2>6. CASE UNCHANGED hookVars BY <1>2, <2>6 DEF hookVars
    <2> QED BY <2>2, <2>3, <2>4, <2>5, <2>6 DEF HookNext, HookStep
  <1> QED BY <1>1, <1>2 DEF CameTo

\* Every step keeps the count.
LEMMA HookCountStep == HookInv /\ HookInv' /\ HookCounted /\ [HookNext]_hookVars => HookCounted'
  <1> SUFFICES ASSUME HookInv, HookInv', HookCounted, [HookNext]_hookVars PROVE HookCounted'
    OBVIOUS
  <1>0. HookDomains /\ HookDomains' BY DEF HookInv
  <1>1. hookOf' = hookOf
    BY DEF HookNext, HookStep, HookArrives, HookGoesOn, HookLooks, HookFinds, HookMisses, HookMakes,
           HookEnds, HookSessionLost, hookVars
  <1>2. \A h \in Hooks : Cardinality(CameTo(h)) <= Cardinality(CameTo(h)')
    <2> TAKE h \in Hooks
    <2>1. CameTo(h) \subseteq CameTo(h)' /\ CameTo(h)' \in SUBSET HookEvents BY MoreCame
    <2> QED BY <2>1, HookEventsFew, FS_Subset
  <1>a. \A h \in Hooks : Cardinality(CameTo(h)) \in Nat /\ Cardinality(CameTo(h)') \in Nat
    BY HookEventsFew, MoreCame DEF CameTo
  <1>3. CASE UNCHANGED <<hookSessions, hookMade, hookStored, hookLosses, hookAsked>>
    BY <1>0, <1>1, <1>2, <1>3, <1>a DEF HookCounted, HookDomains
  <1>4. ASSUME NEW e \in HookEvents, HookLooks(e) PROVE HookCounted'
    <2>1. /\ UNCHANGED <<hookSessions, hookMade, hookStored, hookLosses>>
          /\ \/ hookAsked' = hookAsked
             \/ hookAsked' = [hookAsked EXCEPT ![e] = hookSessions[hookOf[e]]]
      BY <1>4 DEF HookLooks
    <2>2. hookOf[e] \in Hooks BY <1>0 DEF HookDomains
    <2>3. \A d \in HookEvents : hookAsked'[d] <= hookMade[hookOf[d]]
      BY <1>0, <2>1, <2>2 DEF HookCounted, HookDomains
    <2> QED BY <1>0, <1>1, <1>2, <1>a, <2>1, <2>3 DEF HookCounted, HookDomains
  <1>5. ASSUME NEW e \in HookEvents, HookMisses(e) PROVE HookCounted'
    <2>1. /\ UNCHANGED <<hookAsked, hookMade, hookStored, hookLosses>>
          /\ hookSessions' = [hookSessions EXCEPT ![hookOf[e]] = 0]
      BY <1>5 DEF HookMisses
    <2>2. \A h \in Hooks : hookSessions'[h] <= hookMade[h]
      BY <1>0, <2>1 DEF HookCounted, HookDomains
    <2> QED BY <1>0, <1>1, <1>2, <1>a, <2>1, <2>2 DEF HookCounted, HookDomains
  <1>6. ASSUME NEW h \in Hooks, NEW forgotten \in BOOLEAN, HookSessionLost(h, forgotten)
        PROVE  HookCounted'
    <2>1. /\ UNCHANGED <<hookAsked, hookMade>> /\ hookLosses[h] < MaxLosses
          /\ hookLosses' = [hookLosses EXCEPT ![h] = @ + 1]
          /\ hookSessions' = hookSessions \/ hookSessions' = [hookSessions EXCEPT ![h] = 0]
          /\ hookStored' = hookStored
             \/ hookStored' = [hookStored EXCEPT ![h] = @ \ {hookSessions[h]}]
      BY <1>6 DEF HookSessionLost
    <2>a. /\ hookSessions \in [Hooks -> Nat] /\ hookMade \in [Hooks -> Nat]
          /\ hookStored \in [Hooks -> SUBSET (Nat \ {0})]
          /\ \A g \in Hooks : hookSessions[g] <= hookMade[g]
      BY <1>0 DEF HookCounted, HookDomains
    <2>2. \A g \in Hooks : hookSessions'[g] <= hookMade[g]
      <3>1. CASE hookSessions' = hookSessions BY ONLY <2>a, <3>1
      <3>2. CASE hookSessions' = [hookSessions EXCEPT ![h] = 0]
        <4> TAKE g \in Hooks
        <4>1. hookSessions'[g] = 0 \/ hookSessions'[g] = hookSessions[g] BY ONLY <2>a, <3>2
        <4>2. hookMade[g] \in Nat /\ hookSessions[g] <= hookMade[g] BY <2>a
        <4> QED BY ONLY <4>1, <4>2
      <3> QED BY <2>1, <3>1, <3>2
    <2>3. \A g \in Hooks : hookStored'[g] \subseteq hookStored[g]
      <3>1. CASE hookStored' = hookStored BY ONLY <3>1
      <3>2. CASE hookStored' = [hookStored EXCEPT ![h] = @ \ {hookSessions[h]}]
        <4> TAKE g \in Hooks
        <4>1. g \in DOMAIN hookStored BY <2>a
        <4>2. hookStored'[g] \in {hookStored[g], hookStored[h] \ {hookSessions[h]}}
              /\ (g # h => hookStored'[g] = hookStored[g])
          BY ONLY <3>2, <4>1
        <4> QED BY <4>2
      <3> QED BY <2>1, <3>1, <3>2
    <2>4. \A g \in Hooks : hookLosses'[g] <= MaxLosses
      BY <1>0, <2>1, HookAssumption DEF HookCounted, HookDomains
    <2> QED BY <1>0, <1>1, <1>2, <1>a, <2>1, <2>2, <2>3, <2>4 DEF HookCounted, HookDomains
  <1>7. ASSUME NEW e \in HookEvents, HookMakes(e) PROVE HookCounted'
    <2>0. PICK h \in Hooks : h = hookOf[e] BY <1>0 DEF HookDomains
    <2>1. /\ handling[e] = "making" /\ HookAt(e, "chatting")
          /\ hookMade' = [hookMade EXCEPT ![h] = @ + 1]
          /\ hookStored' = [hookStored EXCEPT ![h] = @ \cup {hookMade[h] + 1}]
          /\ hookSessions' = [hookSessions EXCEPT ![h] = hookMade[h] + 1]
          /\ UNCHANGED <<hookAsked, hookLosses>>
      BY <1>7, <2>0 DEF HookMakes
    <2>2. /\ hookMade'[h] = hookMade[h] + 1 /\ hookSessions'[h] = hookMade[h] + 1
          /\ hookStored'[h] = hookStored[h] \cup {hookMade[h] + 1}
          /\ \A g \in Hooks \ {h} : /\ hookMade'[g] = hookMade[g]
                                    /\ hookSessions'[g] = hookSessions[g]
                                    /\ hookStored'[g] = hookStored[g]
      BY <1>0, <2>1 DEF HookDomains
    <2>3. hookMade'[h] <= Cardinality(CameTo(h)')
      <3> DEFINE O == CameTo(h)
                 N == CameTo(h)'
      <3>1. O \in SUBSET HookEvents /\ N \in SUBSET HookEvents /\ O \subseteq N
        BY MoreCame DEF CameTo
      <3>2. e \in N /\ e \notin O BY <1>0, <1>1, <2>0, <2>1 DEF CameTo, HookAt, HookDomains
      <3>3. hookMade[h] <= Cardinality(O) /\ hookMade[h] \in Nat
        BY <1>0 DEF HookCounted, HookDomains
      <3> HIDE DEF O, N
      <3>4. O \cup {e} \in SUBSET HookEvents /\ O \cup {e} \subseteq N BY <3>1, <3>2
      <3>5. IsFiniteSet(O) /\ Cardinality(O) \in Nat /\ IsFiniteSet(N) /\ Cardinality(N) \in Nat
        BY <3>1, HookEventsFew
      <3>6. Cardinality(O \cup {e}) = Cardinality(O) + 1 BY <3>2, <3>5, FS_AddElement
      <3>7. Cardinality(O \cup {e}) <= Cardinality(N) BY <3>4, <3>5, FS_Subset
      <3>8. hookMade'[h] <= Cardinality(N) BY <2>2, <3>3, <3>5, <3>6, <3>7
      <3> QED BY <3>8 DEF N
    <2>a. \A g \in Hooks : /\ hookMade[g] \in Nat /\ hookSessions[g] \in Nat
                           /\ hookMade[g] <= Cardinality(CameTo(g))
                           /\ hookSessions[g] <= hookMade[g]
      BY <1>0 DEF HookCounted, HookDomains
    <2>4. \A g \in Hooks : hookMade'[g] <= Cardinality(CameTo(g)')
      <3> TAKE g \in Hooks
      <3>1. CASE g = h BY <2>3, <3>1
      <3>2. CASE g # h
        <4>1. hookMade'[g] = hookMade[g] BY <2>2, <3>2
        <4>2. /\ Cardinality(CameTo(g)) <= Cardinality(CameTo(g)')
              /\ Cardinality(CameTo(g)) \in Nat /\ Cardinality(CameTo(g)') \in Nat
          BY <1>2, <1>a
        <4>3. hookMade[g] \in Nat /\ hookMade[g] <= Cardinality(CameTo(g)) BY <2>a
        <4> QED BY ONLY <4>1, <4>2, <4>3
      <3> QED BY <3>1, <3>2
    <2>5. \A g \in Hooks :
            hookMade[g] \in Nat /\ hookMade'[g] \in Nat /\ hookMade[g] <= hookMade'[g]
      <3> TAKE g \in Hooks
      <3>1. hookMade'[g] = hookMade[g] \/ hookMade'[g] = hookMade[g] + 1 BY <2>2
      <3>2. hookMade[g] \in Nat BY <2>a
      <3> QED BY ONLY <3>1, <3>2
    <2>6. \A g \in Hooks : hookSessions'[g] <= hookMade'[g]
      <3> TAKE g \in Hooks
      <3>1. \/ hookMade'[g] = hookMade[g] + 1 /\ hookSessions'[g] = hookMade[g] + 1
            \/ hookMade'[g] = hookMade[g] /\ hookSessions'[g] = hookSessions[g]
        BY <2>2
      <3>2. hookMade[g] \in Nat /\ hookSessions[g] <= hookMade[g] BY <2>a
      <3> QED BY ONLY <3>1, <3>2
    <2>7. \A g \in Hooks : hookStored'[g] \subseteq 1..hookMade'[g]
      <3> TAKE g \in Hooks
      <3>1. 1..hookMade[g] \subseteq 1..hookMade'[g] BY <2>5
      <3>2. hookStored[g] \subseteq 1..hookMade[g] BY DEF HookCounted
      <3>3. CASE g = h
        <4>1. hookMade[h] + 1 \in 1..hookMade'[h] BY <2>2, <2>5
        <4> QED BY <2>2, <3>1, <3>2, <3>3, <4>1
      <3>4. CASE g # h BY <2>2, <3>1, <3>2, <3>4
      <3> QED BY <3>3, <3>4
    <2>8. \A d \in HookEvents : hookAsked'[d] <= hookMade'[hookOf'[d]]
      <3> TAKE d \in HookEvents
      <3>1. hookOf[d] \in Hooks /\ hookAsked[d] \in Nat /\ hookAsked[d] <= hookMade[hookOf[d]]
        BY <1>0 DEF HookCounted, HookDomains
      <3> QED BY <1>1, <2>1, <2>5, <3>1
    <2> QED BY <2>1, <2>4, <2>6, <2>7, <2>8 DEF HookCounted
  <1>8. ASSUME NEW e \in HookEvents,
               HookArrives(e) \/ HookGoesOn(e) \/ HookFinds(e) \/ HookEnds(e)
        PROVE  HookCounted'
    BY <1>3, <1>8 DEF HookArrives, HookGoesOn, HookFinds, HookEnds, hookBook
  <1>9. CASE UNCHANGED hookVars BY <1>3, <1>9 DEF hookVars
  <1> QED BY <1>4, <1>5, <1>6, <1>7, <1>8, <1>9 DEF HookNext, HookStep

\* The hooks' variables keep to their domains (HookTypeOK).
LEMMA HooksAreTyped == HookSpec => []HookTypeOK
  <1>1. HookInit => HookCounted
    <2> SUFFICES ASSUME HookInit PROVE HookCounted OBVIOUS
    <2>1. \A h \in Hooks : Cardinality(CameTo(h)) \in Nat BY HookEventsFew DEF CameTo
    <2>2. hookOf \in [HookEvents -> Hooks] BY DEF HookInit
    <2> QED BY <2>1, <2>2, HookAssumption DEF HookInit, HookCounted
  <1>2. HookInv /\ HookCounted => HookTypeOK
    <2> SUFFICES ASSUME HookInv, HookCounted PROVE HookTypeOK OBVIOUS
    <2>0. HookDomains /\ HookSlotsKept BY DEF HookInv
    <2>1. HookRunning \in SUBSET HookEvents BY DEF HookRunning
    <2>2. hookActive \in 0..NumHookEvents
      BY <2>0, <2>1, HookEventsFew, HookAssumption DEF HookSlotsKept
    <2>3. \A h \in Hooks : hookMade[h] \in 0..NumHookEvents
      <3> TAKE h \in Hooks
      <3>1. Cardinality(CameTo(h)) \in Nat /\ Cardinality(CameTo(h)) <= NumHookEvents
        BY HookEventsFew DEF CameTo
      <3>2. hookMade[h] \in Nat /\ hookMade[h] <= Cardinality(CameTo(h))
        BY <2>0 DEF HookCounted, HookDomains
      <3> QED BY <3>1, <3>2, HookAssumption
    <2>4. \A h \in Hooks : /\ hookSessions[h] \in 0..NumHookEvents
                           /\ 1..hookMade[h] \subseteq HookEvents
      <3> TAKE h \in Hooks
      <3>1. hookMade[h] \in Nat /\ hookMade[h] <= NumHookEvents BY <2>3
      <3>2. hookSessions[h] \in Nat /\ hookSessions[h] <= hookMade[h]
        BY <2>0 DEF HookCounted, HookDomains
      <3> QED BY <3>1, <3>2, HookAssumption DEF HookEvents
    <2>5. \A h \in Hooks : hookStored[h] \in SUBSET HookEvents BY <2>4 DEF HookCounted
    <2>6. \A h \in Hooks : hookLosses[h] \in 0..MaxLosses
      BY <2>0, HookAssumption DEF HookCounted, HookDomains
    <2>7. \A e \in HookEvents : hookAsked[e] \in 0..NumHookEvents
      <3> TAKE e \in HookEvents
      <3>1. hookOf[e] \in Hooks /\ hookAsked[e] \in Nat /\ hookAsked[e] <= hookMade[hookOf[e]]
        BY <2>0 DEF HookCounted, HookDomains
      <3>2. hookMade[hookOf[e]] \in Nat /\ hookMade[hookOf[e]] <= NumHookEvents BY <2>3, <3>1
      <3> QED BY <3>1, <3>2, HookAssumption
    <2>8. hookSessions \in [Hooks -> 0..NumHookEvents] /\ hookMade \in [Hooks -> 0..NumHookEvents]
      BY <2>0, <2>3, <2>4 DEF HookDomains
    <2>9. hookStored \in [Hooks -> SUBSET HookEvents] /\ hookLosses \in [Hooks -> 0..MaxLosses]
      BY <2>0, <2>5, <2>6 DEF HookDomains
    <2>10. hookAsked \in [HookEvents -> 0..NumHookEvents] BY <2>0, <2>7 DEF HookDomains
    <2> QED BY <2>0, <2>2, <2>8, <2>9, <2>10 DEF HookDomains, HookTypeOK
  <1> QED BY <1>1, <1>2, HookCountStep, HookInitially, HookInvStep, PTL DEF HookSpec

(***************************************************************************)
(* The answer that a chat goes on with is of one model, and its calls are  *)
(* all there, for any number of pieces and attempts.                       *)
(***************************************************************************)
\* What the variables may be.
AnswerDomains ==
  /\ answering \in Models \cup {"done", "failed"} /\ pieces \in Nat
  /\ callsOf \in Models \cup {"none"} /\ textOf \subseteq Models
  /\ callsYielded \in BOOLEAN /\ producedText \in BOOLEAN /\ gotAny \in BOOLEAN
  /\ dropped \in BOOLEAN /\ brokeAfterCalls \in BOOLEAN

\* Until anything has come there is nothing that was kept, and text of the primary one
\* is remembered as such.
KeptIsSeen ==
  /\ answering \in Models /\ ~gotAny => textOf = {} /\ callsOf = "none"
  /\ "primary" \in textOf => producedText

\* While a model streams, what was kept is of that model, but for calls of the primary
\* one that it broke behind; and calls that were announced were kept.
OneAuthor ==
  /\ answering = "primary" => textOf \subseteq {"primary"} /\ callsOf # "spare"
  /\ answering = "primary" /\ callsOf = "primary" => callsYielded
  /\ answering = "spare" => textOf \subseteq {"spare"} /\ (callsOf = "primary" => brokeAfterCalls)
  /\ answering \in Models /\ callsYielded /\ pieces > 0 => callsOf # "none"

\* The same of a whole answer.
WholeAnswer ==
  answering = "done" =>
    /\ ~brokeAfterCalls => \E m \in Models : textOf \subseteq {m} /\ callsOf \in {m, "none"}
    /\ pieces > 0 /\ ~dropped => callsOf # "none"

AnswerInv == AnswerDomains /\ KeptIsSeen /\ OneAuthor /\ WholeAnswer

\* The primary model is asked.
LEMMA AnswerInitially == AnswerInit => AnswerInv
  <1> SUFFICES ASSUME AnswerInit PROVE AnswerInv OBVIOUS
  <1> USE DEF AnswerInit
  <1>1. AnswerDomains BY DEF AnswerDomains, Models
  <1>2. KeptIsSeen BY DEF KeptIsSeen
  <1>3. OneAuthor BY DEF OneAuthor, Models
  <1>4. WholeAnswer BY DEF WholeAnswer
  <1> QED BY <1>1, <1>2, <1>3, <1>4 DEF AnswerInv

\* Whatever a model streams, and however it ends, the kept parts are of one author.
LEMMA AnswerStep == AnswerInv /\ [AnswerNext]_answerVars => AnswerInv'
  <1> SUFFICES ASSUME AnswerInv, [AnswerNext]_answerVars PROVE AnswerInv' OBVIOUS
  <1> USE DEF AnswerInv
  <1>1. CASE TextComes
    <2> USE <1>1 DEF TextComes
    <2>1. AnswerDomains' BY DEF AnswerDomains, Models
    <2>2. KeptIsSeen' BY DEF AnswerDomains, KeptIsSeen, OneAuthor, Models
    <2>3. OneAuthor'
      BY DEF AnswerDomains, KeptIsSeen, OneAuthor, Models
    <2>4. WholeAnswer'
      BY DEF AnswerDomains, OneAuthor, WholeAnswer, Models
    <2> QED BY <2>1, <2>2, <2>3, <2>4 DEF AnswerInv
  <1>2. CASE PieceComes
    <2> USE <1>2 DEF PieceComes, kept
    <2>1. AnswerDomains' BY DEF AnswerDomains, Models
    <2>2. KeptIsSeen' BY DEF AnswerDomains, KeptIsSeen, OneAuthor, Models
    <2>3. OneAuthor'
      BY DEF AnswerDomains, KeptIsSeen, OneAuthor, Models
    <2>4. WholeAnswer'
      BY DEF AnswerDomains, OneAuthor, WholeAnswer, Models
    <2> QED BY <2>1, <2>2, <2>3, <2>4 DEF AnswerInv
  <1>3. CASE CallsFinish
    <2> USE <1>3 DEF CallsFinish, YieldsCalls
    <2>1. AnswerDomains' BY DEF AnswerDomains, Models
    <2>2. KeptIsSeen' BY DEF AnswerDomains, KeptIsSeen, OneAuthor, Models
    <2>3. OneAuthor'
      BY DEF AnswerDomains, KeptIsSeen, OneAuthor, Models
    <2>4. WholeAnswer'
      BY DEF AnswerDomains, OneAuthor, WholeAnswer, Models
    <2> QED BY <2>1, <2>2, <2>3, <2>4 DEF AnswerInv
  <1>4. CASE UsageComes
    <2> USE <1>4 DEF UsageComes, kept
    <2>1. AnswerDomains' BY DEF AnswerDomains, Models
    <2>2. KeptIsSeen' BY DEF AnswerDomains, KeptIsSeen, OneAuthor, Models
    <2>3. OneAuthor'
      BY DEF AnswerDomains, KeptIsSeen, OneAuthor, Models
    <2>4. WholeAnswer'
      BY DEF AnswerDomains, OneAuthor, WholeAnswer, Models
    <2> QED BY <2>1, <2>2, <2>3, <2>4 DEF AnswerInv
  <1>5. CASE AnswerDone
    <2> USE <1>5 DEF AnswerDone, YieldsCalls
    <2>1. AnswerDomains' BY DEF AnswerDomains, Models
    <2>2. KeptIsSeen' BY DEF AnswerDomains, KeptIsSeen, OneAuthor, Models
    <2>3. OneAuthor'
      BY DEF AnswerDomains, KeptIsSeen, OneAuthor, Models
    <2>4. WholeAnswer'
      BY DEF AnswerDomains, OneAuthor, WholeAnswer, Models
    <2> QED BY <2>1, <2>2, <2>3, <2>4 DEF AnswerInv
  <1>6. CASE AnswerCutShort
    <2> USE <1>6 DEF AnswerCutShort, kept
    <2>1. AnswerDomains' BY DEF AnswerDomains, Models
    <2>2. KeptIsSeen' BY DEF AnswerDomains, KeptIsSeen, OneAuthor, Models
    <2>3. OneAuthor'
      BY DEF AnswerDomains, KeptIsSeen, OneAuthor, Models
    <2>4. WholeAnswer'
      BY DEF AnswerDomains, OneAuthor, WholeAnswer, Models
    <2> QED BY <2>1, <2>2, <2>3, <2>4 DEF AnswerInv
  <1>7. CASE AnswerTimesOut
    <2> USE <1>7 DEF AnswerTimesOut, kept
    <2>1. AnswerDomains' BY DEF AnswerDomains, Models
    <2>2. KeptIsSeen' BY DEF AnswerDomains, KeptIsSeen, OneAuthor, Models
    <2>3. OneAuthor'
      BY DEF AnswerDomains, KeptIsSeen, OneAuthor, Models
    <2>4. WholeAnswer'
      BY DEF AnswerDomains, OneAuthor, WholeAnswer, Models
    <2> QED BY <2>1, <2>2, <2>3, <2>4 DEF AnswerInv
  <1>8. CASE ModelFails /\ MayTakeOver
    <2> USE <1>8 DEF ModelFails, MayTakeOver, Begins, kept
    <2>1. AnswerDomains'
      <3>1. brokeAfterCalls' \in BOOLEAN OBVIOUS
      <3>2. answering' = "spare" /\ pieces' = 0 /\ callsYielded' = FALSE
            /\ UNCHANGED <<producedText, gotAny, kept, dropped>>
        OBVIOUS
      <3> QED BY ONLY AnswerInv, <3>1, <3>2 DEF AnswerInv, AnswerDomains, Models, kept
    <2>2. KeptIsSeen' BY DEF AnswerDomains, KeptIsSeen, OneAuthor, Models
    <2>3. OneAuthor'
      BY DEF AnswerDomains, KeptIsSeen, OneAuthor, Models
    <2>4. WholeAnswer'
      BY DEF AnswerDomains, OneAuthor, WholeAnswer, Models
    <2> QED BY <2>1, <2>2, <2>3, <2>4 DEF AnswerInv
  <1>9. CASE ModelFails /\ ~MayTakeOver
    <2>1. CASE answering' = "failed"
      <3>1. UNCHANGED <<pieces, callsYielded, producedText, gotAny, kept, brokeAfterCalls, dropped>>
        BY <1>9, <2>1 DEF ModelFails, Begins
      <3> QED BY <2>1, <3>1 DEF kept, AnswerDomains, KeptIsSeen, OneAuthor, WholeAnswer, Models
    <2>2. CASE answering' # "failed"
      <3>1. answering \in Models /\ ~gotAny /\ UNCHANGED <<gotAny, kept, brokeAfterCalls, dropped>>
        BY <1>9, <2>2 DEF ModelFails
      <3>2. answering' = "primary" /\ pieces' = 0 /\ callsYielded' = FALSE /\ producedText' = FALSE
        BY <1>9, <2>2 DEF ModelFails, Begins
      <3>3. textOf' = {} /\ callsOf' = "none" BY <3>1 DEF KeptIsSeen, kept
      <3>4. AnswerDomains'
        <4>1. callsYielded' \in BOOLEAN /\ producedText' \in BOOLEAN BY <3>2
        <4>2. gotAny' \in BOOLEAN /\ dropped' \in BOOLEAN /\ brokeAfterCalls' \in BOOLEAN
          BY <3>1 DEF AnswerDomains
        <4>3. answering' \in Models \cup {"done", "failed"} /\ pieces' \in Nat
          BY <3>2 DEF Models
        <4>4. callsOf' \in Models \cup {"none"} /\ textOf' \subseteq Models BY <3>3
        <4> QED BY ONLY <4>1, <4>2, <4>3, <4>4 DEF AnswerDomains
      <3>5. KeptIsSeen' BY ONLY <3>3 DEF KeptIsSeen
      <3>6. OneAuthor' BY ONLY <3>2, <3>3 DEF OneAuthor
      <3>7. WholeAnswer' BY ONLY <3>2 DEF WholeAnswer
      <3> QED BY <3>4, <3>5, <3>6, <3>7
    <2> QED BY <2>1, <2>2
  <1>10. CASE UNCHANGED answerVars
    <2> USE <1>10 DEF answerVars
    <2>1. AnswerDomains' BY DEF AnswerDomains, Models
    <2>2. KeptIsSeen' BY DEF AnswerDomains, KeptIsSeen, OneAuthor, Models
    <2>3. OneAuthor'
      BY DEF AnswerDomains, KeptIsSeen, OneAuthor, Models
    <2>4. WholeAnswer'
      BY DEF AnswerDomains, OneAuthor, WholeAnswer, Models
    <2> QED BY <2>1, <2>2, <2>3, <2>4 DEF AnswerInv
  <1> QED BY <1>1, <1>2, <1>3, <1>4, <1>5, <1>6, <1>7, <1>8, <1>9, <1>10 DEF AnswerNext

\* The text and the calls that a chat goes on with are of one model, unless the primary
\* one broke behind its calls, and calls that were asked for are there to be run, unless
\* the stream was cut short.
THEOREM AnswersAreWhole == AnswerSpec => []AnswerIsWhole
  <1>1. AnswerInv => AnswerIsWhole
    <2> SUFFICES ASSUME AnswerInv PROVE AnswerIsWhole OBVIOUS
    <2>1. ASSUME answering = "done", ~brokeAfterCalls
          PROVE  Cardinality(textOf \cup ({callsOf} \ {"none"})) <= 1
      <3>1. PICK m \in Models : textOf \subseteq {m} /\ callsOf \in {m, "none"}
        BY <2>1 DEF AnswerInv, WholeAnswer
      <3>2. textOf \cup ({callsOf} \ {"none"}) \in SUBSET {m} BY <3>1
      <3>3. IsFiniteSet({m}) /\ Cardinality({m}) = 1 BY FS_Singleton
      <3> QED BY <3>2, <3>3, FS_Subset
    <2> QED BY <2>1 DEF AnswerInv, WholeAnswer, AnswerIsWhole, OneModelAnswers, CallsAreRun
  <1> QED BY <1>1, AnswerInitially, AnswerStep, PTL DEF AnswerSpec

\* The counters of an answer and its flags keep to their domains (AnswerTypeOK).
LEMMA AnswerIsTyped == AnswerSpec => []AnswerTypeOK
  <1> USE ModelAnswerAssumption
  <1>1. AnswerInit => AnswerTypeOK
    <2> SUFFICES ASSUME AnswerInit PROVE AnswerTypeOK OBVIOUS
    <2>1. {hasSpare, silent, callsYielded, producedText, gotAny, dropped, brokeAfterCalls}
            \subseteq BOOLEAN
      BY DEF AnswerInit
    <2>2. answering \in Models \cup {"done", "failed"} /\ textOf \subseteq Models
          /\ callsOf \in Models \cup {"none"}
      BY DEF AnswerInit, Models
    <2>3. tries \in 0..AnswerRetries /\ pieces \in 0..MaxPieces /\ callsPieces \in 0..MaxPieces
      BY DEF AnswerInit
    <2> QED BY <2>1, <2>2, <2>3 DEF AnswerTypeOK
  <1>2. AnswerTypeOK /\ [AnswerNext]_answerVars => AnswerTypeOK'
    <2> SUFFICES ASSUME AnswerTypeOK, [AnswerNext]_answerVars PROVE AnswerTypeOK' OBVIOUS
    <2>1. CASE TextComes \/ UsageComes \/ AnswerTimesOut \/ AnswerCutShort \/ UNCHANGED answerVars
      BY <2>1 DEF TextComes, UsageComes, AnswerTimesOut, AnswerCutShort, answerVars, kept,
                  AnswerTypeOK, Models
    <2>2. CASE PieceComes BY <2>2 DEF PieceComes, kept, AnswerTypeOK
    <2>3. CASE CallsFinish \/ AnswerDone
      BY <2>3 DEF CallsFinish, AnswerDone, YieldsCalls, AnswerTypeOK
    <2>4. CASE ModelFails
      <3>1. /\ UNCHANGED <<hasSpare, dropped, gotAny, textOf, callsOf, callsPieces>>
            /\ answering' \in {"primary", "spare", "failed"}
        BY <2>4 DEF ModelFails, MayTakeOver, Begins, kept
      <3>2. /\ pieces' \in {0, pieces}
            /\ tries' = tries \/ (tries < AnswerRetries /\ tries' = tries + 1)
        BY <2>4 DEF ModelFails, MayTakeOver, Begins, kept
      <3>3. /\ silent' \in {FALSE, silent} /\ producedText' \in {FALSE, producedText}
            /\ callsYielded' \in {FALSE, callsYielded}
        BY <2>4 DEF ModelFails, MayTakeOver, Begins, kept
      <3>4. brokeAfterCalls' \in BOOLEAN
        <4>1. \/ brokeAfterCalls' = (brokeAfterCalls \/ callsYielded)
              \/ brokeAfterCalls' = brokeAfterCalls
          BY <2>4 DEF ModelFails
        <4> QED BY <4>1 DEF AnswerTypeOK
      <3>5. pieces' \in 0..MaxPieces /\ tries' \in 0..AnswerRetries
        <4>1. pieces \in 0..MaxPieces /\ tries \in 0..AnswerRetries BY DEF AnswerTypeOK
        <4> QED BY <3>2, <4>1
      <3>6. {silent', producedText', callsYielded'} \subseteq BOOLEAN
        BY <3>3, Zenon DEF AnswerTypeOK
      <3> QED BY <3>1, <3>4, <3>5, <3>6 DEF AnswerTypeOK, Models
    <2> QED BY <2>1, <2>2, <2>3, <2>4 DEF AnswerNext
  <1> QED BY <1>1, <1>2, PTL DEF AnswerSpec

(***************************************************************************)
(* A mail's commit holds its work, all of it and no other, for any number  *)
(* of mails and files and any failures of git, but for the cases named.    *)
(***************************************************************************)
AtWork == {"working", "listed", "added"}
Outcomes == {"unseen", "blind", "committed", "skipped", "failed"}

\* What the variables may be.
RepoDomains ==
  /\ errand \in [Errands -> {"new", "working", "unseen", "blind", "listed", "added", "committed",
                             "skipped", "failed"}]
  /\ startList \in [Errands -> SUBSET Paths] /\ since \in [Errands -> SUBSET Paths]
  /\ selected \in [Errands -> SUBSET Paths]
  /\ owes \in [Errands -> SUBSET Paths] /\ unindexed \in [Errands -> SUBSET Paths]
  /\ modified \subseteq Paths /\ inIndex \subseteq Paths

\* One delivery is under way.
OneDelivery == \A m \in Errands : errand[m] \in {"listed", "added"} => gitLock = m

\* What has become dirty since a mail started was written since then, and only such files
\* are delivered.
NewIsWritten ==
  \A m \in Errands :
    /\ errand[m] \in AtWork => Status \ startList[m] \subseteq since[m]
    /\ errand[m] \in {"listed", "added"} => selected[m] \subseteq since[m]

\* A file in the index was put there by the delivery under way, for it was written since
\* its mail started, or was left there by somebody else.
IndexIsKnown ==
  \A f \in inIndex \ leftIn : \E m \in Errands : errand[m] = "added" /\ f \in since[m]

\* Where the work of a mail is that no commit has.
WorkIsTracked ==
  \A m \in Errands :
    /\ unindexed[m] \subseteq modified /\ owes[m] \subseteq Status
    /\ errand[m] \in {"new", "committed", "skipped"} => owes[m] = {}
    /\ errand[m] = "working" => owes[m] \subseteq since[m]
    /\ errand[m] \in {"listed", "added"} => owes[m] \subseteq selected[m]
    /\ errand[m] = "added" => unindexed[m] \cap selected[m] = {}

RepoParts == OneDelivery /\ NewIsWritten /\ IndexIsKnown /\ WorkIsTracked /\ OnlyNewWork
RepoInv == RepoDomains /\ RepoParts

\* No mail has started.
LEMMA RepoInitially == RepoInit => RepoInv
  <1> SUFFICES ASSUME RepoInit PROVE RepoInv OBVIOUS
  <1> USE DEF RepoInit
  <1>1. RepoDomains BY DEF RepoDomains
  <1>2. OneDelivery /\ NewIsWritten BY DEF OneDelivery, NewIsWritten, AtWork
  <1>3. IndexIsKnown /\ WorkIsTracked /\ OnlyNewWork BY DEF IndexIsKnown, WorkIsTracked, OnlyNewWork
  <1> QED BY <1>1, <1>2, <1>3 DEF RepoInv, RepoParts

\* Each step keeps the domains.
LEMMA RepoDomainsStep == RepoInv /\ [RepoNext]_repoVars => RepoDomains'
  <1> SUFFICES ASSUME RepoInv, [RepoNext]_repoVars PROVE RepoDomains' OBVIOUS
  <1> USE DEF RepoInv, RepoDomains
  <1>1. ASSUME NEW m \in Errands, NEW outcome \in Outcomes,
               ErrandEnds(m, outcome)
        PROVE  /\ errand' \in [Errands -> {"new", "working", "unseen", "blind", "listed", "added",
                                           "committed", "skipped", "failed"}]
               /\ startList' \in [Errands -> SUBSET Paths] /\ since' \in [Errands -> SUBSET Paths]
               /\ selected' \in [Errands -> SUBSET Paths]
    BY <1>1 DEF ErrandEnds, Outcomes
  <1>2. ASSUME NEW files \in SUBSET Paths, Adds(files)
        PROVE  /\ modified' \subseteq Paths /\ inIndex' \subseteq Paths
               /\ owes' \in [Errands -> SUBSET Paths] /\ unindexed' \in [Errands -> SUBSET Paths]
    BY <1>2 DEF Adds
  <1>3. ASSUME Commits
        PROVE  /\ modified' \subseteq Paths /\ inIndex' \subseteq Paths
               /\ owes' \in [Errands -> SUBSET Paths] /\ unindexed' \in [Errands -> SUBSET Paths]
    BY <1>3 DEF Commits
  <1>4. Status \subseteq Paths BY DEF Status
  <1>5. ASSUME NEW m \in Errands, ErrandStarts(m) PROVE RepoDomains'
    <2>1. UNCHANGED <<modified, inIndex, owes, unindexed>> BY <1>5 DEF ErrandStarts, treeVars
    <2>2. CASE ErrandEnds(m, "unseen") BY <1>1, <2>1, <2>2 DEF Outcomes
    <2>3. CASE /\ errand' = [errand EXCEPT ![m] = "working"]
               /\ startList' = [startList EXCEPT ![m] = Status] /\ UNCHANGED <<since, selected>>
      BY <1>4, <2>1, <2>3
    <2> QED BY <1>5, <2>2, <2>3 DEF ErrandStarts
  <1>6. ASSUME NEW m \in Errands, DeliveryLists(m) PROVE RepoDomains'
    <2>1. UNCHANGED <<modified, inIndex, owes, unindexed>> BY <1>6 DEF DeliveryLists, treeVars
    <2>2. CASE ErrandEnds(m, "blind") \/ ErrandEnds(m, "skipped") BY <1>1, <2>1, <2>2 DEF Outcomes
    <2>3. CASE /\ errand' = [errand EXCEPT ![m] = "listed"]
               /\ selected' = [selected EXCEPT ![m] = Candidates(m)]
               /\ UNCHANGED <<startList, since>>
      <3>1. Candidates(m) \subseteq Paths BY <1>4 DEF Candidates
      <3> QED BY <2>1, <2>3, <3>1
    <2> QED BY <1>6, <2>2, <2>3 DEF DeliveryLists
  <1>7. ASSUME NEW m \in Errands, DeliveryAdds(m) PROVE RepoDomains'
    <2>1. CASE ErrandEnds(m, "failed") /\ UNCHANGED treeVars BY <1>1, <2>1 DEF Outcomes, treeVars
    <2>2. CASE Adds(selected[m]) /\ ErrandEnds(m, "skipped") BY <1>1, <1>2, <2>2 DEF Outcomes
    <2>3. CASE Adds(selected[m]) /\ Becomes(m, "added") BY <1>2, <2>3 DEF Becomes
    <2> QED BY <1>7, <2>1, <2>2, <2>3 DEF DeliveryAdds
  <1>8. ASSUME NEW m \in Errands, DeliveryCommits(m) PROVE RepoDomains'
    <2>1. CASE Commits /\ ErrandEnds(m, "committed") BY <1>1, <1>3, <2>1 DEF Outcomes
    <2>2. CASE ErrandEnds(m, "failed") /\ UNCHANGED <<modified, inIndex, owes, unindexed>>
      BY <1>1, <2>2 DEF Outcomes
    <2> QED BY <1>8, <2>1, <2>2 DEF DeliveryCommits
  <1>9. ASSUME NEW m \in Errands \cup {Free}, NEW f \in Paths, FileIsWritten(m, f)
        PROVE  RepoDomains'
    BY <1>9 DEF FileIsWritten
  <1>10. CASE SelfAdds BY <1>2, <1>10 DEF SelfAdds
  <1>11. CASE SelfCommits BY <1>3, <1>11 DEF SelfCommits, treeVars
  <1>12. CASE SelfRollsBack
    <2>1. PICK untracked \in SUBSET (modified \ inIndex) :
            /\ modified' = untracked /\ inIndex' = {}
            /\ owes' = [n \in Errands |-> owes[n] \cap untracked]
            /\ unindexed' = [n \in Errands |-> unindexed[n] \cap untracked]
      BY <1>12 DEF SelfRollsBack
    <2> QED BY <1>12, <2>1 DEF SelfRollsBack
  <1>13. CASE UNCHANGED repoVars BY <1>13 DEF repoVars
  <1> QED BY <1>5, <1>6, <1>7, <1>8, <1>9, <1>10, <1>11, <1>12, <1>13 DEF RepoNext

\* A mail that is over, however, takes nothing with it.
LEMMA ErrandEndsParts ==
  ASSUME RepoInv, NEW m \in Errands, NEW outcome \in Outcomes, ErrandEnds(m, outcome)
  PROVE  /\ errand'[m] = outcome
         /\ \A n \in Errands \ {m} : /\ errand'[n] = errand[n] /\ startList'[n] = startList[n]
                                     /\ since'[n] = since[n] /\ selected'[n] = selected[n]
  BY DEF ErrandEnds, RepoInv, RepoDomains, Outcomes

\* The start of a mail, and the list of its delivery.
LEMMA RepoBeginsKeeps ==
  ASSUME RepoInv, NEW m \in Errands, ErrandStarts(m) \/ DeliveryLists(m) PROVE RepoParts'
  <1> USE DEF RepoInv, RepoParts
  <1>1. /\ UNCHANGED <<modified, inIndex, owes, unindexed, leftIn, strays>> /\ Status' = Status
        /\ errand[m] \in {"new", "working"}
    BY DEF ErrandStarts, DeliveryLists, treeVars, Status
  <1>2. \A n \in Errands \ {m} : /\ errand'[n] = errand[n] /\ startList'[n] = startList[n]
                                 /\ since'[n] = since[n] /\ selected'[n] = selected[n]
    BY ErrandEndsParts DEF Outcomes, ErrandStarts, DeliveryLists, RepoDomains
  <1>3. \/ errand'[m] \in {"unseen", "blind"} /\ gitLock' = gitLock
        \/ /\ errand'[m] = "skipped" /\ errand[m] = "working" /\ Candidates(m) = {}
           /\ gitLock' = gitLock
        \/ /\ errand'[m] = "working" /\ errand[m] = "new" /\ startList'[m] = Status
           /\ gitLock' = gitLock
        \/ /\ errand'[m] = "listed" /\ errand[m] = "working" /\ gitLock = Free /\ gitLock' = m
           /\ selected'[m] = Candidates(m) /\ startList'[m] = startList[m] /\ since'[m] = since[m]
    BY ErrandEndsParts DEF Outcomes, ErrandStarts, DeliveryLists, RepoDomains
  <1>4. errand[m] = "working" => /\ owes[m] \subseteq Candidates(m)
                                 /\ Candidates(m) \subseteq since[m]
    BY DEF WorkIsTracked, NewIsWritten, Candidates, AtWork
  <1>5. OneDelivery'
    <2>1. gitLock = Free => \A n \in Errands : errand[n] \notin {"listed", "added"}
      BY RepositoryAssumption DEF OneDelivery
    <2> QED BY <1>2, <1>3, <2>1 DEF OneDelivery
  <1>6. NewIsWritten'
    <2>1. \A n \in Errands \ {m} :
            /\ errand'[n] \in AtWork => Status' \ startList'[n] \subseteq since'[n]
            /\ errand'[n] \in {"listed", "added"} => selected'[n] \subseteq since'[n]
      BY <1>1, <1>2 DEF NewIsWritten
    <2>2. /\ errand'[m] \in AtWork => Status' \ startList'[m] \subseteq since'[m]
          /\ errand'[m] \in {"listed", "added"} => selected'[m] \subseteq since'[m]
      BY <1>1, <1>3, <1>4 DEF NewIsWritten, AtWork
    <2> QED BY <2>1, <2>2 DEF NewIsWritten
  <1>7. IndexIsKnown' BY <1>1, <1>2 DEF IndexIsKnown
  <1>8. WorkIsTracked'
    <2>1. \A n \in Errands \ {m} :
            /\ unindexed'[n] \subseteq modified' /\ owes'[n] \subseteq Status'
            /\ errand'[n] \in {"new", "committed", "skipped"} => owes'[n] = {}
            /\ errand'[n] = "working" => owes'[n] \subseteq since'[n]
            /\ errand'[n] \in {"listed", "added"} => owes'[n] \subseteq selected'[n]
            /\ errand'[n] = "added" => unindexed'[n] \cap selected'[n] = {}
      BY <1>1, <1>2 DEF WorkIsTracked
    <2>2. unindexed'[m] \subseteq modified' /\ owes'[m] \subseteq Status'
      BY <1>1 DEF WorkIsTracked
    <2>3. errand'[m] \in {"new", "committed", "skipped"} => owes'[m] = {} BY <1>1, <1>3, <1>4
    <2>4. errand'[m] = "working" => owes'[m] \subseteq since'[m] BY <1>1, <1>3 DEF WorkIsTracked
    <2>5. /\ errand'[m] \in {"listed", "added"} => owes'[m] \subseteq selected'[m]
          /\ errand'[m] # "added"
      BY <1>1, <1>3, <1>4
    <2> QED BY <2>1, <2>2, <2>3, <2>4, <2>5 DEF WorkIsTracked
  <1> QED BY <1>1, <1>5, <1>6, <1>7, <1>8 DEF OnlyNewWork

\* git add of a delivery, or its end.
LEMMA DeliveryAddsKeeps ==
  ASSUME RepoInv, NEW m \in Errands, DeliveryAdds(m) PROVE RepoParts'
  <1> USE DEF RepoInv, RepoParts
  <1>1. errand[m] = "listed" /\ gitLock = m /\ UNCHANGED <<leftIn, strays, owes>>
    BY DEF DeliveryAdds, OneDelivery, Adds, treeVars
  <1>2. \A n \in Errands \ {m} : /\ errand'[n] = errand[n] /\ startList'[n] = startList[n]
                                 /\ since'[n] = since[n] /\ selected'[n] = selected[n]
                                 /\ errand[n] \notin {"listed", "added"}
    <2>1. \A n \in Errands \ {m} : errand[n] \notin {"listed", "added"} BY <1>1 DEF OneDelivery
    <2> QED BY <2>1, ErrandEndsParts DEF Outcomes, DeliveryAdds, Becomes, RepoDomains
  <1>3. inIndex \subseteq leftIn BY <1>1, <1>2 DEF IndexIsKnown
  <1>4. CASE ErrandEnds(m, "failed") /\ UNCHANGED treeVars
    <2>1. errand'[m] = "failed" /\ Status' = Status
      BY <1>4, ErrandEndsParts DEF Outcomes, treeVars, Status
    <2>2. UNCHANGED <<modified, inIndex, owes, unindexed>> BY <1>4 DEF treeVars
    <2>3. OneDelivery' BY <1>2, <2>1 DEF OneDelivery
    <2>4. NewIsWritten' BY <1>2, <2>1 DEF NewIsWritten, AtWork
    <2>5. IndexIsKnown' BY <1>1, <1>3, <2>2 DEF IndexIsKnown
    <2>6. WorkIsTracked' BY <1>2, <2>1, <2>2 DEF WorkIsTracked
    <2> QED BY <1>1, <2>3, <2>4, <2>5, <2>6 DEF OnlyNewWork
  <1>5. CASE Adds(selected[m])
    <2>1. /\ inIndex' = inIndex \cup (modified \cap selected[m])
          /\ modified' = modified \ selected[m] /\ Status' = Status
          /\ \A n \in Errands : unindexed'[n] = unindexed[n] \ selected[m]
      BY <1>5 DEF Adds, Status, RepoDomains
    <2>2. \/ errand'[m] \in {"failed"}
          \/ errand'[m] = "skipped" /\ inIndex' = {}
          \/ /\ errand'[m] = "added" /\ gitLock' = m
             /\ startList'[m] = startList[m] /\ since'[m] = since[m] /\ selected'[m] = selected[m]
      BY <1>1, ErrandEndsParts DEF Outcomes, DeliveryAdds, Becomes, RepoDomains
    <2>3. OneDelivery' BY <1>2, <2>2 DEF OneDelivery
    <2>4. NewIsWritten' BY <1>1, <1>2, <2>1, <2>2 DEF NewIsWritten, AtWork
    <2>5. IndexIsKnown'
      <3>1. CASE errand'[m] = "added"
        <4>1. selected[m] \subseteq since'[m] BY <1>1, <2>2, <3>1 DEF NewIsWritten
        <4> QED BY <1>1, <1>3, <2>1, <3>1, <4>1 DEF IndexIsKnown
      <3>2. CASE errand'[m] = "skipped" BY <2>2, <3>2 DEF IndexIsKnown
      <3>3. CASE errand'[m] = "failed"
        <4>1. UNCHANGED <<inIndex, leftIn>>
          BY <3>3, ErrandEndsParts DEF Outcomes, DeliveryAdds, Becomes, RepoDomains, treeVars
        <4> QED BY <1>3, <4>1 DEF IndexIsKnown
      <3> QED BY <2>2, <3>1, <3>2, <3>3
    <2>6. WorkIsTracked'
      <3>1. \A n \in Errands : unindexed'[n] \subseteq modified' /\ owes'[n] \subseteq Status'
        BY <1>1, <2>1 DEF WorkIsTracked
      <3>2. \A n \in Errands \ {m} :
              /\ errand'[n] \in {"new", "committed", "skipped"} => owes'[n] = {}
              /\ errand'[n] = "working" => owes'[n] \subseteq since'[n]
              /\ errand'[n] \notin {"listed", "added"}
        BY <1>1, <1>2 DEF WorkIsTracked
      <3>3. errand'[m] = "skipped" => owes'[m] = {}
        <4>1. owes[m] \subseteq selected[m] /\ owes[m] \subseteq modified \cup inIndex
          BY <1>1 DEF WorkIsTracked, Status
        <4> QED BY <1>1, <2>1, <2>2, <4>1
      <3>4. errand'[m] = "added" => /\ owes'[m] \subseteq selected'[m]
                                    /\ unindexed'[m] \cap selected'[m] = {}
        BY <1>1, <2>1, <2>2 DEF WorkIsTracked
      <3> QED BY <2>2, <3>1, <3>2, <3>3, <3>4 DEF WorkIsTracked
    <2> QED BY <1>1, <2>3, <2>4, <2>5, <2>6 DEF OnlyNewWork
  <1> QED BY <1>4, <1>5 DEF DeliveryAdds

\* git commit of a delivery, or its failure.
LEMMA DeliveryCommitsKeeps ==
  ASSUME RepoInv, NEW m \in Errands, DeliveryCommits(m) PROVE RepoParts'
  <1> USE DEF RepoInv, RepoParts
  <1>1. errand[m] = "added" /\ gitLock = m BY DEF DeliveryCommits, OneDelivery
  <1>2. PICK outcome \in {"committed", "failed"} : ErrandEnds(m, outcome) BY DEF DeliveryCommits
  <1>3. errand'[m] = outcome BY <1>2, ErrandEndsParts DEF Outcomes
  <1>4. \A n \in Errands \ {m} : /\ errand'[n] = errand[n] /\ startList'[n] = startList[n]
                                 /\ since'[n] = since[n] /\ selected'[n] = selected[n]
                                 /\ errand[n] \notin {"listed", "added"}
    <2>1. \A n \in Errands \ {m} : errand[n] \notin {"listed", "added"} BY <1>1 DEF OneDelivery
    <2> QED BY <1>2, <2>1, ErrandEndsParts DEF Outcomes
  <1>5. CASE outcome = "committed"
    <2>1. Commits /\ strays' = strays \cup (inIndex \ (since[m] \cup leftIn))
      BY <1>3, <1>5, ErrandEndsParts DEF Outcomes, DeliveryCommits
    <2>2. /\ inIndex' = {} /\ modified' = modified /\ unindexed' = unindexed
          /\ \A n \in Errands : owes'[n] = owes[n] \cap unindexed[n]
      BY <2>1 DEF Commits
    <2>3. OneDelivery' BY <1>3, <1>4, <1>5 DEF OneDelivery
    <2>4. NewIsWritten' BY <1>3, <1>4, <1>5, <2>2 DEF NewIsWritten, AtWork, Status
    <2>5. IndexIsKnown' BY <2>2 DEF IndexIsKnown
    <2>6. WorkIsTracked'
      <3>1. \A n \in Errands : unindexed'[n] \subseteq modified' /\ owes'[n] \subseteq Status'
        BY <2>2 DEF WorkIsTracked, Status
      <3>2. \A n \in Errands \ {m} :
              /\ errand'[n] \in {"new", "committed", "skipped"} => owes'[n] = {}
              /\ errand'[n] = "working" => owes'[n] \subseteq since'[n]
              /\ errand'[n] \notin {"listed", "added"}
        BY <1>4, <2>2 DEF WorkIsTracked
      <3>3. owes'[m] = {} BY <1>1, <2>2 DEF WorkIsTracked
      <3> QED BY <1>3, <1>5, <3>1, <3>2, <3>3 DEF WorkIsTracked
    <2>7. strays' = {}
      <3>1. inIndex \subseteq since[m] \cup leftIn BY <1>1, <1>4 DEF IndexIsKnown
      <3> QED BY <2>1, <3>1 DEF OnlyNewWork
    <2> QED BY <2>3, <2>4, <2>5, <2>6, <2>7 DEF OnlyNewWork
  <1>6. CASE outcome = "failed"
    <2>1. leftIn' = leftIn \cup inIndex /\ UNCHANGED <<modified, inIndex, owes, unindexed, strays>>
      BY <1>3, <1>6, ErrandEndsParts DEF Outcomes, DeliveryCommits
    <2>2. OneDelivery' BY <1>3, <1>4, <1>6 DEF OneDelivery
    <2>3. NewIsWritten' BY <1>3, <1>4, <1>6, <2>1 DEF NewIsWritten, AtWork, Status
    <2>4. IndexIsKnown' BY <2>1 DEF IndexIsKnown
    <2>5. WorkIsTracked' BY <1>3, <1>4, <1>6, <2>1 DEF WorkIsTracked, Status
    <2> QED BY <2>1, <2>2, <2>3, <2>4, <2>5 DEF OnlyNewWork
  <1> QED BY <1>5, <1>6

\* A file is written.
LEMMA FileIsWrittenKeeps ==
  ASSUME RepoInv, NEW m \in Errands \cup {Free}, NEW f \in Paths, FileIsWritten(m, f)
  PROVE  RepoParts'
  <1> USE DEF RepoInv, RepoParts
  <1>1. /\ UNCHANGED <<errand, inIndex, startList, selected, gitLock, leftIn, strays>>
        /\ modified' = modified \cup {f} /\ Status' = Status \cup {f}
    BY DEF FileIsWritten, Status
  <1>2. \A n \in Errands :
          /\ since'[n] = IF errand[n] \in AtWork THEN since[n] \cup {f} ELSE since[n]
          /\ owes'[n] = IF n = m THEN owes[n] \cup {f} ELSE owes[n]
          /\ unindexed'[n] = IF n = m THEN unindexed[n] \cup {f} ELSE unindexed[n]
          /\ n = m => errand[n] = "working"
    BY RepositoryAssumption DEF FileIsWritten, AtWork
  <1>3. OneDelivery' BY <1>1 DEF OneDelivery
  <1>4. NewIsWritten' BY <1>1, <1>2 DEF NewIsWritten, AtWork
  <1>5. IndexIsKnown' BY <1>1, <1>2 DEF IndexIsKnown
  <1>6. WorkIsTracked' BY <1>1, <1>2 DEF WorkIsTracked, AtWork
  <1> QED BY <1>1, <1>3, <1>4, <1>5, <1>6 DEF OnlyNewWork

\* self.commit and self.rollback.
LEMMA SelfKeeps ==
  ASSUME RepoInv, SelfAdds \/ SelfCommits \/ SelfRollsBack PROVE RepoParts'
  <1> USE DEF RepoInv, RepoParts
  <1>1. UNCHANGED <<errand, startList, since, selected, gitLock, strays>>
    BY DEF SelfAdds, SelfCommits, SelfRollsBack, Adds, treeVars
  <1>2. OneDelivery' /\ OnlyNewWork' BY <1>1 DEF OneDelivery, OnlyNewWork
  <1>3. /\ Status' \subseteq Status
        /\ inIndex' \ leftIn' \subseteq inIndex \ leftIn
        /\ \A n \in Errands : /\ owes'[n] \subseteq owes[n] /\ unindexed'[n] \subseteq unindexed[n]
                              /\ unindexed'[n] \subseteq modified' /\ owes'[n] \subseteq Status'
    <2>1. CASE SelfAdds
      <3>1. /\ inIndex' = inIndex \cup modified /\ modified' = {} /\ leftIn' = leftIn \cup modified
            /\ owes' = owes /\ \A n \in Errands : unindexed'[n] = unindexed[n] \ Paths
        BY <2>1 DEF SelfAdds, Adds, RepoDomains
      <3>2. \A n \in Errands : unindexed[n] \subseteq Paths BY DEF RepoDomains
      <3> QED BY <3>1, <3>2 DEF WorkIsTracked, Status
    <2>2. CASE SelfCommits /\ Commits
      <3>1. /\ inIndex' = {} /\ modified' = modified /\ unindexed' = unindexed
            /\ \A n \in Errands : owes'[n] = owes[n] \cap unindexed[n]
        BY <2>2 DEF Commits
      <3> QED BY <3>1 DEF WorkIsTracked, Status
    <2>3. CASE SelfCommits /\ UNCHANGED treeVars
      BY <2>3 DEF treeVars, WorkIsTracked, Status
    <2>4. CASE SelfRollsBack
      <3>1. PICK untracked \in SUBSET (modified \ inIndex) :
              /\ modified' = untracked /\ inIndex' = {}
              /\ owes' = [n \in Errands |-> owes[n] \cap untracked]
              /\ unindexed' = [n \in Errands |-> unindexed[n] \cap untracked]
        BY <2>4 DEF SelfRollsBack
      <3> QED BY <3>1 DEF Status
    <2> QED BY <2>1, <2>2, <2>3, <2>4 DEF SelfCommits
  <1>4. NewIsWritten' BY <1>1, <1>3 DEF NewIsWritten
  <1>5. IndexIsKnown' BY <1>1, <1>3 DEF IndexIsKnown
  <1>6. WorkIsTracked'
    <2>1. \A n \in Errands :
            /\ errand'[n] \in {"new", "committed", "skipped"} => owes'[n] = {}
            /\ errand'[n] = "working" => owes'[n] \subseteq since'[n]
            /\ errand'[n] \in {"listed", "added"} => owes'[n] \subseteq selected'[n]
            /\ errand'[n] = "added" => unindexed'[n] \cap selected'[n] = {}
      BY <1>1, <1>3 DEF WorkIsTracked
    <2> QED BY <1>3, <2>1 DEF WorkIsTracked
  <1> QED BY <1>2, <1>4, <1>5, <1>6

\* Each step keeps the parts.
LEMMA RepoPartsStep == RepoInv /\ [RepoNext]_repoVars => RepoParts'
  <1> SUFFICES ASSUME RepoInv, [RepoNext]_repoVars PROVE RepoParts' OBVIOUS
  <1>1. CASE UNCHANGED repoVars
    BY <1>1 DEF repoVars, RepoInv, RepoParts, OneDelivery, NewIsWritten, IndexIsKnown,
                WorkIsTracked, OnlyNewWork, Status
  <1> QED BY <1>1, RepoBeginsKeeps, DeliveryAddsKeeps, DeliveryCommitsKeeps, FileIsWrittenKeeps,
             SelfKeeps DEF RepoNext

\* A mail's commit holds only what was written since the mail started or what others had
\* left in the index, and when it reports a commit or nothing to commit, none of its work
\* is missing.
THEOREM DeliveriesHoldTheirWork == RepoSpec => []DeliveriesAreExact
  <1>1. RepoInv => DeliveriesAreExact
    BY DEF RepoInv, RepoParts, DeliveriesAreExact, WorkIsDelivered, WorkIsTracked
  <1>2. RepoInv /\ [RepoNext]_repoVars => RepoInv' BY RepoDomainsStep, RepoPartsStep DEF RepoInv
  <1> QED BY <1>1, <1>2, RepoInitially, PTL DEF RepoSpec

\* What RepoDomains leaves out.
RepoRest ==
  /\ leftIn \cup strays \subseteq Paths
  /\ gitLock \in Errands \cup {Free} /\ selfCommit \in {"idle", "added"}
  /\ gitFaults \in 0..MaxGitFaults

\* The repository's variables keep to their domains (RepoTypeOK).
LEMMA RepoIsTyped == RepoSpec => []RepoTypeOK
  <1>1. RepoInit => RepoRest BY RepositoryAssumption DEF RepoInit, RepoRest
  <1>2. RepoInv /\ RepoRest /\ [RepoNext]_repoVars => RepoRest'
    <2> SUFFICES ASSUME RepoInv, RepoRest, [RepoNext]_repoVars PROVE RepoRest' OBVIOUS
    <2>0. inIndex \subseteq Paths /\ modified \subseteq Paths BY DEF RepoInv, RepoDomains
    <2>1. GitFails \/ GitSucceeds => gitFaults' \in 0..MaxGitFaults
      BY RepositoryAssumption DEF GitFails, GitSucceeds, RepoRest
    <2>2. CASE UNCHANGED repoVars BY <2>2 DEF repoVars, RepoRest
    <2>3. ASSUME NEW m \in Errands, ErrandStarts(m) \/ DeliveryLists(m) PROVE RepoRest'
      BY <2>1, <2>3 DEF ErrandStarts, DeliveryLists, treeVars, RepoRest
    <2>4. ASSUME NEW m \in Errands, DeliveryAdds(m) PROVE RepoRest'
      BY <2>1, <2>4 DEF DeliveryAdds, Adds, treeVars, RepoRest
    <2>5. ASSUME NEW m \in Errands, DeliveryCommits(m) PROVE RepoRest'
      BY <2>0, <2>1, <2>5 DEF DeliveryCommits, Commits, RepoRest
    <2>6. ASSUME NEW m \in Errands \cup {Free}, NEW f \in Paths, FileIsWritten(m, f) PROVE RepoRest'
      BY <2>6 DEF FileIsWritten, RepoRest
    <2>7. CASE SelfAdds \/ SelfRollsBack
      BY <2>0, <2>7 DEF SelfAdds, SelfRollsBack, Adds, RepoRest
    <2>8. CASE SelfCommits BY <2>1, <2>8 DEF SelfCommits, Commits, treeVars, RepoRest
    <2> QED BY <2>2, <2>3, <2>4, <2>5, <2>6, <2>7, <2>8 DEF RepoNext
  <1>3. RepoInv /\ RepoRest => RepoTypeOK BY DEF RepoInv, RepoDomains, RepoRest, RepoTypeOK
  <1>4. RepoInv /\ [RepoNext]_repoVars => RepoInv'
    BY RepoDomainsStep, RepoPartsStep DEF RepoInv
  <1> QED BY <1>1, <1>2, <1>3, <1>4, RepoInitially, PTL DEF RepoSpec

(***************************************************************************)
(* The history of the user's profile tells how each entry came about, for  *)
(* any writers, calls and faults.                                          *)
(***************************************************************************)
\* The calls a writer makes of the store.
StoreCall == Facts \cup {Clear} \cup [kind : {"replace"}, with : Profiles]

Told == [old : ProfileValues \cup {Absent}, new : ProfileValues \cup {Absent}]

\* What each variable holds, as far as the history needs it.
ProfileDomains ==
  /\ entries \in Profiles /\ before \in Profiles
  /\ events \in [ProfileKeys -> Seq(Told)]
  /\ queue \in Seq(Writers)
  /\ writer \in [Writers -> {"idle", "compacting", "queued", "read", "clearing", "recording"}]
  /\ calls \in [Writers -> Seq(StoreCall)]
  /\ seen \in [Writers -> Profiles] /\ owed \in [Writers -> SUBSET ProfileKeys]

Under == {"read", "clearing", "recording"}

\* A call that has begun is the first of the queue, and a writer that waits is in it.
OneUnderWay ==
  /\ \A w \in Writers : writer[w] \in Under => queue # <<>> /\ Head(queue) = w
  /\ \A w \in Writers : writer[w] = "queued" => \E i \in DOMAIN queue : queue[i] = w
  /\ \A w \in Writers : writer[w] \in Under \cup {"queued"} => calls[w] # <<>>

\* What a call has read is what is there, but for what it changed itself.
RowIsRead ==
  /\ \A w \in Writers : writer[w] = "read" => seen[w] = entries
  /\ \A w \in Writers : writer[w] # "recording" => owed[w] = {}
  /\ \A w \in Writers : \A k \in owed[w] :
       entries[k] = Result(Head(calls[w]), seen[w])[k] /\ entries[k] # seen[w][k]
  /\ \A w \in Writers : writer[w] = "clearing" =>
       before = entries /\ \A k \in ProfileKeys : events[k] = <<>>

\* Where the events of a key end, and where the last of them began.
LastTold(k) == IF events[k] = <<>> THEN Absent ELSE events[k][Len(events[k])].new
Began(k) == IF events[k] = <<>> THEN Absent ELSE events[k][Len(events[k])].old

\* An event begins where the last one ended.
Chained(k) ==
  \A i \in DOMAIN events[k] :
    events[k][i].old = IF i = 1 THEN Absent ELSE events[k][i - 1].new

\* The last event leads from the value before to the value now, but for one owed.
Followed(k) ==
  /\ \A w \in Writers : k \in owed[w] => LastTold(k) = seen[w][k] /\ before[k] = seen[w][k]
  /\ (\A w \in Writers : k \notin owed[w] /\ writer[w] # "clearing") =>
       LastTold(k) = entries[k] /\ Began(k) = before[k]

HistoryTold == \A k \in ProfileKeys \ unrecorded : Chained(k) /\ Followed(k)

ProfileInv == ProfileDomains /\ OneUnderWay /\ RowIsRead /\ HistoryTold /\ misrolled = FALSE

\* What a rollback leaves in an entry is a value, and what a call writes back is a row;
\* a rollback, to an event or by one, touches its key alone.
LEMMA ResultIsRow ==
  ASSUME ProfileDomains, NEW call \in StoreCall, NEW row \in Profiles
  PROVE  /\ Result(call, row) \in Profiles
         /\ call.kind = "rollback" =>
              /\ call.key \in ProfileKeys
              /\ Result(call, row)[call.key] = RollbackTarget(call.key, row[call.key])
         /\ call.kind \in {"rollback", "restore"} =>
              \A k \in ProfileKeys : k # call.key => Result(call, row)[k] = row[k]
  <1> DEFINE V == ProfileValues \cup {Absent}
  <1>1. ASSUME NEW k \in ProfileKeys, NEW old \in V
        PROVE  RollbackTarget(k, old) \in V /\ \A at : RestoreTarget(k, at, old) \in V
    <2>1. events[k] \in Seq(Told) BY DEF ProfileDomains
    <2>2. \A i \in DOMAIN events[k] : events[k][i] \in Told BY <2>1
    <2>3. DOMAIN events[k] = 1..Len(events[k]) /\ Len(events[k]) \in Nat BY <2>1
    <2>4. \A i \in 1..Len(events[k]) : events[k][i].new \in V BY <2>2, <2>3 DEF Told
    <2> QED BY <2>3, <2>4 DEF RollbackTarget, RestoreTarget, ListHistory
  <1>2. row \in [ProfileKeys -> V] BY DEF Profiles
  <1>3. CASE call.kind = "set"
    <2>1. call.key \in ProfileKeys /\ call.value \in V BY <1>3 DEF StoreCall, Facts, Clear
    <2> QED BY <1>2, <1>3, <2>1 DEF Result, Profiles
  <1>4. CASE call.kind = "remove"
    BY <1>2, <1>4 DEF Result, Profiles
  <1>5. CASE call.kind = "rollback"
    <2>1. call.key \in ProfileKeys BY <1>5 DEF StoreCall, Facts, Clear
    <2>2. RollbackTarget(call.key, row[call.key]) \in V BY <1>1, <1>2, <2>1
    <2>3. Result(call, row) = [row EXCEPT ![call.key] = RollbackTarget(call.key, row[call.key])]
      BY <1>5 DEF Result, RolledBack
    <2> QED BY <1>2, <1>5, <2>1, <2>2, <2>3 DEF Profiles
  <1>6. CASE call.kind = "replace"
    <2>1. call.with \in Profiles BY <1>6 DEF StoreCall, Facts, Clear
    <2> QED BY <1>6, <2>1 DEF Result
  <1>7. CASE call.kind = "restore"
    <2> DEFINE restoredTo == RestoreTarget(call.key, call.at, row[call.key])
    <2>1. call.key \in ProfileKeys BY <1>7 DEF StoreCall, Facts, Clear
    <2>2. restoredTo \in V BY <1>1, <1>2, <2>1
    <2>3. Result(call, row) = [row EXCEPT ![call.key] = restoredTo]
      BY <1>7 DEF Result, Restored
    <2> HIDE DEF restoredTo
    <2> QED BY <1>2, <1>7, <2>1, <2>2, <2>3 DEF Profiles
  <1>8. CASE call.kind \notin {"set", "remove", "rollback", "restore", "replace"}
    BY <1>8 DEF Result, Nobody, Profiles
  <1> QED BY <1>3, <1>4, <1>5, <1>6, <1>7, <1>8

\* The end of a call: its queue entry is gone, and the next one may begin.
LEMMA LeavingPassesOn ==
  ASSUME ProfileDomains, OneUnderWay, NEW w \in Writers, NEW failed \in BOOLEAN,
         writer[w] \in Under \cup {"queued"}, queue # <<>>, Head(queue) = w, Leaves(w, failed)
  PROVE  /\ queue' \in Seq(Writers)
         /\ writer' \in [Writers -> {"idle", "compacting", "queued", "read", "clearing",
                                     "recording"}]
         /\ calls' \in [Writers -> Seq(StoreCall)]
         /\ OneUnderWay'
         /\ writer'[w] \in {"idle", "queued"}
         /\ \A v \in Writers \ {w} : writer'[v] = writer[v] /\ writer[v] \notin Under
  <1> DEFINE left == IF failed THEN <<>> ELSE Tail(calls[w])
             others == Tail(queue)
             next == IF left = <<>> THEN "idle" ELSE "queued"
  <1>1. /\ calls' = [calls EXCEPT ![w] = left]
        /\ queue' = IF left = <<>> THEN others ELSE Append(others, w)
        /\ writer' = [writer EXCEPT ![w] = next]
    BY DEF Leaves
  <1> HIDE DEF next
  <1>2. calls[w] # <<>> /\ calls[w] \in Seq(StoreCall) BY DEF OneUnderWay, ProfileDomains
  <1>3. left \in Seq(StoreCall) BY <1>2
  <1> HIDE DEF left
  <1>4. queue \in Seq(Writers) BY DEF ProfileDomains
  <1>5. /\ others \in Seq(Writers) /\ Len(others) = Len(queue) - 1 /\ Len(queue) \in Nat \ {0}
        /\ \A i \in 1..Len(others) : others[i] = queue[i + 1]
        /\ queue[1] = w
    BY <1>4
  <1>6. \A v \in Writers \ {w} : (\E i \in DOMAIN queue : queue[i] = v) =>
          \E i \in DOMAIN others : others[i] = v
    <2> SUFFICES ASSUME NEW v \in Writers \ {w}, NEW i \in DOMAIN queue, queue[i] = v
                 PROVE  \E j \in DOMAIN others : others[j] = v
      OBVIOUS
    <2>1. i \in 1..Len(queue) /\ DOMAIN others = 1..Len(others) BY <1>4, <1>5
    <2>2. i # 1 BY <1>5
    <2>3. i - 1 \in 1..Len(others) BY <2>1, <2>2, <1>5
    <2>4. others[i - 1] = queue[(i - 1) + 1] BY <2>3, <1>5
    <2>5. (i - 1) + 1 = i BY <2>1
    <2> QED BY <2>1, <2>3, <2>4, <2>5
  <1> HIDE DEF others
  <1>7. queue' \in Seq(Writers) BY <1>1, <1>5
  <1>8. \A v \in Writers : (\E i \in DOMAIN others : others[i] = v) =>
          \E i \in DOMAIN queue' : queue'[i] = v
    <2>1. CASE left = <<>> BY <2>1, <1>1
    <2>2. CASE left # <<>>
      <3>1. queue' = Append(others, w) BY <2>2, <1>1
      <3>2. \A i \in DOMAIN others : i \in DOMAIN queue' /\ queue'[i] = others[i]
        BY <3>1, <1>5
      <3> QED BY <3>2
    <2> QED BY <2>1, <2>2
  <1>9. left # <<>> => \E i \in DOMAIN queue' : queue'[i] = w
    <2> SUFFICES ASSUME left # <<>> PROVE \E i \in DOMAIN queue' : queue'[i] = w OBVIOUS
    <2>1. queue' = Append(others, w) BY <1>1
    <2>2. Len(others) + 1 \in DOMAIN queue' /\ queue'[Len(others) + 1] = w BY <2>1, <1>5
    <2> QED BY <2>2
  <1>10. writer' \in [Writers -> {"idle", "compacting", "queued", "read", "clearing", "recording"}]
    BY <1>1 DEF ProfileDomains, next
  <1>11. calls' \in [Writers -> Seq(StoreCall)] BY <1>1, <1>3 DEF ProfileDomains
  <1>12. writer'[w] = next /\ \A v \in Writers \ {w} : writer'[v] = writer[v]
    BY <1>1 DEF ProfileDomains
  <1>13. calls'[w] = left /\ \A v \in Writers \ {w} : calls'[v] = calls[v]
    BY <1>1 DEF ProfileDomains
  <1>14. \A v \in Writers \ {w} : writer[v] \notin Under BY DEF OneUnderWay
  <1>15. OneUnderWay'
    <2>1. ASSUME NEW v \in Writers PROVE writer'[v] \notin Under
      <3>1. CASE v = w BY <3>1, <1>12 DEF next, Under
      <3>2. CASE v # w BY <3>2, <1>12, <1>14
      <3> QED BY <3>1, <3>2
    <2>2. ASSUME NEW v \in Writers, writer'[v] = "queued"
          PROVE  (\E i \in DOMAIN queue' : queue'[i] = v) /\ calls'[v] # <<>>
      <3>1. CASE v = w
        <4>1. left # <<>> BY <2>2, <3>1, <1>12 DEF next
        <4> QED BY <4>1, <3>1, <1>9, <1>13
      <3>2. CASE v # w
        <4>1. writer[v] = "queued" BY <2>2, <3>2, <1>12
        <4>2. calls[v] # <<>> /\ \E i \in DOMAIN queue : queue[i] = v BY <4>1 DEF OneUnderWay
        <4> QED BY <4>2, <3>2, <1>6, <1>8, <1>13
      <3> QED BY <3>1, <3>2
    <2> QED BY <2>1, <2>2 DEF OneUnderWay
  <1> QED BY <1>7, <1>10, <1>11, <1>12, <1>14, <1>15 DEF next

\* A call of the store is queued, and nothing else changes.
LEMMA CallIsQueued ==
  ASSUME ProfileInv, NEW w \in Writers, NEW list \in Seq(StoreCall), list # <<>>,
         writer[w] \in {"idle", "compacting"}, StoreCalls(w, list)
  PROVE  ProfileInv'
  <1>1. /\ calls' = [calls EXCEPT ![w] = list]
        /\ queue' = Append(queue, w)
        /\ writer' = [writer EXCEPT ![w] = "queued"]
        /\ UNCHANGED <<entries, events, seen, owed, unrecorded, before, misrolled>>
    BY DEF StoreCalls
  <1>2. /\ writer'[w] = "queued" /\ calls'[w] = list
        /\ \A v \in Writers \ {w} : writer'[v] = writer[v] /\ calls'[v] = calls[v]
    BY <1>1 DEF ProfileInv, ProfileDomains
  <1>3. /\ queue \in Seq(Writers) /\ queue' \in Seq(Writers) /\ queue' # <<>>
        /\ Len(queue') = Len(queue) + 1 /\ queue'[Len(queue) + 1] = w
        /\ \A i \in 1..Len(queue) : queue'[i] = queue[i]
        /\ queue # <<>> => Head(queue') = Head(queue)
    <2>1. queue \in Seq(Writers) BY DEF ProfileInv, ProfileDomains
    <2>2. queue' = Append(queue, w) BY <1>1
    <2>3. queue # <<>> => Head(queue') = Head(queue)
      BY <2>1, <2>2
    <2> QED BY <2>1, <2>2, <2>3
  <1>4. ProfileDomains'
    <2>1. calls' \in [Writers -> Seq(StoreCall)] BY <1>1 DEF ProfileInv, ProfileDomains
    <2>2. writer' \in [Writers -> {"idle", "compacting", "queued", "read", "clearing", "recording"}]
      BY <1>1 DEF ProfileInv, ProfileDomains
    <2> QED BY <1>1, <1>3, <2>1, <2>2 DEF ProfileInv, ProfileDomains
  <1>5. OneUnderWay'
    <2>1. ASSUME NEW v \in Writers, writer'[v] \in Under PROVE queue' # <<>> /\ Head(queue') = v
      <3>1. v # w /\ writer[v] \in Under BY <2>1, <1>2 DEF Under
      <3> QED BY <3>1, <1>3 DEF ProfileInv, OneUnderWay
    <2>2. ASSUME NEW v \in Writers, writer'[v] = "queued"
          PROVE  \E i \in DOMAIN queue' : queue'[i] = v
      <3>0. DOMAIN queue' = 1..Len(queue') /\ DOMAIN queue = 1..Len(queue) /\ Len(queue) \in Nat
        BY <1>3
      <3>1. CASE v = w BY <3>0, <3>1, <1>3
      <3>2. CASE v # w
        <4>1. writer[v] = "queued" BY <2>2, <3>2, <1>2
        <4>2. PICK i \in DOMAIN queue : queue[i] = v BY <4>1 DEF ProfileInv, OneUnderWay
        <4> QED BY <4>2, <3>0, <1>3
      <3> QED BY <3>1, <3>2
    <2>3. ASSUME NEW v \in Writers, writer'[v] \in Under \cup {"queued"} PROVE calls'[v] # <<>>
      <3>1. CASE v = w BY <3>1, <1>2
      <3>2. CASE v # w BY <3>2, <2>3, <1>2 DEF ProfileInv, OneUnderWay
      <3> QED BY <3>1, <3>2
    <2> QED BY <2>1, <2>2, <2>3 DEF OneUnderWay
  <1>6. RowIsRead'
    <2>1. owed[w] = {} BY DEF ProfileInv, RowIsRead
    <2>2. \A v \in Writers : writer'[v] = "read" => seen'[v] = entries'
      BY <1>1, <1>2 DEF ProfileInv, RowIsRead
    <2>3. \A v \in Writers : writer'[v] # "recording" => owed'[v] = {}
      BY <1>1, <1>2, <2>1 DEF ProfileInv, RowIsRead
    <2>4. ASSUME NEW v \in Writers, NEW k \in owed'[v]
          PROVE  /\ entries'[k] = Result(Head(calls[v]), seen[v])'[k]
                 /\ entries'[k] # seen'[v][k]
      <3>1. v # w /\ k \in owed[v] BY <1>1, <2>1, <2>4
      <3>2. calls'[v] = calls[v] BY <3>1, <1>2
      <3>3. Result(Head(calls[v]), seen[v])' = Result(Head(calls[v]), seen[v])
        <4>1. events' = events /\ seen' = seen BY <1>1
        <4>2. \A k1, at, old : RestoreTarget(k1, at, old)' = RestoreTarget(k1, at, old)
          BY <4>1 DEF RestoreTarget, ListHistory
        <4>3. \A k1, old : RollbackTarget(k1, old)' = RollbackTarget(k1, old)
          BY <4>1 DEF RollbackTarget, ListHistory
        <4> HIDE DEF RestoreTarget, RollbackTarget
        <4> QED BY ONLY <4>1, <4>2, <4>3, <3>2 DEF Result, RolledBack, Restored
      <3> QED BY <1>1, <3>1, <3>3 DEF ProfileInv, RowIsRead
    <2>5. \A v \in Writers : writer'[v] = "clearing" =>
            before' = entries' /\ \A k \in ProfileKeys : events'[k] = <<>>
      BY <1>1, <1>2 DEF ProfileInv, RowIsRead
    <2> QED BY <2>2, <2>3, <2>4, <2>5 DEF RowIsRead
  <1>7. HistoryTold'
    <2>1. \A v \in Writers : writer'[v] # "clearing" => writer[v] # "clearing" BY <1>2
    <2> QED BY <1>1, <2>1 DEF ProfileInv, HistoryTold, Chained, Followed, LastTold, Began
  <1> QED BY <1>1, <1>4, <1>5, <1>6, <1>7 DEF ProfileInv

\* A call begins, of the store or of the model.
LEMMA BeginningKeeps ==
  ASSUME ProfileInv, NEW w \in Writers, CompactBegins(w) \/ ReadsRow(w)
  PROVE  ProfileInv'
  <1> USE DEF ProfileInv
  <1>0. UNCHANGED <<entries, events, queue, calls, owed, unrecorded, before, misrolled>>
    BY DEF CompactBegins, ReadsRow
  <1>1. /\ writer[w] \in {"idle", "queued"} /\ writer'[w] \in {"compacting", "read"}
        /\ writer' \in [Writers -> {"idle", "compacting", "queued", "read", "clearing",
                                    "recording"}]
        /\ writer'[w] = "read" => writer[w] = "queued" /\ Head(queue) = w /\ seen'[w] = entries
        /\ \A v \in Writers \ {w} : writer'[v] = writer[v] /\ seen'[v] = seen[v]
        /\ seen' \in [Writers -> Profiles]
    BY DEF CompactBegins, ReadsRow, HasTurn, ProfileDomains
  <1>2. ProfileDomains' BY <1>0, <1>1 DEF ProfileDomains
  <1>3. OneUnderWay'
    <2>1. writer[w] = "queued" => queue # <<>>
      <3> SUFFICES ASSUME writer[w] = "queued" PROVE queue # <<>> OBVIOUS
      <3>1. PICK i \in DOMAIN queue : queue[i] = w BY DEF OneUnderWay
      <3> QED BY <3>1
    <2>2. ASSUME NEW v \in Writers, writer'[v] \in Under PROVE queue' # <<>> /\ Head(queue') = v
      <3>1. CASE v = w BY <1>0, <1>1, <2>1, <2>2, <3>1 DEF Under
      <3>2. CASE v # w BY <1>0, <1>1, <2>2, <3>2 DEF OneUnderWay
      <3> QED BY <3>1, <3>2
    <2>3. ASSUME NEW v \in Writers, writer'[v] = "queued"
          PROVE  \E i \in DOMAIN queue' : queue'[i] = v
      BY <1>0, <1>1, <2>3 DEF OneUnderWay
    <2>4. ASSUME NEW v \in Writers, writer'[v] \in Under \cup {"queued"} PROVE calls'[v] # <<>>
      BY <1>0, <1>1, <2>4 DEF OneUnderWay, Under
    <2> QED BY <2>2, <2>3, <2>4 DEF OneUnderWay
  <1>4. owed[w] = {} BY <1>1 DEF RowIsRead
  <1>5. RowIsRead'
    <2>1. \A v \in Writers : \A k \in owed[v] :
            entries[k] = Result(Head(calls[v]), seen'[v])[k] /\ entries[k] # seen'[v][k]
      BY <1>1, <1>4 DEF RowIsRead
    <2>2. \A v \in Writers : Result(Head(calls[v]), seen[v])' = Result(Head(calls[v]), seen'[v])
      BY <1>0 DEF Result, RolledBack, RollbackTarget, Restored, RestoreTarget, ListHistory
    <2>3. \A v \in Writers : \A k \in owed'[v] :
            /\ entries'[k] = Result(Head(calls[v]), seen[v])'[k]
            /\ entries'[k] # seen'[v][k]
      BY <1>0, <2>1, <2>2
    <2>4. \A v \in Writers : writer'[v] = "read" => seen'[v] = entries'
      BY <1>0, <1>1 DEF RowIsRead
    <2>5. \A v \in Writers : writer'[v] # "recording" => owed'[v] = {}
      BY <1>0, <1>1, <1>4 DEF RowIsRead
    <2>6. \A v \in Writers : writer'[v] = "clearing" =>
            before' = entries' /\ \A k \in ProfileKeys : events'[k] = <<>>
      BY <1>0, <1>1 DEF RowIsRead
    <2> QED BY <2>3, <2>4, <2>5, <2>6 DEF RowIsRead
  <1>6. HistoryTold'
    <2>1. \A v \in Writers : writer'[v] # "clearing" => writer[v] # "clearing" BY <1>1
    <2>2. \A v \in Writers : v # w => seen'[v] = seen[v] BY <1>1
    <2> QED BY <1>0, <1>4, <2>1, <2>2 DEF HistoryTold, Chained, Followed, LastTold, Began
  <1> QED BY <1>0, <1>2, <1>3, <1>5, <1>6

\* While w has the turn, nobody else owes an event or clears.
LEMMA OthersWait ==
  ASSUME ProfileInv, NEW w \in Writers, queue # <<>>, Head(queue) = w
  PROVE  \A v \in Writers \ {w} : writer[v] \notin Under /\ owed[v] = {}
  BY DEF ProfileInv, OneUnderWay, RowIsRead, Under

\* The events go first and the row after.
LEMMA ClearingKeeps ==
  ASSUME ProfileInv, NEW w \in Writers, ClearsEvents(w) \/ ClearsRow(w)
  PROVE  ProfileInv'
  <1> USE DEF ProfileInv
  <1>0. writer[w] \in Under /\ queue # <<>> /\ Head(queue) = w /\ owed[w] = {}
    BY DEF ClearsEvents, ClearsRow, Under, OneUnderWay, RowIsRead
  <1>1. \A v \in Writers \ {w} : writer[v] \notin Under /\ owed[v] = {} BY <1>0, OthersWait
  <1>2. \A v \in Writers : owed[v] = {} BY <1>0, <1>1
  <1>3. CASE ClearsEvents(w)
    <2>1. /\ events' = [k \in ProfileKeys |-> <<>>] /\ before' = entries
          /\ writer' = [writer EXCEPT ![w] = "clearing"]
          /\ UNCHANGED <<entries, queue, calls, seen, owed, unrecorded, misrolled>>
      BY <1>3 DEF ClearsEvents
    <2>2. writer'[w] = "clearing" /\ \A v \in Writers \ {w} : writer'[v] = writer[v]
      BY <2>1 DEF ProfileDomains
    <2>3. ProfileDomains'
      <3>1. events' \in [ProfileKeys -> Seq(Told)] BY <2>1
      <3>2. writer' \in [Writers -> {"idle", "compacting", "queued", "read", "clearing",
                                     "recording"}]
        BY <2>1 DEF ProfileDomains
      <3> QED BY <2>1, <3>1, <3>2 DEF ProfileDomains
    <2>4. OneUnderWay' BY <1>0, <2>1, <2>2 DEF OneUnderWay, Under
    <2>5. RowIsRead' BY <1>1, <1>2, <2>1, <2>2 DEF RowIsRead, Under
    <2>6. HistoryTold'
      BY <1>2, <2>1, <2>2 DEF HistoryTold, Chained, Followed, LastTold, Began
    <2> QED BY <2>1, <2>3, <2>4, <2>5, <2>6
  <1>4. CASE ClearsRow(w)
    <2>1. /\ entries' = Nobody /\ before' = Nobody /\ unrecorded' = {} /\ Leaves(w, FALSE)
          /\ UNCHANGED <<events, seen, owed, misrolled>> /\ writer[w] = "clearing"
      BY <1>4 DEF ClearsRow
    <2>2. /\ queue' \in Seq(Writers)
          /\ writer' \in [Writers -> {"idle", "compacting", "queued", "read", "clearing",
                                      "recording"}]
          /\ calls' \in [Writers -> Seq(StoreCall)]
          /\ OneUnderWay'
          /\ writer'[w] \in {"idle", "queued"}
          /\ \A v \in Writers \ {w} : writer'[v] = writer[v] /\ writer[v] \notin Under
      BY <1>0, <2>1, LeavingPassesOn
    <2>3. Nobody \in Profiles BY DEF Nobody, Profiles
    <2>4. ProfileDomains' BY <2>1, <2>2, <2>3 DEF ProfileDomains
    <2>5. \A v \in Writers : writer'[v] \notin Under BY <2>2 DEF Under
    <2>6. RowIsRead' BY <1>2, <2>1, <2>5 DEF RowIsRead, Under
    <2>7. \A k \in ProfileKeys : events[k] = <<>> BY <2>1 DEF RowIsRead
    <2>8. HistoryTold'
      BY <1>2, <2>1, <2>7 DEF HistoryTold, Chained, Followed, LastTold, Began, Nobody
    <2> QED BY <2>1, <2>2, <2>4, <2>6, <2>8
  <1> QED BY <1>3, <1>4

\* Whose turn it is to write finds the events of a key where the row is.
LEMMA TurnFindsHistory ==
  ASSUME ProfileInv, NEW w \in Writers, writer[w] = "read", NEW k \in ProfileKeys \ unrecorded
  PROVE  Chained(k) /\ LastTold(k) = entries[k] /\ Began(k) = before[k]
  <1>1. queue # <<>> /\ Head(queue) = w /\ owed[w] = {}
    BY DEF ProfileInv, OneUnderWay, RowIsRead, Under
  <1>2. \A v \in Writers : k \notin owed[v] /\ writer[v] # "clearing"
    BY <1>1, OthersWait DEF Under
  <1> QED BY <1>2 DEF ProfileInv, HistoryTold, Followed

\* A rollback writes what was there before the last change.
LEMMA RollbackTakesBack ==
  ASSUME ProfileInv, NEW k \in ProfileKeys,
         Chained(k), LastTold(k) = entries[k], Began(k) = before[k]
  PROVE  RollbackTarget(k, entries[k]) = before[k]
  <1>0. events[k] \in Seq(Told) BY DEF ProfileInv, ProfileDomains
  <1>1. PICK n \in Nat : /\ n = Len(events[k]) /\ DOMAIN events[k] = 1..n
                         /\ (events[k] = <<>>) <=> (n = 0)
    BY <1>0
  <1>2. CASE n \in Nat \ {0, 1}
    <2>1. n \in 1..n /\ n # 1 /\ n >= 2 BY <1>2
    <2>2. events[k][n].old = events[k][n - 1].new BY <1>1, <2>1 DEF Chained
    <2>3. Began(k) = events[k][n].old BY <1>1, <1>2 DEF Began
    <2> QED BY <1>1, <2>1, <2>2, <2>3 DEF RollbackTarget, ListHistory
  <1>3. CASE n = 1
    <2>1. 1 \in DOMAIN events[k] BY <1>1, <1>3
    <2>2. events[k][1].old = Absent BY <2>1 DEF Chained
    <2>3. Began(k) = Absent BY <1>1, <1>3, <2>2 DEF Began
    <2> QED BY <1>1, <1>3, <2>2, <2>3 DEF RollbackTarget, ListHistory
  <1>4. CASE n = 0
    <2>1. LastTold(k) = Absent /\ Began(k) = Absent BY <1>1, <1>4 DEF LastTold, Began
    <2> QED BY <1>1, <1>4, <2>1 DEF RollbackTarget, ListHistory
  <1> QED BY <1>2, <1>3, <1>4

\* The row is written back; the events are owed.
LEMMA WritingKeeps ==
  ASSUME ProfileInv, NEW w \in Writers, WritesRow(w)
  PROVE  ProfileInv'
  <1> DEFINE call == Head(calls[w])
             row == Result(call, seen[w])
             changed == {k \in ProfileKeys : row[k] # seen[w][k]}
  <1>0. /\ writer[w] = "read" /\ call.kind # "clear"
        /\ entries' = row
        /\ before' = [k \in ProfileKeys |-> IF row[k] # entries[k] THEN entries[k] ELSE before[k]]
        /\ misrolled' = (misrolled \/ /\ call.kind = "rollback" /\ call.key \notin unrecorded
                                      /\ row[call.key] # before[call.key])
        /\ IF changed = {}
           THEN Leaves(w, FALSE) /\ UNCHANGED owed
           ELSE /\ owed' = [owed EXCEPT ![w] = changed]
                /\ writer' = [writer EXCEPT ![w] = "recording"]
                /\ UNCHANGED <<calls, queue>>
        /\ UNCHANGED <<events, seen, unrecorded>>
    BY DEF WritesRow
  <1>1. queue # <<>> /\ Head(queue) = w /\ owed[w] = {} /\ seen[w] = entries /\ calls[w] # <<>>
    BY <1>0 DEF ProfileInv, OneUnderWay, RowIsRead, Under
  <1>2. \A v \in Writers \ {w} : writer[v] \notin Under /\ owed[v] = {} BY <1>1, OthersWait
  <1>3. call \in StoreCall
    <2>1. calls[w] \in Seq(StoreCall) BY DEF ProfileInv, ProfileDomains
    <2> QED BY <1>1, <2>1
  <1>4. seen[w] \in Profiles /\ entries \in Profiles /\ before \in Profiles /\ ProfileDomains
    BY DEF ProfileInv, ProfileDomains
  <1>5. row \in Profiles BY <1>3, <1>4, ResultIsRow
  <1>6. call.kind = "rollback" =>
          call.key \in ProfileKeys /\ row[call.key] = RollbackTarget(call.key, entries[call.key])
    BY <1>1, <1>3, <1>4, ResultIsRow
  <1>7. misrolled' = FALSE
    <2> SUFFICES ASSUME call.kind = "rollback", call.key \notin unrecorded
                 PROVE  row[call.key] = before[call.key]
      BY <1>0 DEF ProfileInv
    <2>1. call.key \in ProfileKeys \ unrecorded BY <1>6
    <2>2. Chained(call.key) /\ LastTold(call.key) = entries[call.key]
          /\ Began(call.key) = before[call.key]
      BY <1>0, <2>1, TurnFindsHistory
    <2> QED BY <1>6, <2>1, <2>2, RollbackTakesBack
  <1> HIDE DEF row
  <1>8. before' \in Profiles BY <1>0, <1>4, <1>5 DEF Profiles
  <1>9. \A v \in Writers : Result(Head(calls[v]), seen[v])' = Result(Head(calls'[v]), seen'[v])
    BY <1>0 DEF Result, RolledBack, RollbackTarget, Restored, RestoreTarget, ListHistory
  <1>10. CASE changed = {}
    <2>1. Leaves(w, FALSE) /\ UNCHANGED owed BY <1>0, <1>10
    <2>2. /\ queue' \in Seq(Writers)
          /\ writer' \in [Writers -> {"idle", "compacting", "queued", "read", "clearing",
                                      "recording"}]
          /\ calls' \in [Writers -> Seq(StoreCall)]
          /\ OneUnderWay'
          /\ writer'[w] \in {"idle", "queued"}
          /\ \A v \in Writers \ {w} : writer'[v] = writer[v] /\ writer[v] \notin Under
      BY <1>0, <1>1, <1>4, <2>1, LeavingPassesOn DEF Under, ProfileInv
    <2>3. ProfileDomains' BY <1>0, <1>4, <1>5, <1>8, <2>1, <2>2 DEF ProfileDomains
    <2>4. \A v \in Writers : writer'[v] \notin Under BY <2>2 DEF Under
    <2>5. \A v \in Writers : owed'[v] = {} BY <1>1, <1>2, <2>1
    <2>6. RowIsRead' BY <2>4, <2>5 DEF RowIsRead, Under
    <2>7. \A k \in ProfileKeys : row[k] = entries[k] BY <1>1, <1>10
    <2>8. \A k \in ProfileKeys : entries'[k] = entries[k] /\ before'[k] = before[k]
      BY <1>0, <2>7
    <2>9. HistoryTold'
      <3> SUFFICES ASSUME NEW k \in ProfileKeys \ unrecorded PROVE Chained(k)' /\ Followed(k)'
        BY <1>0 DEF HistoryTold
      <3>1. Chained(k) /\ LastTold(k) = entries[k] /\ Began(k) = before[k]
        BY <1>0, TurnFindsHistory
      <3> QED BY <1>0, <2>5, <2>8, <3>1 DEF Chained, Followed, LastTold, Began
    <2> QED BY <1>7, <2>2, <2>3, <2>6, <2>9 DEF ProfileInv
  <1>11. CASE changed # {}
    <2>1. /\ owed' = [owed EXCEPT ![w] = changed]
          /\ writer' = [writer EXCEPT ![w] = "recording"]
          /\ UNCHANGED <<calls, queue>>
      BY <1>0, <1>11
    <2>2. /\ writer'[w] = "recording" /\ owed'[w] = changed
          /\ \A v \in Writers \ {w} : writer'[v] = writer[v] /\ owed'[v] = {}
      BY <1>2, <2>1, <1>4 DEF ProfileDomains
    <2>3. ProfileDomains'
      <3>1. owed' \in [Writers -> SUBSET ProfileKeys] BY <2>1, <1>4 DEF ProfileDomains
      <3>2. writer' \in [Writers -> {"idle", "compacting", "queued", "read", "clearing",
                                     "recording"}]
        BY <2>1, <1>4 DEF ProfileDomains
      <3> QED BY <1>0, <1>4, <1>5, <1>8, <2>1, <3>1, <3>2 DEF ProfileDomains
    <2>4. OneUnderWay' BY <1>1, <2>1, <2>2 DEF ProfileInv, OneUnderWay, Under
    <2>5. RowIsRead'
      <3>1. Result(Head(calls[w]), seen[w])' = row BY <1>0, <1>9, <2>1 DEF row
      <3>2. \A k \in changed : entries'[k] = row[k] /\ row[k] # seen'[w][k] BY <1>0
      <3>3. \A v \in Writers : \A k \in owed'[v] :
              /\ entries'[k] = Result(Head(calls[v]), seen[v])'[k]
              /\ entries'[k] # seen'[v][k]
        BY <2>2, <3>1, <3>2
      <3>4. \A v \in Writers : writer'[v] # "read" /\ writer'[v] # "clearing"
        BY <1>2, <2>2 DEF Under
      <3>5. \A v \in Writers : writer'[v] # "recording" => owed'[v] = {} BY <2>2
      <3> QED BY <3>3, <3>4, <3>5 DEF RowIsRead
    <2>6. HistoryTold'
      <3> SUFFICES ASSUME NEW k \in ProfileKeys \ unrecorded PROVE Chained(k)' /\ Followed(k)'
        BY <1>0 DEF HistoryTold
      <3>1. Chained(k) /\ LastTold(k) = entries[k] /\ Began(k) = before[k]
        BY <1>0, TurnFindsHistory
      <3>2. Chained(k)' /\ LastTold(k)' = entries[k] /\ Began(k)' = before[k]
        BY <1>0, <3>1 DEF Chained, LastTold, Began
      <3>3. CASE k \in changed
        <4>1. before'[k] = entries[k] /\ seen'[w][k] = entries[k] BY <1>0, <1>1, <3>3
        <4> QED BY <2>2, <3>2, <3>3, <4>1 DEF Followed
      <3>4. CASE k \notin changed
        <4>1. before'[k] = before[k] /\ entries'[k] = entries[k] BY <1>0, <1>1, <3>4
        <4>2. \A v \in Writers : k \notin owed'[v] BY <2>2, <3>4
        <4> QED BY <3>2, <4>1, <4>2 DEF Followed
      <3> QED BY <3>3, <3>4
    <2> QED BY <1>7, <2>3, <2>4, <2>5, <2>6 DEF ProfileInv
  <1> QED BY <1>10, <1>11

\* One event is recorded.
LEMMA RecordingKeeps ==
  ASSUME ProfileInv, NEW w \in Writers, NEW k \in ProfileKeys, Records(w, k)
  PROVE  ProfileInv'
  <1> DEFINE event == [old |-> seen[w][k], new |-> Result(Head(calls[w]), seen[w])[k]]
             chain == Append(events[k], event)
  <1>0. /\ writer[w] = "recording" /\ k \in owed[w]
        /\ events' = [events EXCEPT ![k] = chain]
        /\ owed' = [owed EXCEPT ![w] = @ \ {k}]
        /\ IF owed[w] = {k} THEN Leaves(w, FALSE) ELSE UNCHANGED <<calls, queue, writer>>
        /\ UNCHANGED <<entries, seen, unrecorded, before, misrolled>>
    BY DEF Records
  <1>1. queue # <<>> /\ Head(queue) = w /\ calls[w] # <<>>
    BY <1>0 DEF ProfileInv, OneUnderWay, Under
  <1>2. \A v \in Writers \ {w} : writer[v] \notin Under /\ owed[v] = {} BY <1>1, OthersWait
  <1>3. ProfileDomains /\ OneUnderWay BY DEF ProfileInv
  <1>4. Head(calls[w]) \in StoreCall /\ seen[w] \in Profiles /\ entries \in Profiles
    <2>1. calls[w] \in Seq(StoreCall) BY <1>3 DEF ProfileDomains
    <2> QED BY <1>1, <1>3, <2>1 DEF ProfileDomains
  <1>5. event.new = entries[k] /\ event.old = seen[w][k] /\ event \in Told
    <2>1. event.new = entries[k] BY <1>0 DEF ProfileInv, RowIsRead
    <2>2. entries[k] \in ProfileValues \cup {Absent} /\ seen[w][k] \in ProfileValues \cup {Absent}
      BY <1>4 DEF Profiles
    <2> QED BY <2>1, <2>2 DEF Told
  <1> HIDE DEF event
  <1>6. events[k] \in Seq(Told) BY <1>3 DEF ProfileDomains
  <1>7. PICK n \in Nat : /\ n = Len(events[k]) /\ DOMAIN events[k] = 1..n
                         /\ (events[k] = <<>>) <=> (n = 0)
    BY <1>6
  <1>8. /\ chain \in Seq(Told) /\ chain # <<>> /\ Len(chain) = n + 1 /\ DOMAIN chain = 1..(n + 1)
        /\ chain[n + 1] = event /\ \A i \in 1..n : chain[i] = events[k][i]
    BY <1>5, <1>6, <1>7
  <1> HIDE DEF chain
  <1>9. events'[k] = chain /\ \A j \in ProfileKeys \ {k} : events'[j] = events[j]
    BY <1>0, <1>3 DEF ProfileDomains
  <1>10. owed'[w] = owed[w] \ {k} /\ \A v \in Writers \ {w} : owed'[v] = {}
    BY <1>0, <1>2, <1>3 DEF ProfileDomains
  <1>11. /\ queue' \in Seq(Writers)
         /\ writer' \in [Writers -> {"idle", "compacting", "queued", "read", "clearing",
                                     "recording"}]
         /\ calls' \in [Writers -> Seq(StoreCall)]
         /\ OneUnderWay'
         /\ writer'[w] \in {"idle", "queued"} \/ (writer'[w] = "recording" /\ calls' = calls)
         /\ \A v \in Writers \ {w} : writer'[v] = writer[v] /\ writer[v] \notin Under
         /\ writer'[w] # "recording" => owed'[w] = {}
    <2>1. CASE owed[w] = {k}
      <3>1. Leaves(w, FALSE) /\ owed'[w] = {} /\ writer[w] \in Under BY <1>0, <1>10, <2>1 DEF Under
      <3>2. /\ queue' \in Seq(Writers)
            /\ writer' \in [Writers -> {"idle", "compacting", "queued", "read", "clearing",
                                        "recording"}]
            /\ calls' \in [Writers -> Seq(StoreCall)]
            /\ OneUnderWay'
            /\ writer'[w] \in {"idle", "queued"}
            /\ \A v \in Writers \ {w} : writer'[v] = writer[v] /\ writer[v] \notin Under
        BY <1>1, <1>3, <3>1, LeavingPassesOn
      <3> QED BY <3>1, <3>2
    <2>2. CASE owed[w] # {k}
      <3>1. UNCHANGED <<calls, queue, writer>> BY <1>0, <2>2
      <3> QED BY <1>0, <1>2, <1>3, <3>1 DEF ProfileDomains, OneUnderWay
    <2> QED BY <2>1, <2>2
  <1>12. ProfileDomains'
    <2>1. events' \in [ProfileKeys -> Seq(Told)] BY <1>0, <1>3, <1>8 DEF ProfileDomains
    <2>2. owed' \in [Writers -> SUBSET ProfileKeys] BY <1>0, <1>3 DEF ProfileDomains
    <2> QED BY <1>0, <1>3, <1>11, <2>1, <2>2 DEF ProfileDomains
  <1>13. RowIsRead'
    <2>1. ASSUME NEW v \in Writers, NEW j \in owed'[v]
          PROVE  /\ entries'[j] = Result(Head(calls[v]), seen[v])'[j]
                 /\ entries'[j] # seen'[v][j]
      <3>1. v = w /\ j \in owed[w] /\ j # k BY <1>10, <2>1
      <3>2. calls' = calls BY <1>11, <2>1, <3>1
      <3>3. j \in ProfileKeys BY <1>3, <3>1 DEF ProfileDomains
      <3>4. entries[j] = Result(Head(calls[w]), seen[w])[j] /\ entries[j] # seen[w][j]
        BY <3>1 DEF ProfileInv, RowIsRead
      <3>5. Head(calls[w]).kind \notin {"rollback", "restore"}
        <4> SUFFICES ASSUME Head(calls[w]).kind \in {"rollback", "restore"} PROVE FALSE OBVIOUS
        <4>1. \A i \in ProfileKeys : i # Head(calls[w]).key =>
                Result(Head(calls[w]), seen[w])[i] = seen[w][i]
          BY <1>3, <1>4, ResultIsRow
        <4>2. entries[k] = Result(Head(calls[w]), seen[w])[k] /\ entries[k] # seen[w][k]
          BY <1>0 DEF ProfileInv, RowIsRead
        <4> QED BY <3>1, <3>3, <3>4, <4>1, <4>2
      <3>6. Result(Head(calls[w]), seen[w])' = Result(Head(calls[w]), seen[w])
        BY <1>0, <3>2, <3>5 DEF Result
      <3> QED BY <1>0, <3>1, <3>4, <3>6
    <2>2. \A v \in Writers : writer'[v] # "read" /\ writer'[v] # "clearing"
      BY <1>11 DEF Under
    <2>3. \A v \in Writers : writer'[v] # "recording" => owed'[v] = {} BY <1>10, <1>11
    <2> QED BY <2>1, <2>2, <2>3 DEF RowIsRead
  <1>14. HistoryTold'
    <2> SUFFICES ASSUME NEW j \in ProfileKeys \ unrecorded PROVE Chained(j)' /\ Followed(j)'
      BY <1>0 DEF HistoryTold
    <2>1. Chained(j) /\ Followed(j) BY DEF ProfileInv, HistoryTold
    <2>2. CASE j = k
      <3>1. LastTold(k) = seen[w][k] /\ before[k] = seen[w][k] BY <1>0, <2>1, <2>2 DEF Followed
      <3>2. LastTold(k)' = entries[k] /\ Began(k)' = before[k]
        BY <1>5, <1>8, <1>9, <3>1 DEF LastTold, Began
      <3>3. Chained(k)'
        <4> SUFFICES ASSUME NEW i \in 1..(n + 1)
                     PROVE  chain[i].old = IF i = 1 THEN Absent ELSE chain[i - 1].new
          BY <1>8, <1>9 DEF Chained
        <4>1. CASE i \in 1..n
          <5>1. events[k][i].old = IF i = 1 THEN Absent ELSE events[k][i - 1].new
            BY <1>7, <2>1, <2>2, <4>1 DEF Chained
          <5>2. i # 1 => i - 1 \in 1..n BY <4>1
          <5> QED BY <1>8, <4>1, <5>1, <5>2
        <4>2. CASE i = n + 1
          <5>1. chain[i].old = LastTold(k) BY <1>5, <1>8, <3>1, <4>2
          <5>2. CASE n = 0 BY <1>7, <4>2, <5>1, <5>2 DEF LastTold
          <5>3. CASE n # 0
            <6>1. i # 1 /\ i - 1 = n /\ n \in 1..n BY <4>2, <5>3
            <6>2. LastTold(k) = events[k][n].new BY <1>7, <5>3 DEF LastTold
            <6> QED BY <1>8, <5>1, <6>1, <6>2
          <5> QED BY <5>2, <5>3
        <4> QED BY <4>1, <4>2
      <3>4. \A v \in Writers : k \notin owed'[v] BY <1>10
      <3> QED BY <1>0, <2>2, <3>2, <3>3, <3>4 DEF Followed
    <2>3. CASE j # k
      <3>1. /\ Chained(j)' = Chained(j) /\ LastTold(j)' = LastTold(j) /\ Began(j)' = Began(j)
        BY <1>9, <2>3 DEF Chained, LastTold, Began
      <3>2. \A v \in Writers : j \in owed'[v] <=> j \in owed[v] BY <1>2, <1>10, <2>3
      <3>3. \A v \in Writers : writer[v] # "clearing" BY <1>0, <1>2 DEF Under
      <3> QED BY <1>0, <2>1, <3>1, <3>2, <3>3 DEF Followed
    <2> QED BY <2>2, <2>3
  <1> QED BY <1>0, <1>11, <1>12, <1>13, <1>14 DEF ProfileInv

\* What an error or a restart leaves untold is counted as such.
LEMMA FailingKeeps ==
  ASSUME ProfileInv, (\E w \in Writers : CallFails(w)) \/ ProfileRestart
  PROVE  ProfileInv'
  <1>0. /\ UNCHANGED <<entries, events, seen, before, misrolled>>
        /\ owed' \in [Writers -> SUBSET ProfileKeys]
        /\ ProfileDomains /\ OneUnderWay
    BY DEF CallFails, ProfileRestart, ProfileInv, ProfileDomains
  <1>1. /\ queue' \in Seq(Writers)
        /\ writer' \in [Writers -> {"idle", "compacting", "queued", "read", "clearing",
                                    "recording"}]
        /\ calls' \in [Writers -> Seq(StoreCall)]
        /\ OneUnderWay'
        /\ \A v \in Writers : writer'[v] \notin Under
        /\ \A v \in Writers : owed'[v] = {}
        /\ unrecorded' = unrecorded \cup UNION {Untold(w) : w \in Writers}
    <2>1. ASSUME NEW w \in Writers, CallFails(w)
          PROVE  /\ queue' \in Seq(Writers)
                 /\ writer' \in [Writers -> {"idle", "compacting", "queued", "read", "clearing",
                                             "recording"}]
                 /\ calls' \in [Writers -> Seq(StoreCall)]
                 /\ OneUnderWay'
                 /\ \A v \in Writers : writer'[v] \notin Under
                 /\ \A v \in Writers : owed'[v] = {}
                 /\ unrecorded' = unrecorded \cup UNION {Untold(v) : v \in Writers}
      <3>1. /\ writer[w] \in Under \cup {"queued"} /\ Head(queue) = w
            /\ unrecorded' = unrecorded \cup Untold(w)
            /\ owed' = [owed EXCEPT ![w] = {}] /\ Leaves(w, TRUE)
        BY <2>1 DEF CallFails, HasTurn, Under
      <3>2. queue # <<>>
        <4>1. CASE writer[w] \in Under BY <1>0, <4>1 DEF OneUnderWay
        <4>2. CASE writer[w] = "queued"
          <5>1. PICK i \in DOMAIN queue : queue[i] = w BY <1>0, <4>2 DEF OneUnderWay
          <5> QED BY <5>1
        <4> QED BY <3>1, <4>1, <4>2
      <3>3. /\ queue' \in Seq(Writers)
            /\ writer' \in [Writers -> {"idle", "compacting", "queued", "read", "clearing",
                                        "recording"}]
            /\ calls' \in [Writers -> Seq(StoreCall)]
            /\ OneUnderWay'
            /\ writer'[w] \in {"idle", "queued"}
            /\ \A v \in Writers \ {w} : writer'[v] = writer[v] /\ writer[v] \notin Under
        BY <1>0, <3>1, <3>2, LeavingPassesOn
      <3>4. \A v \in Writers \ {w} : writer[v] \notin Under /\ owed[v] = {}
        BY <3>1, <3>2, OthersWait
      <3>5. \A v \in Writers \ {w} : Untold(v) = {} BY <3>4 DEF Untold, Under
      <3>6. unrecorded' = unrecorded \cup UNION {Untold(v) : v \in Writers}
        BY <3>1, <3>5
      <3>7. \A v \in Writers : owed'[v] = {} BY <1>0, <3>1, <3>4 DEF ProfileDomains
      <3>8. \A v \in Writers : writer'[v] \notin Under BY <3>3 DEF Under
      <3> QED BY <3>3, <3>6, <3>7, <3>8
    <2>2. CASE ProfileRestart
      BY <2>2 DEF ProfileRestart, OneUnderWay, Under
    <2> QED BY <2>1, <2>2
  <1>2. ProfileDomains' BY <1>0, <1>1 DEF ProfileDomains
  <1>3. RowIsRead' BY <1>1 DEF RowIsRead, Under
  <1>4. HistoryTold'
    <2> SUFFICES ASSUME NEW k \in ProfileKeys \ unrecorded' PROVE Chained(k)' /\ Followed(k)'
      BY DEF HistoryTold
    <2>1. k \notin unrecorded /\ \A w \in Writers : k \notin Untold(w) BY <1>1
    <2>2. Chained(k) /\ Followed(k) BY <2>1 DEF ProfileInv, HistoryTold
    <2>3. LastTold(k) = entries[k] /\ Began(k) = before[k]
      <3>1. \A w \in Writers : k \notin owed[w] BY <2>1 DEF Untold
      <3>2. CASE \A w \in Writers : writer[w] # "clearing" BY <2>2, <3>1, <3>2 DEF Followed
      <3>3. ASSUME NEW w \in Writers, writer[w] = "clearing"
            PROVE  LastTold(k) = entries[k] /\ Began(k) = before[k]
        <4>1. before = entries /\ events[k] = <<>> BY <3>3 DEF ProfileInv, RowIsRead
        <4>2. entries[k] = Absent BY <2>1, <3>3 DEF Untold
        <4> QED BY <4>1, <4>2 DEF LastTold, Began
      <3> QED BY <3>2, <3>3
    <2> QED BY <1>0, <1>1, <2>2, <2>3 DEF Chained, Followed, LastTold, Began
  <1> QED BY <1>0, <1>1, <1>2, <1>3, <1>4 DEF ProfileInv

\* Every step keeps it.
LEMMA ProfileStep == ProfileInv /\ [ProfileNext]_profileVars => ProfileInv'
  <1> SUFFICES ASSUME ProfileInv, [ProfileNext]_profileVars PROVE ProfileInv' OBVIOUS
  <1>1. ASSUME NEW w \in Writers, NEW call \in Facts \cup {Clear}, ToolCall(w, call)
        PROVE  ProfileInv'
    <2>1. <<call>> \in Seq(StoreCall) /\ <<call>> # <<>> BY DEF StoreCall
    <2> QED BY <1>1, <2>1, CallIsQueued DEF ToolCall
  <1>2. ASSUME NEW w \in Writers, NEW fact1 \in Facts, NEW fact2 \in Facts,
               IngestCall(w, fact1, fact2)
        PROVE  ProfileInv'
    <2>1. <<fact1, fact2>> \in Seq(StoreCall) /\ <<fact1, fact2>> # <<>> BY DEF StoreCall
    <2> QED BY <1>2, <2>1, CallIsQueued DEF IngestCall
  <1>3. ASSUME NEW w \in Writers, NEW facts \in Profiles, CompactAnswers(w, facts)
        PROVE  ProfileInv'
    <2> DEFINE list == <<[kind |-> "replace", with |-> facts]>>
    <2>1. list \in Seq(StoreCall) /\ list # <<>> BY DEF StoreCall
    <2>2. StoreCalls(w, list) /\ writer[w] = "compacting" BY <1>3 DEF CompactAnswers
    <2> HIDE DEF list
    <2> QED BY <2>1, <2>2, CallIsQueued
  <1>4. ASSUME NEW w \in Writers, CompactBegins(w) \/ ReadsRow(w) PROVE ProfileInv'
    BY <1>4, BeginningKeeps
  <1>5. ASSUME NEW w \in Writers, ClearsEvents(w) \/ ClearsRow(w) PROVE ProfileInv'
    BY <1>5, ClearingKeeps
  <1>6. ASSUME NEW w \in Writers, WritesRow(w) PROVE ProfileInv' BY <1>6, WritingKeeps
  <1>7. ASSUME NEW w \in Writers, NEW k \in ProfileKeys, Records(w, k) PROVE ProfileInv'
    BY <1>7, RecordingKeeps
  <1>8. CASE (\E w \in Writers : CallFails(w)) \/ ProfileRestart BY <1>8, FailingKeeps
  <1>9. CASE UNCHANGED profileVars
    <2>1. ProfileDomains' /\ OneUnderWay' /\ HistoryTold' /\ misrolled' = FALSE
      BY <1>9 DEF profileVars, ProfileInv, ProfileDomains, OneUnderWay, HistoryTold, Chained,
                  Followed, LastTold, Began
    <2>2. RowIsRead'
      BY <1>9 DEF profileVars, ProfileInv, RowIsRead, Result, RolledBack, RollbackTarget, Restored,
                  RestoreTarget, ListHistory
    <2> QED BY <2>1, <2>2 DEF ProfileInv
  <1> QED BY <1>1, <1>2, <1>3, <1>4, <1>5, <1>6, <1>7, <1>8, <1>9 DEF ProfileNext

\* Nobody was told anything.
LEMMA ProfileInitially == ProfileInit => ProfileInv
  <1> SUFFICES ASSUME ProfileInit PROVE ProfileInv OBVIOUS
  <1>1. Nobody \in Profiles BY DEF Nobody, Profiles
  <1>2. ProfileDomains BY <1>1 DEF ProfileInit, ProfileDomains
  <1>3. OneUnderWay /\ RowIsRead BY DEF ProfileInit, OneUnderWay, RowIsRead, Under
  <1>4. HistoryTold
    BY DEF ProfileInit, HistoryTold, Chained, Followed, LastTold, Began, Nobody
  <1> QED BY <1>2, <1>3, <1>4 DEF ProfileInit, ProfileInv

\* The history of a key is a chain that ends where the entry is, up to what the call
\* under way has yet to insert, and a rollback takes back the last change, except for
\* keys whose event was lost to an error or a restart.
THEOREM HistoryIsComplete == ProfileSpec => []HistoryReplays
  <1>1. ProfileInv => HistoryReplays
    <2> SUFFICES ASSUME ProfileInv, NEW k \in ProfileKeys \ unrecorded
                 PROVE  /\ Chained(k)
                        /\ (\A w \in Writers : k \notin owed[w] /\ writer[w] # "clearing") =>
                             LastTold(k) = entries[k]
                        /\ \A w \in Writers : k \in owed[w] => LastTold(k) = seen[w][k]
                        /\ misrolled = FALSE
      BY DEF HistoryReplays, Chained, LastTold
    <2> QED BY DEF ProfileInv, HistoryTold, Followed
  <1> QED BY <1>1, ProfileInitially, ProfileStep, PTL DEF ProfileSpec

\* What ProfileDomains leaves out.
ProfileRest ==
  /\ writes \in 0..MaxWrites /\ profileFaults \in 0..MaxProfileFaults
  /\ unrecorded \subseteq ProfileKeys

\* The profile's variables keep to their domains (ProfileTypeOK).
LEMMA ProfileIsTyped == ProfileSpec => []ProfileTypeOK
  <1> USE ProfileAssumption
  <1>1. ProfileInit => ProfileRest BY DEF ProfileInit, ProfileRest
  <1>2. ProfileInv /\ ProfileRest /\ [ProfileNext]_profileVars => ProfileRest'
    <2> SUFFICES ASSUME ProfileInv, ProfileRest, [ProfileNext]_profileVars PROVE ProfileRest'
      OBVIOUS
    <2>0. /\ ProfileDomains /\ \A w \in Writers : Untold(w) \subseteq ProfileKeys
      BY DEF ProfileInv, ProfileDomains, Untold
    <2>1. ASSUME NEW w \in Writers, NEW list, Len(list) \in Nat, StoreCalls(w, list)
          PROVE  ProfileRest'
      BY <2>1 DEF StoreCalls, ProfileRest
    <2>2. CASE UNCHANGED <<writes, profileFaults>> /\ (UNCHANGED unrecorded \/ unrecorded' = {})
      BY <2>2 DEF ProfileRest
    <2>3. ASSUME NEW w \in Writers, CallFails(w) PROVE ProfileRest'
      BY <2>0, <2>3 DEF CallFails, ProfileRest
    <2>4. CASE ProfileRestart
      BY <2>0, <2>4 DEF ProfileRestart, ProfileRest
    <2>5. ASSUME NEW w \in Writers, NEW call, ToolCall(w, call) PROVE ProfileRest'
      BY <2>1, <2>5 DEF ToolCall
    <2>6. ASSUME NEW w \in Writers, NEW fact1, NEW fact2, IngestCall(w, fact1, fact2)
          PROVE  ProfileRest'
      BY <2>1, <2>6 DEF IngestCall
    <2>7. ASSUME NEW w \in Writers, NEW facts, CompactAnswers(w, facts) PROVE ProfileRest'
      BY <2>1, <2>7 DEF CompactAnswers
    <2>8. ASSUME NEW w \in Writers,
                 \/ CompactBegins(w) \/ ReadsRow(w) \/ WritesRow(w) \/ ClearsEvents(w)
                 \/ ClearsRow(w)
                 \/ \E k \in ProfileKeys : Records(w, k)
          PROVE  ProfileRest'
      BY <2>2, <2>8
      DEF CompactBegins, ReadsRow, WritesRow, ClearsEvents, ClearsRow, Records
    <2>9. CASE UNCHANGED profileVars BY <2>2, <2>9 DEF profileVars
    <2> QED BY <2>3, <2>4, <2>5, <2>6, <2>7, <2>8, <2>9 DEF ProfileNext
  <1>3. ProfileInv /\ ProfileRest => ProfileTypeOK
    <2> SUFFICES ASSUME ProfileInv, ProfileRest PROVE ProfileTypeOK OBVIOUS
    <2>0. ProfileDomains /\ misrolled \in BOOLEAN BY DEF ProfileInv
    <2>1. ASSUME NEW k \in ProfileKeys, NEW i \in DOMAIN events[k]
          PROVE  {events[k][i].old, events[k][i].new} \subseteq ProfileValues \cup {Absent}
      <3>1. events[k] \in Seq(Told) BY <2>0 DEF ProfileDomains
      <3>2. events[k][i] \in Told BY <3>1
      <3> QED BY <3>2 DEF Told
    <2> QED BY <2>0, <2>1 DEF ProfileDomains, ProfileRest, ProfileTypeOK
  <1> QED BY <1>1, <1>2, <1>3, ProfileInitially, ProfileStep, PTL DEF ProfileSpec

(***************************************************************************)
(* What is spoken on a voice connection is in the history, in order and    *)
(* once, for any number of turns.                                          *)
(***************************************************************************)
\* The stages in which a turn is in the session's queue, and those in which it is first.
Queued ==
  {"queued", "opening", "thinking", "speaking", "voicing", "calling", "storing", "failing"}
Begun == {"opening", "thinking", "speaking", "voicing", "calling", "storing", "failing"}

\* Those in which it answers, its question stored; and those in which that was.
Answering == {"thinking", "speaking", "voicing", "calling", "storing", "failing"}
Asked == {"thinking", "speaking", "voicing", "calling", "storing", "failing", "tail", "over"}

\* Turns are numbered as they are heard, and each stands in the queue once, from when it is
\* opened until its reply is stored or it ends; the one that began is the first.
QueueInv ==
  /\ \A u \in Turns : turn[u] = "none" <=> u > heardTurns
  /\ \A u \in Turns : turn[u] \in Queued <=> \E i \in DOMAIN line : line[i] = u
  /\ \A i, j \in DOMAIN line : line[i] = line[j] => i = j
  /\ \A u \in Turns : turn[u] \in Begun => line # <<>> /\ line[1] = u

\* Leaving the queue takes out the one that leaves, who was the first if he was in it.
LEMMA LeftLine ==
  ASSUME line \in Seq(Turns), \A i, j \in DOMAIN line : line[i] = line[j] => i = j,
         NEW u \in Turns, (\E i \in DOMAIN line : line[i] = u) => line # <<>> /\ line[1] = u
  PROVE  /\ Left(u) \in Seq(Turns)
         /\ \A v \in Turns : (\E i \in DOMAIN Left(u) : Left(u)[i] = v) <=>
                             v # u /\ (\E i \in DOMAIN line : line[i] = v)
         /\ \A i, j \in DOMAIN Left(u) : Left(u)[i] = Left(u)[j] => i = j
         /\ \A v \in Turns : v # u /\ line # <<>> /\ line[1] = v => Left(u) = line
  <1>1. CASE line # <<>> /\ line[1] = u
    <2>1. Left(u) = Tail(line) BY <1>1 DEF Left
    <2>2. Tail(line) \in Seq(Turns) /\ Len(Tail(line)) = Len(line) - 1 /\ Len(line) \in Nat \ {0}
      BY <1>1
    <2>3. \A i \in 1..Len(Tail(line)) : Tail(line)[i] = line[i + 1]
      BY <1>1
    <2>4. ASSUME NEW v \in Turns, NEW i \in DOMAIN line, line[i] = v, v # u
          PROVE \E k \in DOMAIN Tail(line) : Tail(line)[k] = v
      <3>1. i \in 2..Len(line) BY <2>4, <1>1
      <3>2. i - 1 \in 1..Len(Tail(line)) /\ Tail(line)[i - 1] = v
        BY <3>1, <2>2, <2>3, <2>4
      <3> QED BY <3>2, <2>2
    <2>5. ASSUME NEW i \in DOMAIN Tail(line)
          PROVE i + 1 \in DOMAIN line /\ Tail(line)[i] = line[i + 1] /\ Tail(line)[i] # u
      <3>1. i \in 1..Len(Tail(line)) BY <2>2
      <3>2. i + 1 \in DOMAIN line /\ Tail(line)[i] = line[i + 1] BY <3>1, <2>2, <2>3
      <3>3. 1 \in DOMAIN line /\ i + 1 # 1 BY <3>1, <2>2
      <3> QED BY <3>2, <3>3, <1>1
    <2>6. \A i, j \in DOMAIN Tail(line) : Tail(line)[i] = Tail(line)[j] => i = j
      <3>1. TAKE i, j \in DOMAIN Tail(line)
      <3>2. HAVE Tail(line)[i] = Tail(line)[j]
      <3>3. i + 1 = j + 1 BY <3>2, <2>5
      <3> QED BY <3>3, <2>2
    <2>7. \A v \in Turns : (\E i \in DOMAIN Tail(line) : Tail(line)[i] = v) <=>
                             v # u /\ (\E i \in DOMAIN line : line[i] = v)
      BY <2>4, <2>5
    <2>8. \A v \in Turns : v # u /\ line # <<>> /\ line[1] = v => Tail(line) = line
      BY <1>1
    <2> QED BY <2>1, <2>2, <2>6, <2>7, <2>8
  <1>2. CASE ~(line # <<>> /\ line[1] = u)
    <2>1. Left(u) = line BY <1>2 DEF Left
    <2> QED BY <2>1, <1>2
  <1> QED BY <1>1, <1>2

\* Joining the queue puts the newcomer behind the others.
LEMMA JoinedLine ==
  ASSUME line \in Seq(Turns), \A i, j \in DOMAIN line : line[i] = line[j] => i = j,
         NEW u \in Turns, ~\E i \in DOMAIN line : line[i] = u
  PROVE  /\ Append(line, u) \in Seq(Turns)
         /\ \A v \in Turns : (\E i \in DOMAIN Append(line, u) : Append(line, u)[i] = v) <=>
                             v = u \/ (\E i \in DOMAIN line : line[i] = v)
         /\ \A i, j \in DOMAIN Append(line, u) : Append(line, u)[i] = Append(line, u)[j] => i = j
         /\ line # <<>> => Append(line, u) # <<>> /\ Append(line, u)[1] = line[1]
  <1>1. /\ Append(line, u) \in Seq(Turns) /\ Len(Append(line, u)) = Len(line) + 1
        /\ Len(line) \in Nat
    OBVIOUS
  <1>2. \A i \in DOMAIN line : i \in 1..Len(line) /\ Append(line, u)[i] = line[i]
    OBVIOUS
  <1>3. Append(line, u)[Len(line) + 1] = u OBVIOUS
  <1>4. \A i \in DOMAIN Append(line, u) : i \in DOMAIN line \/ i = Len(line) + 1
    BY <1>1
  <1>5. DOMAIN line \subseteq DOMAIN Append(line, u) /\ Len(line) + 1 \in DOMAIN Append(line, u)
    BY <1>1
  <1>6. \A v \in Turns : (\E i \in DOMAIN Append(line, u) : Append(line, u)[i] = v) <=>
                             v = u \/ (\E i \in DOMAIN line : line[i] = v)
    BY <1>2, <1>3, <1>4, <1>5
  <1>7. \A i, j \in DOMAIN Append(line, u) : Append(line, u)[i] = Append(line, u)[j] => i = j
    BY <1>2, <1>3, <1>4
  <1>8. line # <<>> => 1 \in DOMAIN line /\ Append(line, u) # <<>> OBVIOUS
  <1> QED BY <1>1, <1>2, <1>6, <1>7, <1>8

\* The active turn is on its way; one that is aborted was; what was spoken belongs to a turn
\* that speaks or did; and a turn waits only for one that was interrupted, until what was
\* spoken of it is stored.
ActiveInv ==
  /\ activeTask # 0 => turn[activeTask] \in Queued \cup {"tail"} /\ activeTask \notin aborted
  /\ \A u \in aborted : turn[u] \notin {"none", "waiting", "dropped"}
  /\ \A u \in spoken : turn[u] \in Asked
  /\ \A u, v \in Turns : waitsFor[v] = u =>
       /\ u \in aborted /\ turn[v] # "none"
       /\ partial[u] = "writing" => turn[v] = "waiting"

\* The place of u's question in the history.
UserRow(i, u) == i \in DOMAIN rows /\ rows[i] = <<"user", u>>

\* A turn is in the history from its question on: that is the last one while it answers;
\* and it is there while the partial reply is written, before those that do not wait for it.
RowsInv ==
  /\ \A i \in DOMAIN rows : turn[rows[i][2]] \in Asked
  /\ \A u \in Turns : turn[u] \in Answering =>
       \E i \in DOMAIN rows : UserRow(i, u) /\ \A k \in DOMAIN rows : k > i => rows[k][1] # "user"
  /\ \A u \in Turns : u \in spoken \/ turn[u] = "tail" => \E i \in DOMAIN rows : UserRow(i, u)
  /\ \A u \in Turns : partial[u] = "writing" =>
       \E i \in DOMAIN rows : UserRow(i, u) /\ \A k \in DOMAIN rows :
          k > i /\ rows[k][1] = "user" => waitsFor[rows[k][2]] # u

\* The turns of which more or less than what was spoken may be stored.
Ruined == lateStop \cup spoiled

\* What of u's reply is stored, and when.
ReplyKept(u) ==
  /\ partial[u] # "none" => u \in aborted /\ u \in spoken
  /\ u \in aborted /\ (u \in allIn \/ Has("calls", u)) => u \in Ruined
  /\ turn[u] \in {"calling", "storing"} => u \in allIn
  /\ Has("reply", u) => /\ turn[u] \in {"tail", "over"} /\ (turn[u] = "tail" => u \in allIn)
                        /\ u \in aborted => u \in Ruined
  /\ Has("partial", u) => partial[u] = "over"
  /\ turn[u] = "tail" /\ u \notin aborted /\ u \notin spoiled =>
       Has("reply", u) \/ Has("calls", u)
  /\ u \in aborted \cap spoken /\ u \notin spoiled => partial[u] # "none"
  /\ partial[u] = "over" /\ u \notin spoiled => Has("partial", u)
  /\ u \in spoken /\ turn[u] = "over" /\ partial[u] # "writing" /\ u \notin Ruined =>
       Has("reply", u) \/ Has("partial", u) \/ Has("calls", u)

\* And no reply, whole or partial, twice.
StoredInv ==
  /\ \A u \in Turns : ReplyKept(u)
  /\ \A i, j \in DOMAIN rows :
       rows[i] = rows[j] /\ rows[i][1] \in {"partial", "reply"} => i = j

\* The steps of u's turn that write nothing while it answers.
Talks(u) ==
  \/ RoundBegins(u) \/ AllReceived(u) \/ SentenceBegins(u) \/ SentenceSpoken(u)
  \/ CallsComplete(u) \/ ClaimRefused(u) \/ LastToken(u) \/ StreamFails(u)

\* What holds in every state of a voice connection.
SpeechInv ==
  /\ CascadeTypeOK /\ QueueInv /\ ActiveInv /\ RowsInv /\ StoredInv /\ HistoryInOrder
  /\ RecogniserIsClosed

\* Nothing was heard.
LEMMA SpeechInitially == CascadeInit => SpeechInv
  <1> SUFFICES ASSUME CascadeInit PROVE SpeechInv OBVIOUS
  <1> USE VoiceCascadeAssumption DEF CascadeInit, Turns
  <1>1. CascadeTypeOK
    <2>1. line \in Seq(Turns) /\ rows \in Seq(RowKinds \X Turns) OBVIOUS
    <2>2. aborted \cup allIn \cup spoken \cup lateStop \cup spoiled \subseteq Turns OBVIOUS
    <2>3. /\ turn \in [Turns -> Stages] /\ waitsFor \in [Turns -> {0} \cup Turns]
          /\ partial \in [Turns -> {"none", "writing", "over"}]
      BY DEF Stages
    <2>4. /\ asr \in {"starting", "ready", "failed"} /\ asrOpen \in BOOLEAN
          /\ unheard \in BOOLEAN
      OBVIOUS
    <2>5. heardTurns \in 0..NumTurns /\ activeTask \in {0} \cup Turns OBVIOUS
    <2> QED BY <2>1, <2>2, <2>3, <2>4, <2>5 DEF CascadeTypeOK
  <1>2. QueueInv BY DEF QueueInv, Queued, Begun
  <1>3. ActiveInv BY DEF ActiveInv
  <1>4. RowsInv BY DEF RowsInv, Answering
  <1>5. StoredInv BY DEF StoredInv, ReplyKept, Has
  <1>6. HistoryInOrder BY DEF HistoryInOrder
  <1>7. RecogniserIsClosed BY DEF RecogniserIsClosed
  <1> QED BY <1>1, <1>2, <1>3, <1>4, <1>5, <1>6, <1>7 DEF SpeechInv

\* A final transcript is a new turn's.
LEMMA NextTurn ==
  ASSUME SpeechInv, heardTurns < NumTurns
  PROVE  heardTurns + 1 \in Turns /\ turn[heardTurns + 1] = "none"
  BY VoiceCascadeAssumption DEF SpeechInv, CascadeTypeOK, QueueInv, Turns

\* An interrupted turn is marked as one.
LEMMA InterruptedTypes ==
  ASSUME SpeechInv, activeTask # 0, Interrupted
  PROVE  /\ activeTask \in Turns
         /\ aborted' \subseteq Turns /\ lateStop' \subseteq Turns
         /\ partial' \in [Turns -> {"none", "writing", "over"}]
  BY DEF SpeechInv, CascadeTypeOK, Interrupted

\* A turn that is run is in its domain.
LEMMA RunsTypes ==
  ASSUME SpeechInv, NEW v \in Turns, NEW a \in {0} \cup Turns, Runs(v, a)
  PROVE  turn' \in [Turns -> Stages] /\ activeTask' \in {0} \cup Turns /\ line' \in Seq(Turns)
  <1>1. turn \in [Turns -> Stages] /\ line \in Seq(Turns) BY DEF SpeechInv, CascadeTypeOK
  <1>2. CASE a # 0 BY <1>1, <1>2 DEF Runs, Stages
  <1>3. CASE a = 0 BY <1>1, <1>3 DEF Runs, Stages
  <1> QED BY <1>2, <1>3

\* So is one that ends.
LEMMA EndsTypes ==
  ASSUME SpeechInv, NEW u \in Turns, Left(u) \in Seq(Turns), Ends(u)
  PROVE  turn' \in [Turns -> Stages] /\ activeTask' \in {0} \cup Turns /\ line' \in Seq(Turns)
  BY DEF SpeechInv, CascadeTypeOK, Ends, Stages

\* Who leaves the queue was the first of it, or is not in it any more.
LEMMA LeavesFirst ==
  ASSUME SpeechInv, NEW u \in Turns, turn[u] \in Begun \cup {"tail"}
  PROVE  /\ Left(u) \in Seq(Turns)
         /\ \A v \in Turns : (\E i \in DOMAIN Left(u) : Left(u)[i] = v) <=>
                             v # u /\ (\E i \in DOMAIN line : line[i] = v)
         /\ \A i, j \in DOMAIN Left(u) : Left(u)[i] = Left(u)[j] => i = j
         /\ \A v \in Turns : v # u /\ line # <<>> /\ line[1] = v => Left(u) = line
  <1>1. line \in Seq(Turns) /\ \A i, j \in DOMAIN line : line[i] = line[j] => i = j
    BY DEF SpeechInv, CascadeTypeOK, QueueInv
  <1>2. ASSUME \E i \in DOMAIN line : line[i] = u PROVE line # <<>> /\ line[1] = u
    <2>1. turn[u] \in Queued BY <1>2 DEF SpeechInv, QueueInv
    <2>2. turn[u] \in Begun BY <2>1 DEF Queued, Begun
    <2> QED BY <2>2 DEF SpeechInv, QueueInv
  <1> HIDE DEF SpeechInv
  <1> QED BY <1>1, <1>2, LeftLine

\* What they do to the turn, and what they leave alone.
LEMMA TalksMove ==
  ASSUME CascadeTypeOK, NEW u \in Turns, Talks(u)
  PROVE  /\ turn[u] \in Answering /\ \E s \in Answering : turn' = [turn EXCEPT ![u] = s]
         /\ allIn' \subseteq allIn \cup {u} /\ spoken' \subseteq spoken \cup {u}
         /\ spoiled' \subseteq spoiled \cup {u}
         /\ \A w \in Turns : w # u => /\ turn'[w] = turn[w]
                                      /\ w \in allIn' <=> w \in allIn
                                      /\ w \in spoken' <=> w \in spoken
                                      /\ w \in spoiled' <=> w \in spoiled
         /\ rows' = rows /\ line' = line /\ partial' = partial /\ waitsFor' = waitsFor
         /\ aborted' = aborted /\ lateStop' = lateStop /\ heardTurns' = heardTurns
         /\ activeTask' = activeTask /\ UNCHANGED ears
  <1>1. turn \in [Turns -> Stages] BY DEF CascadeTypeOK
  <1>2. CASE AllReceived(u) \/ ClaimRefused(u)
    <2>1. turn[u] \in Answering /\ turn' = turn
      BY <1>2 DEF AllReceived, ClaimRefused, Answering
    <2>2. turn' = [turn EXCEPT ![u] = turn[u]] BY <1>1, <2>1
    <2> QED BY <1>2, <2>1, <2>2 DEF AllReceived, ClaimRefused, quiet, ears
  <1>3. CASE RoundBegins(u) \/ SentenceBegins(u) \/ SentenceSpoken(u) \/ CallsComplete(u)
              \/ LastToken(u) \/ StreamFails(u)
    <2>1. turn[u] \in Answering /\ \E s \in Answering : turn' = [turn EXCEPT ![u] = s]
      BY <1>3 DEF RoundBegins, SentenceBegins, SentenceSpoken, CallsComplete, LastToken,
                  StreamFails, Answering
    <2>2. /\ allIn' = allIn /\ spoken' \subseteq spoken \cup {u} /\ spoken \subseteq spoken'
          /\ spoiled' = spoiled /\ rows' = rows /\ line' = line /\ UNCHANGED quiet
      BY <1>3 DEF RoundBegins, SentenceBegins, SentenceSpoken, CallsComplete, LastToken,
                  StreamFails
    <2> QED BY <1>1, <2>1, <2>2 DEF quiet, ears
  <1> QED BY <1>2, <1>3 DEF Talks

\* Every step keeps the variables to their domains.
LEMMA CascadeTypeKept == SpeechInv /\ CascadeNext => CascadeTypeOK'
  <1> SUFFICES ASSUME SpeechInv, CascadeNext PROVE CascadeTypeOK' OBVIOUS
  <1>0. CascadeTypeOK BY DEF SpeechInv
  <1>1. CASE AsrReady \/ AsrFails \/ AsrCloses \/ SocketCloses
    <2>1. /\ heardTurns' = heardTurns /\ turn' = turn /\ waitsFor' = waitsFor /\ rows' = rows
          /\ partial' = partial /\ line' = line /\ allIn' = allIn /\ spoken' = spoken
          /\ lateStop' = lateStop
      BY <1>1 DEF AsrReady, AsrFails, AsrCloses, SocketCloses, GivenUp, chatting
    <2>2. /\ activeTask' \in {0} \cup Turns /\ aborted' \subseteq Turns /\ spoiled' \subseteq Turns
      BY <1>0, <1>1
         DEF AsrReady, AsrFails, AsrCloses, SocketCloses, GivenUp, chatting, CascadeTypeOK
    <2>3. asr' \in {"starting", "ready", "failed"} /\ asrOpen' \in BOOLEAN /\ unheard' \in BOOLEAN
      BY <1>0, <1>1 DEF AsrReady, AsrFails, AsrCloses, SocketCloses, CascadeTypeOK
    <2> QED BY <1>0, <2>1, <2>2, <2>3 DEF CascadeTypeOK
  <1>2. CASE FinalWhenIdle
    <2>1. heardTurns < NumTurns /\ Runs(heardTurns + 1, 0) /\ heardTurns' = heardTurns + 1
      BY <1>2 DEF FinalWhenIdle, Hears
    <2>2. turn' \in [Turns -> Stages] /\ activeTask' \in {0} \cup Turns /\ line' \in Seq(Turns)
      BY <2>1, NextTurn, RunsTypes
    <2> QED BY <1>0, <1>2, <2>1, <2>2, VoiceCascadeAssumption
            DEF FinalWhenIdle, CascadeTypeOK, ears
  <1>3. CASE FinalInterrupts
    <2>1. /\ heardTurns < NumTurns /\ heardTurns' = heardTurns + 1 /\ activeTask # 0
          /\ Interrupted
      BY <1>3 DEF FinalInterrupts, Hears
    <2>2. /\ heardTurns + 1 \in Turns /\ activeTask \in Turns
          /\ aborted' \subseteq Turns /\ lateStop' \subseteq Turns
          /\ partial' \in [Turns -> {"none", "writing", "over"}]
      BY <2>1, NextTurn, InterruptedTypes
    <2>3. /\ turn' \in [Turns -> Stages] /\ activeTask' \in {0} \cup Turns /\ line' \in Seq(Turns)
          /\ waitsFor' \in [Turns -> {0} \cup Turns]
      <3>1. CASE activeTask \in spoken
        BY <1>0, <1>3, <2>1, <2>2, <3>1 DEF FinalInterrupts, CascadeTypeOK, Stages
      <3>2. CASE activeTask \notin spoken
        <4>1. Runs(heardTurns + 1, 0) /\ waitsFor' = waitsFor
          BY <1>3, <2>1, <3>2 DEF FinalInterrupts, Hears
        <4> QED BY <1>0, <4>1, <2>2, RunsTypes DEF CascadeTypeOK
      <3> QED BY <3>1, <3>2
    <2>4. /\ spoken' = spoken /\ spoiled' = spoiled /\ rows' = rows /\ allIn' = allIn
          /\ UNCHANGED ears
      BY <1>3 DEF FinalInterrupts, Hears
    <2>5. heardTurns' \in 0..NumTurns
      BY <1>0, <2>1, VoiceCascadeAssumption DEF CascadeTypeOK
    <2>6. aborted' \cup allIn' \cup spoken' \cup lateStop' \cup spoiled' \subseteq Turns
      BY <1>0, <2>2, <2>4 DEF CascadeTypeOK
    <2> QED BY <1>0, <2>2, <2>3, <2>4, <2>5, <2>6 DEF CascadeTypeOK, ears
  <1>4. CASE BargeIn
    <2>1. activeTask # 0 /\ Interrupted BY <1>4 DEF BargeIn
    <2> QED BY <1>0, <1>4, <2>1, InterruptedTypes DEF BargeIn, CascadeTypeOK, ears
  <1>5. ASSUME NEW u \in Turns, NEW saved \in BOOLEAN, PartialWritten(u, saved)
        PROVE CascadeTypeOK'
    <2>1. turn' \in [Turns -> Stages] /\ activeTask' \in {0} \cup Turns /\ line' \in Seq(Turns)
      <3>1. CASE \E v \in Turns : waitsFor[v] = u /\ turn[v] = "waiting"
        <4>1. PICK v \in Turns : Runs(v, activeTask) BY <3>1, <1>5 DEF PartialWritten
        <4> QED BY <4>1, <1>0, RunsTypes DEF CascadeTypeOK
      <3>2. CASE ~\E v \in Turns : waitsFor[v] = u /\ turn[v] = "waiting"
        BY <1>0, <3>2, <1>5 DEF PartialWritten, CascadeTypeOK
      <3> QED BY <3>1, <3>2
    <2>2. rows' \in Seq(RowKinds \X Turns)
      BY <1>0, <1>5 DEF PartialWritten, CascadeTypeOK, RowKinds
    <2> QED BY <1>0, <1>5, <2>1, <2>2 DEF PartialWritten, CascadeTypeOK, ears
  <1>6. ASSUME NEW u \in Turns, TurnBegins(u) \/ QuestionStored(u) PROVE CascadeTypeOK'
    <2>1. turn' \in [Turns -> Stages]
      BY <1>0, <1>6 DEF TurnBegins, QuestionStored, CascadeTypeOK, Stages
    <2>2. rows' \in Seq(RowKinds \X Turns)
      <3>1. rows' = rows \/ rows' = Append(rows, <<"user", u>>)
        BY <1>6 DEF TurnBegins, QuestionStored
      <3>2. <<"user", u>> \in RowKinds \X Turns BY DEF RowKinds
      <3>3. rows \in Seq(RowKinds \X Turns) BY <1>0 DEF CascadeTypeOK
      <3> HIDE <1>6
      <3> QED BY <3>1, <3>2, <3>3
    <2>3. /\ line' = line /\ allIn' = allIn /\ spoken' = spoken /\ spoiled' = spoiled
          /\ UNCHANGED quiet
      BY <1>6 DEF TurnBegins, QuestionStored
    <2> QED BY <1>0, <2>1, <2>2, <2>3 DEF quiet, CascadeTypeOK, ears
  <1>7. ASSUME NEW u \in Turns, NEW kind \in RowKinds, NEW s \in Stages,
               rows' = Append(rows, <<kind, u>>), turn' = [turn EXCEPT ![u] = s],
               line' = line \/ line' = Left(u), turn[u] \in Begun, allIn' \subseteq allIn,
               spoken' = spoken, spoiled' \subseteq spoiled \cup {u}, UNCHANGED quiet
        PROVE CascadeTypeOK'
    <2>1. line' \in Seq(Turns) BY <1>0, <1>7, LeavesFirst DEF CascadeTypeOK
    <2>2. rows' \in Seq(RowKinds \X Turns)
      <3>1. rows \in Seq(RowKinds \X Turns) /\ <<kind, u>> \in RowKinds \X Turns
        BY <1>0 DEF CascadeTypeOK
      <3> QED BY ONLY <1>7, <3>1
    <2>3. turn' \in [Turns -> Stages] BY <1>0, <1>7 DEF CascadeTypeOK
    <2>4. /\ heardTurns' = heardTurns /\ activeTask' = activeTask /\ waitsFor' = waitsFor
          /\ aborted' = aborted /\ partial' = partial /\ lateStop' = lateStop /\ UNCHANGED ears
      BY <1>7 DEF quiet
    <2>5. aborted' \cup allIn' \cup spoken' \cup lateStop' \cup spoiled' \subseteq Turns
      BY <1>0, <1>7, <2>4 DEF CascadeTypeOK
    <2> QED BY <1>0, <2>1, <2>2, <2>3, <2>4, <2>5 DEF CascadeTypeOK, ears
  <1>8. ASSUME NEW u \in Turns, NEW words \in BOOLEAN, CallsStored(u, words)
        PROVE CascadeTypeOK'
    <2>1. PICK kind \in RowKinds : rows' = Append(rows, <<kind, u>>)
      BY <1>8 DEF CallsStored, RowKinds
    <2>2. turn[u] \in Begun /\ "thinking" \in Stages BY <1>8 DEF CallsStored, Begun, Stages
    <2> QED BY <1>7, <1>8, <2>1, <2>2 DEF CallsStored
  <1>9. ASSUME NEW u \in Turns, ReplyStored(u) \/ FailureStored(u) PROVE CascadeTypeOK'
    <2>1. PICK kind \in RowKinds : rows' = Append(rows, <<kind, u>>)
      BY <1>9 DEF ReplyStored, FailureStored, RowKinds
    <2>2. turn[u] \in Begun /\ "tail" \in Stages
      BY <1>9 DEF ReplyStored, FailureStored, Begun, Stages
    <2>3. /\ turn' = [turn EXCEPT ![u] = "tail"] /\ line' = Left(u) /\ allIn' = allIn
          /\ spoken' = spoken /\ spoiled' \subseteq spoiled \cup {u} /\ UNCHANGED quiet
      BY <1>9 DEF ReplyStored, FailureStored
    <2> QED BY <1>7, <2>1, <2>2, <2>3
  <1>10. ASSUME NEW u \in Turns, Talks(u) PROVE CascadeTypeOK'
    <2>1. turn' \in [Turns -> Stages]
      BY <1>0, <1>10, TalksMove DEF CascadeTypeOK, Answering, Stages
    <2>2. aborted' \cup allIn' \cup spoken' \cup lateStop' \cup spoiled' \subseteq Turns
      BY <1>0, <1>10, TalksMove DEF CascadeTypeOK
    <2> QED BY <1>0, <1>10, <2>1, <2>2, TalksMove DEF CascadeTypeOK, ears
  <1>11. ASSUME NEW u \in Turns, Delegated(u) PROVE CascadeTypeOK'
    <2>1. line' \in Seq(Turns) BY <1>11, LeavesFirst DEF Delegated, Begun
    <2>2. turn' \in [Turns -> Stages] BY <1>0, <1>11 DEF Delegated, CascadeTypeOK, Stages
    <2>3. /\ allIn' = allIn /\ spoken' = spoken /\ rows' = rows /\ spoiled' = spoiled
          /\ UNCHANGED quiet
      BY <1>11 DEF Delegated
    <2> QED BY <1>0, <2>1, <2>2, <2>3 DEF quiet, CascadeTypeOK, ears
  <1>12. ASSUME NEW u \in Turns, TailSpoken(u) \/ AbortSeen(u) \/ TurnFails(u)
        PROVE CascadeTypeOK'
    <2>1. turn[u] \in Begun \cup {"tail"} /\ Ends(u)
      BY <1>12 DEF TailSpoken, AbortSeen, TurnFails, Begun
    <2>2. turn' \in [Turns -> Stages] /\ activeTask' \in {0} \cup Turns /\ line' \in Seq(Turns)
      BY <2>1, LeavesFirst, EndsTypes
    <2>3. spoken' \subseteq Turns /\ spoiled' \subseteq Turns
      BY <1>0, <1>12 DEF TailSpoken, AbortSeen, TurnFails, CascadeTypeOK
    <2> QED BY <1>0, <2>1, <2>2, <2>3 DEF Ends, CascadeTypeOK, ears
  <1> QED BY <1>1, <1>2, <1>3, <1>4, <1>5, <1>6, <1>8, <1>9, <1>10, <1>11, <1>12
          DEF CascadeNext, TurnStep, Talks

\* A turn that is run joins the queue, or was not in it and is not.
LEMMA RunsQueue ==
  ASSUME SpeechInv, NEW v \in Turns, NEW a \in {0} \cup Turns, Runs(v, a),
         \/ turn[v] = "none" /\ v = heardTurns + 1 /\ heardTurns' = v
         \/ turn[v] = "waiting" /\ heardTurns' = heardTurns
  PROVE  QueueInv'
  <1>1. QueueInv /\ turn \in [Turns -> Stages] /\ line \in Seq(Turns) /\ heardTurns \in Nat
    BY VoiceCascadeAssumption DEF SpeechInv, CascadeTypeOK
  <1>2. ~\E i \in DOMAIN line : line[i] = v BY <1>1 DEF QueueInv, Queued
  <1> HIDE DEF SpeechInv
  <1>3. \A u \in Turns : turn'[u] = "none" <=> u > heardTurns'
    <2>1. PICK s \in {"dropped", "queued"} : turn' = [turn EXCEPT ![v] = s] BY DEF Runs
    <2> QED BY <1>1, <2>1 DEF QueueInv, Turns
  <1>4. CASE a # 0
    <2>1. line' = line /\ turn' = [turn EXCEPT ![v] = "dropped"] BY <1>4 DEF Runs
    <2>2. \A u \in Turns : turn'[u] \in Queued <=> \E i \in DOMAIN line : line[i] = u
      BY <1>1, <1>2, <2>1 DEF QueueInv, Queued
    <2>3. \A u \in Turns : turn'[u] \in Begun => line # <<>> /\ line[1] = u
      BY <1>1, <2>1 DEF QueueInv, Begun
    <2> QED BY <1>1, <1>3, <2>1, <2>2, <2>3 DEF QueueInv
  <1>5. CASE a = 0
    <2>1. line' = Append(line, v) /\ turn' = [turn EXCEPT ![v] = "queued"] BY <1>5 DEF Runs
    <2>2. \A i, j \in DOMAIN line : line[i] = line[j] => i = j BY <1>1 DEF QueueInv
    <2>3. /\ \A u \in Turns : (\E i \in DOMAIN line' : line'[i] = u) <=>
                                u = v \/ (\E i \in DOMAIN line : line[i] = u)
          /\ \A i, j \in DOMAIN line' : line'[i] = line'[j] => i = j
          /\ line # <<>> => line' # <<>> /\ line'[1] = line[1]
      BY <1>1, <1>2, <2>1, <2>2, JoinedLine
    <2>4. \A u \in Turns : turn'[u] \in Queued <=> u = v \/ turn[u] \in Queued
      BY <1>1, <2>1 DEF Queued
    <2>5. \A u \in Turns : turn'[u] \in Begun => turn[u] \in Begun
      BY <1>1, <2>1 DEF Begun
    <2>6. \A u \in Turns : turn'[u] \in Queued <=> \E i \in DOMAIN line' : line'[i] = u
      BY <1>1, <2>3, <2>4 DEF QueueInv
    <2>7. \A u \in Turns : turn'[u] \in Begun => line' # <<>> /\ line'[1] = u
      BY <1>1, <2>3, <2>5 DEF QueueInv
    <2> QED BY <1>3, <2>3, <2>6, <2>7 DEF QueueInv
  <1> QED BY <1>4, <1>5

\* One that stops where it is, or is over, leaves the queue.
LEMMA LeavesQueue ==
  ASSUME SpeechInv, NEW u \in Turns, turn[u] \in Begun \cup {"tail"},
         line' = Left(u), NEW s \in {"tail", "over"}, turn' = [turn EXCEPT ![u] = s],
         heardTurns' = heardTurns
  PROVE  QueueInv'
  <1>1. QueueInv /\ turn \in [Turns -> Stages] /\ heardTurns \in Nat
    BY VoiceCascadeAssumption DEF SpeechInv, CascadeTypeOK
  <1>2. /\ \A v \in Turns : (\E i \in DOMAIN line' : line'[i] = v) <=>
                             v # u /\ (\E i \in DOMAIN line : line[i] = v)
        /\ \A i, j \in DOMAIN line' : line'[i] = line'[j] => i = j
        /\ \A v \in Turns : v # u /\ line # <<>> /\ line[1] = v => line' = line
    BY LeavesFirst
  <1>3. \A v \in Turns : turn'[v] \in Queued <=> v # u /\ turn[v] \in Queued
    BY <1>1 DEF Queued
  <1>4. \A v \in Turns : turn'[v] \in Begun => v # u /\ turn[v] \in Begun
    BY <1>1 DEF Begun
  <1>5. \A v \in Turns : turn'[v] = "none" <=> v > heardTurns'
    BY <1>1 DEF QueueInv, Begun, Turns
  <1>6. \A v \in Turns : turn'[v] \in Queued <=> \E i \in DOMAIN line' : line'[i] = v
    BY <1>1, <1>2, <1>3 DEF QueueInv
  <1>7. \A v \in Turns : turn'[v] \in Begun => line' # <<>> /\ line'[1] = v
    BY <1>1, <1>2, <1>4 DEF QueueInv
  <1> QED BY <1>2, <1>5, <1>6, <1>7 DEF QueueInv

\* A turn that moves within the queue is the first of it.
LEMMA MovesQueue ==
  ASSUME SpeechInv, NEW u \in Turns, turn[u] \in Queued, line # <<>>, line[1] = u,
         NEW s \in Begun, turn' = [turn EXCEPT ![u] = s],
         line' = line, heardTurns' = heardTurns
  PROVE  QueueInv'
  <1>1. QueueInv /\ turn \in [Turns -> Stages] /\ heardTurns \in Nat
    BY VoiceCascadeAssumption DEF SpeechInv, CascadeTypeOK
  <1>2. \A v \in Turns : turn'[v] \in Queued <=> turn[v] \in Queued
    BY <1>1 DEF Queued, Begun
  <1>3. \A v \in Turns : turn'[v] \in Begun => v = u \/ turn[v] \in Begun
    BY <1>1
  <1>4. \A v \in Turns : turn'[v] = "none" <=> v > heardTurns'
    BY <1>1 DEF QueueInv, Begun, Queued, Turns
  <1> QED BY <1>1, <1>2, <1>3, <1>4 DEF QueueInv

\* Every step keeps the queue.
LEMMA QueueKept == SpeechInv /\ CascadeNext => QueueInv'
  <1> SUFFICES ASSUME SpeechInv, CascadeNext PROVE QueueInv' OBVIOUS
  <1>0. QueueInv /\ CascadeTypeOK BY DEF SpeechInv
  <1>1. ASSUME heardTurns' = heardTurns, turn' = turn, line' = line PROVE QueueInv'
    BY <1>0, <1>1 DEF QueueInv
  <1>2. CASE AsrReady \/ AsrFails \/ AsrCloses \/ SocketCloses \/ BargeIn
    BY <1>1, <1>2
       DEF AsrReady, AsrFails, AsrCloses, SocketCloses, GivenUp, BargeIn, chatting
  <1>3. CASE FinalWhenIdle
    <2>1. heardTurns < NumTurns /\ Runs(heardTurns + 1, 0) /\ heardTurns' = heardTurns + 1
      BY <1>3 DEF FinalWhenIdle, Hears
    <2> QED BY <2>1, NextTurn, RunsQueue
  <1>4. CASE FinalInterrupts
    <2>1. heardTurns < NumTurns /\ heardTurns' = heardTurns + 1
      BY <1>4 DEF FinalInterrupts, Hears
    <2>2. heardTurns + 1 \in Turns /\ turn[heardTurns + 1] = "none" BY <2>1, NextTurn
    <2>3. CASE activeTask \in spoken
      <3>1. turn' = [turn EXCEPT ![heardTurns + 1] = "waiting"] /\ line' = line
        BY <1>4, <2>1, <2>3 DEF FinalInterrupts, Hears
      <3>2. \A u \in Turns : turn'[u] = "none" <=> u > heardTurns'
        BY <1>0, <2>1, <2>2, <3>1, VoiceCascadeAssumption DEF QueueInv, CascadeTypeOK, Turns
      <3>3. \A u \in Turns : /\ turn'[u] \in Queued <=> turn[u] \in Queued
                             /\ turn'[u] \in Begun <=> turn[u] \in Begun
        BY <1>0, <2>2, <3>1 DEF Queued, Begun, CascadeTypeOK
      <3> QED BY <1>0, <3>1, <3>2, <3>3 DEF QueueInv
    <2>4. CASE activeTask \notin spoken
      <3>1. Runs(heardTurns + 1, 0) BY <1>4, <2>1, <2>4 DEF FinalInterrupts, Hears
      <3> QED BY <2>1, <2>2, <3>1, RunsQueue
    <2> QED BY <2>3, <2>4
  <1>5. ASSUME NEW u \in Turns, NEW saved \in BOOLEAN, PartialWritten(u, saved)
        PROVE QueueInv'
    <2>1. heardTurns' = heardTurns BY <1>5 DEF PartialWritten
    <2>2. CASE \E v \in Turns : waitsFor[v] = u /\ turn[v] = "waiting"
      <3>1. PICK v \in Turns : turn[v] = "waiting" /\ Runs(v, activeTask)
        BY <2>2, <1>5 DEF PartialWritten
      <3>2. activeTask \in {0} \cup Turns BY <1>0 DEF CascadeTypeOK
      <3> QED BY <2>1, <3>1, <3>2, RunsQueue
    <2>3. CASE ~\E v \in Turns : waitsFor[v] = u /\ turn[v] = "waiting"
      BY <1>1, <2>1, <2>3, <1>5 DEF PartialWritten
    <2> QED BY <2>2, <2>3
  <1>6. ASSUME NEW u \in Turns, TurnBegins(u) PROVE QueueInv'
    <2>1. turn[u] \in Queued /\ turn' = [turn EXCEPT ![u] = "opening"] /\ "opening" \in Begun
      BY <1>6 DEF TurnBegins, Queued, Begun
    <2>2. \E i \in DOMAIN line : line[i] = u BY <2>1, <1>0 DEF QueueInv
    <2>3. line # <<>> BY <2>2, <1>0 DEF CascadeTypeOK
    <2>4. line[1] = u BY <1>6, <2>3 DEF TurnBegins
    <2>5. line' = line /\ heardTurns' = heardTurns BY <1>6 DEF TurnBegins, quiet
    <2> QED BY <2>1, <2>3, <2>4, <2>5, MovesQueue
  <1>7. ASSUME NEW u \in Turns, NEW s \in Begun, turn[u] \in Begun, line' = line,
               turn' = [turn EXCEPT ![u] = s], heardTurns' = heardTurns
        PROVE QueueInv'
    <2>1. turn[u] \in Queued BY <1>7 DEF Begun, Queued
    <2>2. line # <<>> /\ line[1] = u BY <1>0, <1>7 DEF QueueInv
    <2> QED BY <1>7, <2>1, <2>2, MovesQueue
  <1>8. ASSUME NEW u \in Turns, Talks(u) PROVE QueueInv'
    <2>1. Answering \subseteq Begun BY DEF Answering, Begun
    <2>2. PICK s \in Answering : turn' = [turn EXCEPT ![u] = s] BY <1>0, <1>8, TalksMove
    <2>3. turn[u] \in Answering /\ line' = line /\ heardTurns' = heardTurns
      BY <1>0, <1>8, TalksMove
    <2> QED BY <1>7, <2>1, <2>2, <2>3
  <1>9. ASSUME NEW u \in Turns, NEW words \in BOOLEAN, QuestionStored(u) \/ CallsStored(u, words)
        PROVE QueueInv'
    <2>1. /\ turn[u] \in Begun /\ "thinking" \in Begun /\ turn' = [turn EXCEPT ![u] = "thinking"]
          /\ line' = line /\ heardTurns' = heardTurns
      BY <1>9 DEF QuestionStored, CallsStored, quiet, Begun
    <2> QED BY <1>7, <2>1
  <1>10. ASSUME NEW u \in Turns, ReplyStored(u) \/ FailureStored(u) \/ Delegated(u)
         PROVE QueueInv'
    <2>1. /\ turn[u] \in Begun \cup {"tail"} /\ line' = Left(u)
          /\ turn' = [turn EXCEPT ![u] = "tail"] /\ heardTurns' = heardTurns
      BY <1>10 DEF ReplyStored, FailureStored, Delegated, quiet, Begun
    <2> QED BY <2>1, LeavesQueue
  <1>11. ASSUME NEW u \in Turns, TailSpoken(u) \/ AbortSeen(u) \/ TurnFails(u) PROVE QueueInv'
    <2>1. turn[u] \in Begun \cup {"tail"} /\ Ends(u)
      BY <1>11 DEF TailSpoken, AbortSeen, TurnFails, Begun
    <2> QED BY <2>1, LeavesQueue DEF Ends
  <1> QED BY <1>2, <1>3, <1>4, <1>5, <1>6, <1>8, <1>9, <1>10, <1>11
          DEF CascadeNext, TurnStep, Talks

\* Every step that closes the client's socket closes the recogniser, if the route listens.
LEMMA RecogniserKept == SpeechInv /\ CascadeNext => RecogniserIsClosed'
  <1> SUFFICES ASSUME SpeechInv, CascadeNext PROVE RecogniserIsClosed' OBVIOUS
  <1>0. RecogniserIsClosed BY DEF SpeechInv
  <1>1. CASE AsrReady \/ AsrFails \/ AsrCloses \/ SocketCloses
    BY <1>0, <1>1 DEF AsrReady, AsrFails, AsrCloses, SocketCloses, RecogniserIsClosed
  <1>2. ASSUME UNCHANGED ears PROVE RecogniserIsClosed'
    BY <1>0, <1>2 DEF ears, RecogniserIsClosed
  <1>3. CASE FinalWhenIdle \/ FinalInterrupts \/ BargeIn
    BY <1>2, <1>3 DEF FinalWhenIdle, FinalInterrupts, BargeIn
  <1>4. ASSUME NEW u \in Turns, TurnStep(u) PROVE RecogniserIsClosed'
    BY <1>2, <1>4 DEF TurnStep, PartialWritten, quiet, TurnBegins, QuestionStored, RoundBegins,
         AllReceived, SentenceBegins, SentenceSpoken, CallsComplete, CallsStored, Delegated,
         ClaimRefused, LastToken, ReplyStored, StreamFails, FailureStored, TailSpoken, AbortSeen,
         TurnFails, Ends
  <1> QED BY <1>1, <1>3, <1>4 DEF CascadeNext

\* A turn that is run was not heard of in the books.
LEMMA RunsActive ==
  ASSUME SpeechInv, NEW v \in Turns, Runs(v, activeTask), turn[v] \in {"none", "waiting"},
         aborted' = aborted, spoken' = spoken, waitsFor' = waitsFor,
         \A u \in Turns : partial'[u] = "writing" => partial[u] = "writing" /\ waitsFor[v] # u
  PROVE  ActiveInv'
  <1>0. ActiveInv /\ turn \in [Turns -> Stages] BY DEF SpeechInv, CascadeTypeOK
  <1>1. PICK s \in {"dropped", "queued"} : turn' = [turn EXCEPT ![v] = s] BY DEF Runs
  <1>2. v \notin aborted /\ v \notin spoken BY <1>0 DEF ActiveInv, Asked
  <1>3. activeTask' # 0 => turn'[activeTask'] \in Queued \cup {"tail"} /\ activeTask' \notin aborted
    <2>1. CASE activeTask # 0
      <3>1. activeTask' = activeTask /\ activeTask # v /\ activeTask \in Turns
        BY <1>0, <2>1 DEF Runs, ActiveInv, SpeechInv, CascadeTypeOK, Queued
      <3> QED BY <1>0, <1>1, <2>1, <3>1 DEF ActiveInv
    <2>2. CASE activeTask = 0
      <3>1. activeTask' = v /\ turn' = [turn EXCEPT ![v] = "queued"] BY <2>2 DEF Runs
      <3> QED BY <1>0, <1>2, <3>1 DEF Queued
    <2> QED BY <2>1, <2>2
  <1>4. \A u \in aborted : turn'[u] \notin {"none", "waiting", "dropped"}
    BY <1>0, <1>1, <1>2 DEF ActiveInv, SpeechInv, CascadeTypeOK
  <1>5. \A u \in spoken : turn'[u] \in Asked
    BY <1>0, <1>1, <1>2 DEF ActiveInv, SpeechInv, CascadeTypeOK
  <1>6. \A u, w \in Turns : waitsFor[w] = u =>
       /\ u \in aborted /\ turn'[w] # "none"
       /\ partial'[u] = "writing" => turn'[w] = "waiting"
    BY <1>0, <1>1 DEF ActiveInv
  <1> QED BY <1>3, <1>4, <1>5, <1>6 DEF ActiveInv

\* A turn that moves on stays the active one until it is over.
LEMMA MovesActive ==
  ASSUME SpeechInv, NEW u \in Turns, turn[u] \in Queued \cup {"tail"},
         NEW s \in Queued \cup {"tail", "over"}, turn' = [turn EXCEPT ![u] = s],
         turn[u] \in Asked => s \in Asked,
         activeTask' = activeTask \/ activeTask' = 0, s = "over" => activeTask' # u,
         aborted' = aborted, waitsFor' = waitsFor, partial' = partial,
         spoken' \subseteq spoken \cup {u}, u \in spoken' => s \notin {"queued", "opening"}
  PROVE  ActiveInv'
  <1>0. ActiveInv /\ turn \in [Turns -> Stages] BY DEF SpeechInv, CascadeTypeOK
  <1>1. aborted \subseteq Turns /\ spoken \subseteq Turns /\ activeTask \in {0} \cup Turns
    BY DEF SpeechInv, CascadeTypeOK
  <1>2. activeTask' # 0 => turn'[activeTask'] \in Queued \cup {"tail"} /\ activeTask' \notin aborted
    BY <1>0, <1>1 DEF ActiveInv
  <1>3. \A w \in aborted : turn'[w] \notin {"none", "waiting", "dropped"}
    BY <1>0, <1>1 DEF ActiveInv, Queued
  <1>4. \A w \in spoken' : turn'[w] \in Asked
    <2>1. TAKE w \in spoken'
    <2>2. CASE w # u BY <1>0, <1>1, <2>2 DEF ActiveInv
    <2>3. CASE w = u
      BY <1>0, <1>1, <2>3 DEF ActiveInv, Queued, Asked
    <2> QED BY <2>2, <2>3
  <1>5. \A w, v \in Turns : waitsFor[v] = w =>
       /\ w \in aborted /\ turn'[v] # "none"
       /\ partial[w] = "writing" => turn'[v] = "waiting"
    BY <1>0, <1>1 DEF ActiveInv, Queued
  <1> QED BY <1>2, <1>3, <1>4, <1>5 DEF ActiveInv

\* Every step keeps the books on who is active, interrupted, heard and waited for.
LEMMA ActiveKept == SpeechInv /\ CascadeNext => ActiveInv'
  <1> SUFFICES ASSUME SpeechInv, CascadeNext PROVE ActiveInv' OBVIOUS
  <1>0. ActiveInv /\ CascadeTypeOK BY DEF SpeechInv
  <1>1. CASE AsrReady \/ AsrFails \/ AsrCloses
    BY <1>0, <1>1 DEF AsrReady, AsrFails, AsrCloses, chatting, ActiveInv
  <1>2. CASE SocketCloses
    <2>1. /\ activeTask' = 0 /\ turn' = turn /\ waitsFor' = waitsFor /\ spoken' = spoken
          /\ partial' = partial
          /\ aborted' = IF activeTask # 0 THEN aborted \cup {activeTask} ELSE aborted
      BY <1>2 DEF SocketCloses, GivenUp
    <2> QED BY <1>0, <2>1 DEF ActiveInv, Queued
  <1>3. CASE BargeIn
    <2>1. /\ activeTask # 0 /\ activeTask \in Turns
          /\ activeTask' = 0 /\ turn' = turn /\ waitsFor' = waitsFor /\ spoken' = spoken
          /\ aborted' = aborted \cup {activeTask}
      BY <1>0, <1>3 DEF BargeIn, Interrupted, CascadeTypeOK
    <2>2. \A u \in Turns : u # activeTask => partial'[u] = partial[u]
      BY <1>0, <1>3 DEF BargeIn, Interrupted, CascadeTypeOK
    <2> QED BY <1>0, <2>1, <2>2 DEF ActiveInv, Queued
  <1>4. CASE FinalWhenIdle
    <2>1. /\ heardTurns < NumTurns /\ Runs(heardTurns + 1, activeTask)
          /\ aborted' = aborted /\ spoken' = spoken /\ waitsFor' = waitsFor /\ partial' = partial
      BY <1>4 DEF FinalWhenIdle, Hears
    <2>2. heardTurns + 1 \in Turns /\ turn[heardTurns + 1] = "none" BY <2>1, NextTurn
    <2>3. \A u \in Turns : waitsFor[heardTurns + 1] # u BY <1>0, <2>2 DEF ActiveInv
    <2> QED BY <2>1, <2>2, <2>3, RunsActive
  <1>5. CASE FinalInterrupts
    <2> DEFINE new == heardTurns + 1
    <2>1. /\ heardTurns < NumTurns /\ activeTask # 0 /\ Interrupted /\ heardTurns' = new
          /\ spoken' = spoken
      BY <1>5 DEF FinalInterrupts, Hears
    <2>2. new \in Turns /\ turn[new] = "none" BY <2>1, NextTurn
    <2>3. /\ activeTask \in Turns /\ activeTask # new
          /\ aborted' = aborted \cup {activeTask} /\ new \notin aborted /\ new \notin spoken
      BY <1>0, <2>1, <2>2 DEF Interrupted, ActiveInv, CascadeTypeOK, Queued, Asked
    <2>4. \A u \in Turns : u # activeTask => partial'[u] = partial[u]
      BY <1>0, <2>1 DEF Interrupted, CascadeTypeOK
    <2>5. \A u \in Turns : waitsFor[new] # u BY <1>0, <2>2 DEF ActiveInv
    <2>6. \A v \in Turns : waitsFor[v] # activeTask BY <1>0, <2>1, <2>3 DEF ActiveInv
    <2>7. aborted \subseteq Turns /\ spoken \subseteq Turns /\ turn \in [Turns -> Stages]
      BY <1>0 DEF CascadeTypeOK
    <2>8. CASE activeTask \in spoken
      <3>1. /\ turn' = [turn EXCEPT ![new] = "waiting"] /\ activeTask' = 0
            /\ waitsFor' = [waitsFor EXCEPT ![new] = activeTask]
        BY <1>5, <2>1, <2>8 DEF FinalInterrupts, Hears
      <3> HIDE DEF new
      <3>2. \A u \in aborted' : turn'[u] \notin {"none", "waiting", "dropped"}
        BY <1>0, <2>1, <2>3, <2>7, <3>1 DEF ActiveInv, Queued
      <3>3. \A u \in spoken' : turn'[u] \in Asked
        BY <1>0, <2>1, <2>3, <2>7, <3>1 DEF ActiveInv
      <3>4. \A u, v \in Turns : waitsFor'[v] = u =>
               /\ u \in aborted' /\ turn'[v] # "none"
               /\ partial'[u] = "writing" => turn'[v] = "waiting"
        <4>1. TAKE u, v \in Turns
        <4>2. HAVE waitsFor'[v] = u
        <4>3. CASE v = new
          BY <1>0, <2>2, <2>3, <2>7, <3>1, <4>2, <4>3 DEF CascadeTypeOK
        <4>4. CASE v # new
          <5>1. waitsFor[v] = u /\ turn'[v] = turn[v] /\ u # activeTask
            BY <1>0, <2>2, <2>6, <2>7, <3>1, <4>2, <4>4 DEF CascadeTypeOK
          <5> QED BY <1>0, <2>3, <2>4, <5>1 DEF ActiveInv
        <4> QED BY <4>3, <4>4
      <3> QED BY <3>1, <3>2, <3>3, <3>4 DEF ActiveInv
    <2>9. CASE activeTask \notin spoken
      <3>1. Runs(new, 0) /\ waitsFor' = waitsFor /\ partial' = partial
        BY <1>5, <2>1, <2>9 DEF FinalInterrupts, Interrupted
      <3>2. turn' = [turn EXCEPT ![new] = "queued"] /\ activeTask' = new
        BY <3>1 DEF Runs
      <3> HIDE DEF new
      <3>3. activeTask' \notin aborted' /\ turn'[activeTask'] \in Queued
        BY <2>2, <2>3, <2>7, <3>2 DEF Queued
      <3>4. \A u \in aborted' : turn'[u] \notin {"none", "waiting", "dropped"}
        BY <1>0, <2>1, <2>3, <2>7, <3>2 DEF ActiveInv, Queued
      <3>5. \A u \in spoken' : turn'[u] \in Asked
        BY <1>0, <2>1, <2>3, <2>7, <3>2 DEF ActiveInv
      <3>6. \A u, v \in Turns : waitsFor'[v] = u =>
               /\ u \in aborted' /\ turn'[v] # "none"
               /\ partial'[u] = "writing" => turn'[v] = "waiting"
        BY <1>0, <2>2, <2>3, <2>5, <2>7, <3>1, <3>2 DEF ActiveInv
      <3> QED BY <3>3, <3>4, <3>5, <3>6 DEF ActiveInv
    <2> QED BY <2>8, <2>9
  <1>6. ASSUME NEW u \in Turns, NEW saved \in BOOLEAN, PartialWritten(u, saved)
        PROVE ActiveInv'
    <2>1. /\ aborted' = aborted /\ spoken' = spoken /\ waitsFor' = waitsFor
          /\ partial[u] = "writing" /\ partial' = [partial EXCEPT ![u] = "over"]
      BY <1>6 DEF PartialWritten
    <2>2. \A w \in Turns : partial'[w] = "writing" => partial[w] = "writing" /\ w # u
      BY <1>0, <2>1 DEF CascadeTypeOK
    <2>3. CASE \E v \in Turns : waitsFor[v] = u /\ turn[v] = "waiting"
      <3>1. PICK v \in Turns : waitsFor[v] = u /\ turn[v] = "waiting" /\ Runs(v, activeTask)
        BY <2>3, <1>6 DEF PartialWritten
      <3> QED BY <2>1, <2>2, <3>1, RunsActive
    <2>4. CASE ~\E v \in Turns : waitsFor[v] = u /\ turn[v] = "waiting"
      <3>1. turn' = turn /\ activeTask' = activeTask BY <2>4, <1>6 DEF PartialWritten
      <3> QED BY <1>0, <2>1, <2>2, <3>1 DEF ActiveInv
    <2> QED BY <2>3, <2>4
  <1>7. ASSUME NEW u \in Turns, TurnBegins(u) PROVE ActiveInv'
    <2>1. turn[u] = "queued" /\ u \notin spoken /\ turn[u] \notin Asked
      BY <1>0, <1>7 DEF TurnBegins, ActiveInv, Asked
    <2>2. /\ activeTask' = activeTask /\ aborted' = aborted /\ waitsFor' = waitsFor
          /\ partial' = partial /\ spoken' = spoken /\ turn' = [turn EXCEPT ![u] = "opening"]
      BY <1>7 DEF TurnBegins, quiet
    <2> QED BY <2>1, <2>2, MovesActive DEF Queued
  <1>8. ASSUME NEW u \in Turns, Talks(u) PROVE ActiveInv'
    <2>1. PICK s \in Answering : turn' = [turn EXCEPT ![u] = s] BY <1>0, <1>8, TalksMove
    <2>2. /\ Answering \subseteq Queued /\ Answering \subseteq Asked
          /\ Answering \cap {"queued", "opening", "over"} = {}
      BY DEF Answering, Queued, Asked
    <2>3. /\ turn[u] \in Answering /\ activeTask' = activeTask /\ aborted' = aborted
          /\ waitsFor' = waitsFor /\ partial' = partial /\ spoken' \subseteq spoken \cup {u}
      BY <1>0, <1>8, TalksMove
    <2> QED BY <2>1, <2>2, <2>3, MovesActive
  <1>9. ASSUME NEW u \in Turns, NEW words \in BOOLEAN,
               QuestionStored(u) \/ CallsStored(u, words) \/ ReplyStored(u) \/ FailureStored(u)
                 \/ Delegated(u)
        PROVE ActiveInv'
    <2>1. PICK s \in {"thinking", "tail"} : turn' = [turn EXCEPT ![u] = s]
      BY <1>9 DEF QuestionStored, CallsStored, ReplyStored, FailureStored, Delegated
    <2>2. turn[u] \in Queued /\ s \in Queued \cup {"tail"} /\ s \in Asked
          /\ s \notin {"queued", "opening", "over"}
      BY <1>9 DEF QuestionStored, CallsStored, ReplyStored, FailureStored, Delegated, Queued, Asked
    <2>3. /\ activeTask' = activeTask /\ aborted' = aborted /\ waitsFor' = waitsFor
          /\ partial' = partial /\ spoken' = spoken
      BY <1>9 DEF QuestionStored, CallsStored, ReplyStored, FailureStored, Delegated, quiet
    <2> QED BY <2>1, <2>2, <2>3, MovesActive
  <1>11. ASSUME NEW u \in Turns, TailSpoken(u) \/ AbortSeen(u) \/ TurnFails(u) PROVE ActiveInv'
    <2>1. /\ turn[u] \in Queued \cup {"tail"} /\ Ends(u) /\ spoken' \subseteq spoken \cup {u}
      BY <1>11 DEF TailSpoken, AbortSeen, TurnFails, Queued
    <2>2. u # 0 /\ "over" \in Asked BY DEF Turns, Asked
    <2> QED BY <2>1, <2>2, MovesActive DEF Ends
  <1> QED BY <1>1, <1>2, <1>3, <1>4, <1>5, <1>6, <1>7, <1>8, <1>9, <1>11
          DEF CascadeNext, TurnStep, Talks

\* A row is written behind the others.
LEMMA OneMoreRow ==
  ASSUME SpeechInv, NEW kind \in RowKinds, NEW u \in Turns,
         rows' = Append(rows, <<kind, u>>)
  PROVE  /\ Len(rows) \in Nat /\ DOMAIN rows = 1..Len(rows) /\ DOMAIN rows' = 1..(Len(rows) + 1)
         /\ \A i \in DOMAIN rows : rows'[i] = rows[i] /\ rows[i][2] \in Turns
         /\ rows'[Len(rows) + 1] = <<kind, u>>
  <1>1. rows \in Seq(RowKinds \X Turns) BY DEF SpeechInv, CascadeTypeOK
  <1>2. <<kind, u>> \in RowKinds \X Turns OBVIOUS
  <1> HIDE DEF SpeechInv
  <1>3. \A i \in DOMAIN rows : rows[i][2] \in Turns BY <1>1
  <1> QED BY <1>1, <1>2, <1>3

\* The rows of the history are rows of turns.
LEMMA RowsTyped ==
  ASSUME SpeechInv
  PROVE  /\ Len(rows) \in Nat /\ DOMAIN rows = 1..Len(rows)
         /\ \A i \in DOMAIN rows : rows[i][2] \in Turns
  BY DEF SpeechInv, CascadeTypeOK

\* While nothing is written, a turn stays in the history where it was.
LEMMA RowsStand ==
  ASSUME SpeechInv, rows' = rows,
         \A u \in Turns : turn'[u] = turn[u] \/ turn'[u] \in Asked
                            \/ turn[u] \notin Asked,
         \A u \in Turns :
            turn'[u] \in Answering => turn[u] \in Answering,
         \A u \in Turns :
            u \in spoken' \/ turn'[u] = "tail" => \E i \in DOMAIN rows : UserRow(i, u),
         \A u \in Turns : partial'[u] = "writing" =>
            partial[u] = "writing" \/ (u \in spoken /\ \A v \in Turns : waitsFor[v] # u),
         \A u \in Turns : waitsFor'[u] = waitsFor[u] \/ turn[u] = "none"
  PROVE  RowsInv'
  <1>0. RowsInv BY DEF SpeechInv
  <1>1. \A i \in DOMAIN rows : rows[i][2] \in Turns BY RowsTyped
  <1>2. \A i, u : UserRow(i, u)' <=> UserRow(i, u) BY DEF UserRow
  <1> HIDE DEF SpeechInv
  <1>3. \A i \in DOMAIN rows : turn'[rows[i][2]] \in Asked
    BY <1>0, <1>1 DEF RowsInv
  <1>4. \A i \in DOMAIN rows : waitsFor'[rows[i][2]] = waitsFor[rows[i][2]]
    BY <1>0, <1>1 DEF RowsInv, Asked
  <1>5. ASSUME NEW u \in Turns, turn'[u] \in Answering
        PROVE \E i \in DOMAIN rows :
                 UserRow(i, u) /\ \A k \in DOMAIN rows : k > i => rows[k][1] # "user"
    BY <1>0, <1>5 DEF RowsInv
  <1>6. ASSUME NEW u \in Turns, partial'[u] = "writing"
        PROVE \E i \in DOMAIN rows : UserRow(i, u) /\ \A k \in DOMAIN rows :
                 k > i /\ rows[k][1] = "user" => waitsFor'[rows[k][2]] # u
    <2>1. CASE partial[u] = "writing"
      <3>1. PICK i \in DOMAIN rows : UserRow(i, u) /\ \A k \in DOMAIN rows :
                 k > i /\ rows[k][1] = "user" => waitsFor[rows[k][2]] # u
        BY <1>0, <2>1 DEF RowsInv
      <3> QED BY <3>1, <1>4
    <2>2. CASE u \in spoken /\ \A v \in Turns : waitsFor[v] # u
      <3>1. PICK i \in DOMAIN rows : UserRow(i, u) BY <1>0, <2>2 DEF RowsInv
      <3> QED BY <3>1, <2>2, <1>1, <1>4
    <2> QED BY <1>6, <2>1, <2>2
  <1> QED BY <1>2, <1>3, <1>5, <1>6 DEF RowsInv

\* Every step keeps each turn's place in the history.
LEMMA RowsKept == SpeechInv /\ CascadeNext => RowsInv'
  <1> SUFFICES ASSUME SpeechInv, CascadeNext PROVE RowsInv' OBVIOUS
  <1>0. RowsInv /\ CascadeTypeOK /\ ActiveInv /\ QueueInv /\ HistoryInOrder /\ StoredInv
    BY DEF SpeechInv
  <1>a. \A u \in Turns : u \in spoken \/ turn[u] \in Answering \cup {"tail"} =>
          \E i \in DOMAIN rows : UserRow(i, u)
    BY <1>0 DEF RowsInv
  <1> HIDE DEF SpeechInv
  <1>1. CASE AsrReady \/ AsrFails \/ AsrCloses \/ SocketCloses
    <2>1. /\ rows' = rows /\ turn' = turn /\ spoken' = spoken /\ partial' = partial
          /\ waitsFor' = waitsFor
      BY <1>1 DEF AsrReady, AsrFails, AsrCloses, SocketCloses, GivenUp, chatting
    <2> QED BY <2>1, <1>a, RowsStand
  <1>2. ASSUME activeTask # 0, Interrupted
        PROVE \A u \in Turns : partial'[u] = "writing" =>
                 partial[u] = "writing" \/ (u \in spoken /\ \A v \in Turns : waitsFor[v] # u)
    <2>1. activeTask \in Turns /\ \A v \in Turns : waitsFor[v] # activeTask
      BY <1>0, <1>2 DEF CascadeTypeOK, ActiveInv
    <2> QED BY <1>0, <1>2, <2>1 DEF Interrupted, CascadeTypeOK
  <1>3. CASE BargeIn
    <2>1. /\ rows' = rows /\ turn' = turn /\ spoken' = spoken /\ activeTask # 0 /\ Interrupted
          /\ waitsFor' = waitsFor
      BY <1>3 DEF BargeIn
    <2> QED BY <2>1, <1>2, <1>a, RowsStand
  <1>4. CASE FinalWhenIdle
    <2>1. /\ heardTurns < NumTurns /\ Runs(heardTurns + 1, 0)
          /\ rows' = rows /\ spoken' = spoken /\ partial' = partial /\ waitsFor' = waitsFor
      BY <1>4 DEF FinalWhenIdle, Hears
    <2>2. heardTurns + 1 \in Turns /\ turn[heardTurns + 1] = "none" BY <2>1, NextTurn
    <2>3. turn' = [turn EXCEPT ![heardTurns + 1] = "queued"] BY <2>1 DEF Runs
    <2>4. \A u \in Turns : turn'[u] = turn[u] \/ (turn[u] = "none" /\ turn'[u] = "queued")
      BY <1>0, <2>2, <2>3 DEF CascadeTypeOK
    <2>5. \A u \in Turns :
            /\ turn'[u] = turn[u] \/ turn'[u] \in Asked \/ turn[u] \notin Asked
            /\ turn'[u] \in Answering => turn[u] \in Answering
            /\ turn'[u] = "tail" => turn[u] = "tail"
      BY <2>4 DEF Asked, Answering
    <2> QED BY <2>1, <2>5, <1>a, RowsStand
  <1>5. CASE FinalInterrupts
    <2>1. /\ heardTurns < NumTurns /\ activeTask # 0 /\ Interrupted
          /\ rows' = rows /\ spoken' = spoken
      BY <1>5 DEF FinalInterrupts, Hears
    <2>2. heardTurns + 1 \in Turns /\ turn[heardTurns + 1] = "none" BY <2>1, NextTurn
    <2>3. /\ \E s \in {"waiting", "queued"} : turn' = [turn EXCEPT ![heardTurns + 1] = s]
          /\ waitsFor' = waitsFor \/ waitsFor' = [waitsFor EXCEPT ![heardTurns + 1] = activeTask]
      BY <1>5 DEF FinalInterrupts, Runs
    <2>4. \A u \in Turns : turn'[u] = turn[u]
                           \/ (turn[u] = "none" /\ turn'[u] \in {"waiting", "queued"})
      BY <1>0, <2>2, <2>3 DEF CascadeTypeOK
    <2>5. \A u \in Turns : waitsFor'[u] = waitsFor[u] \/ turn[u] = "none"
      BY <1>0, <2>2, <2>3 DEF CascadeTypeOK
    <2>6. \A u \in Turns :
            /\ turn'[u] = turn[u] \/ turn'[u] \in Asked \/ turn[u] \notin Asked
            /\ turn'[u] \in Answering => turn[u] \in Answering
            /\ turn'[u] = "tail" => turn[u] = "tail"
      BY <2>4 DEF Asked, Answering
    <2> QED BY <2>1, <2>5, <2>6, <1>2, <1>a, RowsStand
  <1>6. ASSUME NEW u \in Turns, NEW s \in Stages, turn' = [turn EXCEPT ![u] = s],
               rows' = rows, partial' = partial, waitsFor' = waitsFor,
               spoken' \subseteq spoken \cup {u}, turn[u] \in Asked => s \in Asked,
               s \in Answering \cup {"tail"} => turn[u] \in Answering,
               turn[u] \in Answering \cup {"tail"} \/ spoken' = spoken
        PROVE RowsInv'
    <2>1. turn'[u] = s /\ \A w \in Turns : w # u => turn'[w] = turn[w]
      BY <1>0, <1>6 DEF CascadeTypeOK
    <2>2. \A w \in Turns : turn'[w] = turn[w] \/ turn'[w] \in Asked \/ turn[w] \notin Asked
      BY <1>6, <2>1
    <2>3. \A w \in Turns : turn'[w] \in Answering => turn[w] \in Answering
      BY <1>6, <2>1
    <2>4. ASSUME NEW w \in Turns, w \in spoken' \/ turn'[w] = "tail"
          PROVE \E i \in DOMAIN rows : UserRow(i, w)
      <3>1. w \in spoken \/ turn[w] \in Answering \cup {"tail"} BY <1>6, <2>1, <2>4
      <3> QED BY <1>a, <3>1
    <2> QED BY <1>6, <2>2, <2>3, <2>4, RowsStand
  <1>b. ASSUME NEW u \in Turns, TurnBegins(u) PROVE RowsInv'
    <2>1. turn[u] = "queued" /\ turn' = [turn EXCEPT ![u] = "opening"] /\ rows' = rows
          /\ partial' = partial /\ waitsFor' = waitsFor /\ spoken' = spoken
      BY <1>b DEF TurnBegins, quiet
    <2> QED BY <1>6, <2>1 DEF Asked, Answering, Stages
  <1>c. ASSUME NEW u \in Turns, Talks(u) PROVE RowsInv'
    <2>1. PICK s \in Answering : turn' = [turn EXCEPT ![u] = s] BY <1>0, <1>c, TalksMove
    <2>2. /\ turn[u] \in Answering /\ rows' = rows /\ partial' = partial /\ waitsFor' = waitsFor
          /\ spoken' \subseteq spoken \cup {u}
      BY <1>0, <1>c, TalksMove
    <2>3. Answering \subseteq Asked /\ Answering \subseteq Stages BY DEF Answering, Asked, Stages
    <2> QED BY <1>6, <2>1, <2>2, <2>3
  <1>d. ASSUME NEW u \in Turns, Delegated(u) PROVE RowsInv'
    <2>1. turn[u] = "thinking" /\ turn' = [turn EXCEPT ![u] = "tail"] /\ rows' = rows
          /\ partial' = partial /\ waitsFor' = waitsFor /\ spoken' = spoken
      BY <1>d DEF Delegated, quiet
    <2> QED BY <1>6, <2>1 DEF Asked, Answering, Stages
  <1>e. ASSUME NEW u \in Turns, TailSpoken(u) \/ AbortSeen(u) \/ TurnFails(u) PROVE RowsInv'
    <2>1. /\ turn' = [turn EXCEPT ![u] = "over"] /\ rows' = rows
          /\ partial' = partial /\ waitsFor' = waitsFor /\ spoken' \subseteq spoken \cup {u}
          /\ turn[u] = "tail" \/ spoken' = spoken
      BY <1>e DEF TailSpoken, AbortSeen, TurnFails, Ends
    <2> QED BY <1>6, <2>1 DEF Asked, Answering, Stages
  <1>7. ASSUME NEW u \in Turns, QuestionStored(u) PROVE RowsInv'
    <2>0. PICK n \in Nat : n = Len(rows) + 1 BY RowsTyped
    <2>1. /\ turn[u] = "opening" /\ rows' = Append(rows, <<"user", u>>)
          /\ turn' = [turn EXCEPT ![u] = "thinking"]
          /\ spoken' = spoken /\ partial' = partial /\ waitsFor' = waitsFor
      BY <1>7 DEF QuestionStored, quiet
    <2>2. /\ Len(rows) \in Nat /\ DOMAIN rows = 1..Len(rows) /\ DOMAIN rows' = 1..n
          /\ \A i \in DOMAIN rows : rows'[i] = rows[i] /\ rows[i][2] \in Turns
          /\ rows'[n] = <<"user", u>>
      BY <2>0, <2>1, OneMoreRow DEF RowKinds
    <2>3. /\ n \in DOMAIN rows' /\ DOMAIN rows \subseteq DOMAIN rows'
          /\ \A i \in DOMAIN rows' : i \in DOMAIN rows \/ i = n
      BY <2>0, <2>2
    <2>4. turn'[u] = "thinking" /\ \A w \in Turns : w # u => turn'[w] = turn[w]
      BY <1>0, <2>1 DEF CascadeTypeOK
    <2>5. \A i \in DOMAIN rows' : turn'[rows'[i][2]] \in Asked
      <3>1. "thinking" \in Asked /\ rows'[n][2] = u BY <2>2 DEF Asked
      <3> QED BY <1>0, <2>2, <2>3, <2>4, <3>1 DEF RowsInv
    <2>6. ASSUME NEW w \in Turns, turn'[w] \in Answering
          PROVE \E i \in DOMAIN rows' :
                   UserRow(i, w)' /\ \A k \in DOMAIN rows' : k > i => rows'[k][1] # "user"
      <3>1. w = u
        BY <1>0, <2>1, <2>4, <2>6 DEF QueueInv, Begun, Answering
      <3>2. UserRow(n, w)' BY <2>2, <2>3, <3>1 DEF UserRow
      <3>3. \A k \in DOMAIN rows' : ~(k > n) BY <2>2
      <3> QED BY <2>3, <3>2, <3>3
    <2>7. ASSUME NEW w \in Turns, w \in spoken' \/ turn'[w] = "tail"
          PROVE \E i \in DOMAIN rows' : UserRow(i, w)'
      <3>1. PICK i \in DOMAIN rows : UserRow(i, w) BY <1>a, <2>1, <2>4, <2>7
      <3> QED BY <2>2, <2>3, <3>1 DEF UserRow
    <2>8. ASSUME NEW w \in Turns, partial'[w] = "writing"
          PROVE \E i \in DOMAIN rows' : UserRow(i, w)' /\ \A k \in DOMAIN rows' :
                 k > i /\ rows'[k][1] = "user" => waitsFor'[rows'[k][2]] # w
      <3>1. PICK i \in DOMAIN rows : UserRow(i, w) /\ \A k \in DOMAIN rows :
                 k > i /\ rows[k][1] = "user" => waitsFor[rows[k][2]] # w
        BY <1>0, <2>1, <2>8 DEF RowsInv
      <3>2. waitsFor[u] # w BY <1>0, <2>1, <2>8 DEF ActiveInv
      <3>3. UserRow(i, w)' BY <2>2, <2>3, <3>1 DEF UserRow
      <3>4. ASSUME NEW k \in DOMAIN rows', k > i, rows'[k][1] = "user"
            PROVE waitsFor'[rows'[k][2]] # w
        BY <2>1, <2>2, <2>3, <3>1, <3>2, <3>4
      <3> QED BY <2>3, <3>3, <3>4
    <2> QED BY <2>5, <2>6, <2>7, <2>8 DEF RowsInv
  <1>8. ASSUME NEW u \in Turns, NEW kind \in RowKinds \ {"user"},
               rows' = Append(rows, <<kind, u>>),
               turn[u] \in Asked,
               spoken' = spoken, waitsFor' = waitsFor,
               \A w \in Turns :
                  \/ turn'[w] = turn[w]
                  \/ turn[w] \in Answering /\ turn'[w] \in {"thinking", "tail"}
                  \/ turn[w] = "waiting" /\ turn'[w] \in {"queued", "dropped"},
               \A w \in Turns : partial'[w] = "writing" => partial[w] = "writing"
        PROVE RowsInv'
    <2> DEFINE n == Len(rows) + 1
    <2>2. /\ Len(rows) \in Nat /\ DOMAIN rows = 1..Len(rows) /\ DOMAIN rows' = 1..n
          /\ \A i \in DOMAIN rows : rows'[i] = rows[i] /\ rows[i][2] \in Turns
          /\ rows'[n] = <<kind, u>>
      BY <1>8, OneMoreRow
    <2>3. /\ n \in DOMAIN rows' /\ DOMAIN rows \subseteq DOMAIN rows'
          /\ \A i \in DOMAIN rows' : i \in DOMAIN rows \/ i = n
      BY <2>2
    <2>4. rows'[n][1] # "user" /\ rows'[n][2] = u BY <2>2
    <2>a. \A w \in Turns : turn[w] \in Asked => turn'[w] \in Asked
      BY <1>8 DEF Asked, Answering
    <2>b. \A w \in Turns : turn'[w] \in Answering => turn[w] \in Answering
      BY <1>8 DEF Answering
    <2>c. \A w \in Turns : turn'[w] = "tail" => turn[w] \in Answering \cup {"tail"}
      BY <1>8
    <2>5. \A i \in DOMAIN rows' : turn'[rows'[i][2]] \in Asked
      BY <1>0, <1>8, <2>2, <2>3, <2>4, <2>a DEF RowsInv
    <2>6. ASSUME NEW w \in Turns, turn'[w] \in Answering
          PROVE \E i \in DOMAIN rows' :
                   UserRow(i, w)' /\ \A k \in DOMAIN rows' : k > i => rows'[k][1] # "user"
      <3>1. turn[w] \in Answering BY <2>b, <2>6
      <3>2. PICK i \in DOMAIN rows :
                   UserRow(i, w) /\ \A k \in DOMAIN rows : k > i => rows[k][1] # "user"
        BY <1>0, <3>1 DEF RowsInv
      <3>3. UserRow(i, w)' BY <2>2, <2>3, <3>2 DEF UserRow
      <3> QED BY <2>2, <2>3, <2>4, <3>2, <3>3
    <2>7. ASSUME NEW w \in Turns, w \in spoken' \/ turn'[w] = "tail"
          PROVE \E i \in DOMAIN rows' : UserRow(i, w)'
      <3>1. PICK i \in DOMAIN rows : UserRow(i, w) BY <1>a, <1>8, <2>c, <2>7
      <3> QED BY <2>2, <2>3, <3>1 DEF UserRow
    <2>8. ASSUME NEW w \in Turns, partial'[w] = "writing"
          PROVE \E i \in DOMAIN rows' : UserRow(i, w)' /\ \A k \in DOMAIN rows' :
                 k > i /\ rows'[k][1] = "user" => waitsFor'[rows'[k][2]] # w
      <3>1. PICK i \in DOMAIN rows : UserRow(i, w) /\ \A k \in DOMAIN rows :
                 k > i /\ rows[k][1] = "user" => waitsFor[rows[k][2]] # w
        BY <1>0, <1>8, <2>8 DEF RowsInv
      <3>2. UserRow(i, w)' BY <2>2, <2>3, <3>1 DEF UserRow
      <3>3. ASSUME NEW k \in DOMAIN rows', k > i, rows'[k][1] = "user"
            PROVE waitsFor'[rows'[k][2]] # w
        <4>1. k \in DOMAIN rows BY <2>3, <2>4, <3>3
        <4> QED BY <1>8, <2>2, <3>1, <3>3, <4>1
      <3> QED BY <2>3, <3>2, <3>3
    <2> HIDE DEF n
    <2> QED BY <2>5, <2>6, <2>7, <2>8 DEF RowsInv
  <1>9. ASSUME NEW u \in Turns, NEW words \in BOOLEAN,
               CallsStored(u, words) \/ ReplyStored(u) \/ FailureStored(u)
        PROVE RowsInv'
    <2>1. PICK kind \in RowKinds \ {"user"} : rows' = Append(rows, <<kind, u>>)
      BY <1>9 DEF CallsStored, ReplyStored, FailureStored, RowKinds
    <2>2. PICK s \in {"thinking", "tail"} : turn' = [turn EXCEPT ![u] = s]
      BY <1>9 DEF CallsStored, ReplyStored, FailureStored
    <2>3. /\ turn[u] \in Answering /\ turn[u] \in Asked
          /\ spoken' = spoken /\ waitsFor' = waitsFor /\ partial' = partial
      BY <1>9 DEF CallsStored, ReplyStored, FailureStored, quiet, Answering, Asked
    <2>4. \A w \in Turns : \/ turn'[w] = turn[w]
                           \/ turn[w] \in Answering /\ turn'[w] \in {"thinking", "tail"}
      BY <1>0, <2>2, <2>3 DEF CascadeTypeOK
    <2> QED BY <1>8, <2>1, <2>3, <2>4
  <1>10. ASSUME NEW u \in Turns, NEW saved \in BOOLEAN, PartialWritten(u, saved)
         PROVE RowsInv'
    <2>1. /\ spoken' = spoken /\ waitsFor' = waitsFor /\ partial[u] = "writing"
          /\ partial' = [partial EXCEPT ![u] = "over"]
          /\ rows' = IF saved THEN Append(rows, <<"partial", u>>) ELSE rows
      BY <1>10 DEF PartialWritten
    <2>2. turn[u] \in Asked
      BY <1>0, <2>1 DEF StoredInv, ReplyKept, ActiveInv
    <2>3. \A w \in Turns : partial'[w] = "writing" => partial[w] = "writing"
      BY <1>0, <2>1 DEF CascadeTypeOK
    <2>4. \A w \in Turns : \/ turn'[w] = turn[w]
                           \/ turn[w] = "waiting" /\ turn'[w] \in {"queued", "dropped"}
      <3>1. CASE \E v \in Turns : waitsFor[v] = u /\ turn[v] = "waiting"
        <4>1. PICK v \in Turns : waitsFor[v] = u /\ turn[v] = "waiting" /\ Runs(v, activeTask)
          BY <3>1, <1>10 DEF PartialWritten
        <4>2. PICK s \in {"queued", "dropped"} : turn' = [turn EXCEPT ![v] = s]
          BY <4>1 DEF Runs
        <4> QED BY <1>0, <4>1, <4>2 DEF CascadeTypeOK
      <3>2. CASE ~\E v \in Turns : waitsFor[v] = u /\ turn[v] = "waiting"
        BY <3>2, <1>10 DEF PartialWritten
      <3> QED BY <3>1, <3>2
    <2>5. CASE saved
      <3>1. rows' = Append(rows, <<"partial", u>>) /\ "partial" \in RowKinds \ {"user"}
        BY <2>1, <2>5 DEF RowKinds
      <3> QED BY <1>8, <2>1, <2>2, <2>3, <2>4, <3>1
    <2>6. CASE ~saved
      <3>1. rows' = rows BY <2>1, <2>6
      <3>2. \A w \in Turns :
              /\ turn'[w] = turn[w] \/ turn'[w] \in Asked \/ turn[w] \notin Asked
              /\ turn'[w] \in Answering => turn[w] \in Answering
              /\ turn'[w] = "tail" => turn[w] = "tail"
        BY <2>4 DEF Asked, Answering
      <3> QED BY <1>a, <2>1, <2>3, <3>1, <3>2, RowsStand
    <2> QED BY <2>5, <2>6
  <1> QED BY <1>1, <1>3, <1>4, <1>5, <1>7, <1>9, <1>10, <1>b, <1>c, <1>d, <1>e
          DEF CascadeNext, TurnStep, Talks

\* While nothing is written, and nobody with a question in the history begins to wait, the
\* history stays in order.
LEMMA HistoryStands ==
  ASSUME SpeechInv, rows' = rows,
         \A u \in Turns : waitsFor'[u] = waitsFor[u] \/ turn[u] = "none"
  PROVE  HistoryInOrder'
  <1>0. RowsInv /\ HistoryInOrder BY DEF SpeechInv
  <1>1. /\ DOMAIN rows = 1..Len(rows) /\ Len(rows) \in Nat
        /\ \A i \in DOMAIN rows : rows[i][2] \in Turns
    BY RowsTyped
  <1> HIDE DEF SpeechInv
  <1>2. \A i \in DOMAIN rows : waitsFor'[rows[i][2]] = waitsFor[rows[i][2]]
    BY <1>0, <1>1 DEF RowsInv, Asked
  <1>3. ASSUME NEW j \in DOMAIN rows, rows[j][1] # "user"
        PROVE \E i \in 1..(j - 1) :
                /\ rows[i] = <<"user", rows[j][2]>>
                /\ \A k \in (i + 1)..(j - 1) :
                     rows[k][1] = "user" =>
                       rows[j][1] = "partial" /\ waitsFor'[rows[k][2]] # rows[j][2]
    <2>1. PICK i \in 1..(j - 1) :
                /\ rows[i] = <<"user", rows[j][2]>>
                /\ \A k \in (i + 1)..(j - 1) :
                     rows[k][1] = "user" =>
                       rows[j][1] = "partial" /\ waitsFor[rows[k][2]] # rows[j][2]
      BY <1>0, <1>3 DEF HistoryInOrder
    <2>2. (i + 1)..(j - 1) \subseteq DOMAIN rows BY <1>1
    <2> QED BY <1>2, <2>1, <2>2
  <1> QED BY <1>3 DEF HistoryInOrder

\* Nor does a row disturb it whose place is behind its question.
LEMMA HistoryGrows ==
  ASSUME SpeechInv, NEW kind \in RowKinds, NEW u \in Turns,
         rows' = Append(rows, <<kind, u>>), waitsFor' = waitsFor,
         kind # "user" =>
           \E i \in DOMAIN rows : UserRow(i, u) /\ \A k \in DOMAIN rows :
              k > i /\ rows[k][1] = "user" => kind = "partial" /\ waitsFor[rows[k][2]] # u
  PROVE  HistoryInOrder'
  <1>0. HistoryInOrder BY DEF SpeechInv
  <1>1. PICK n \in Nat : n = Len(rows) + 1 BY RowsTyped
  <1>2. /\ Len(rows) \in Nat /\ DOMAIN rows = 1..Len(rows) /\ DOMAIN rows' = 1..n
        /\ \A i \in DOMAIN rows : rows'[i] = rows[i] /\ rows[i][2] \in Turns
        /\ rows'[n] = <<kind, u>>
    BY <1>1, OneMoreRow
  <1> HIDE DEF SpeechInv
  <1>3. ASSUME NEW j \in DOMAIN rows', rows'[j][1] # "user"
        PROVE \E i \in 1..(j - 1) :
                /\ rows'[i] = <<"user", rows'[j][2]>>
                /\ \A k \in (i + 1)..(j - 1) :
                     rows'[k][1] = "user" =>
                       rows'[j][1] = "partial" /\ waitsFor'[rows'[k][2]] # rows'[j][2]
    <2>1. CASE j \in DOMAIN rows
      <3>1. rows'[j] = rows[j] BY <1>2, <2>1
      <3>2. PICK i \in 1..(j - 1) :
                /\ rows[i] = <<"user", rows[j][2]>>
                /\ \A k \in (i + 1)..(j - 1) :
                     rows[k][1] = "user" =>
                       rows[j][1] = "partial" /\ waitsFor[rows[k][2]] # rows[j][2]
        BY <1>0, <1>3, <2>1, <3>1 DEF HistoryInOrder
      <3>3. i \in DOMAIN rows /\ (i + 1)..(j - 1) \subseteq DOMAIN rows BY <1>2, <2>1
      <3>4. rows'[i] = rows[i] /\ \A k \in (i + 1)..(j - 1) : rows'[k] = rows[k] BY <1>2, <3>3
      <3> QED BY <3>1, <3>2, <3>4
    <2>2. CASE j \notin DOMAIN rows
      <3>1. j = n /\ rows'[j] = <<kind, u>> /\ kind # "user" BY <1>1, <1>2, <1>3, <2>2
      <3>2. PICK i \in DOMAIN rows : UserRow(i, u) /\ \A k \in DOMAIN rows :
              k > i /\ rows[k][1] = "user" => kind = "partial" /\ waitsFor[rows[k][2]] # u
        BY <3>1
      <3>3. i \in 1..(j - 1) /\ rows'[i] = <<"user", u>>
        BY <1>1, <1>2, <3>1, <3>2 DEF UserRow
      <3>4. ASSUME NEW k \in (i + 1)..(j - 1), rows'[k][1] = "user"
            PROVE kind = "partial" /\ waitsFor[rows'[k][2]] # u
        <4>1. k \in DOMAIN rows /\ k > i BY <1>1, <1>2, <3>1
        <4> QED BY <1>2, <3>2, <3>4, <4>1
      <3>5. rows'[j][1] = kind /\ rows'[j][2] = u BY <3>1
      <3>6. \A k \in (i + 1)..(j - 1) :
              rows'[k][1] = "user" =>
                rows'[j][1] = "partial" /\ waitsFor'[rows'[k][2]] # rows'[j][2]
        BY <1>2, <3>4, <3>5
      <3> QED BY <3>3, <3>5, <3>6
    <2> QED BY <2>1, <2>2
  <1> QED BY <1>3 DEF HistoryInOrder

\* Every step keeps the history in order.
LEMMA HistoryKept == SpeechInv /\ CascadeNext => HistoryInOrder'
  <1> SUFFICES ASSUME SpeechInv, CascadeNext PROVE HistoryInOrder' OBVIOUS
  <1>0. RowsInv /\ CascadeTypeOK BY DEF SpeechInv
  <1> HIDE DEF SpeechInv
  <1>1. CASE AsrReady \/ AsrFails \/ AsrCloses \/ SocketCloses \/ BargeIn \/ FinalWhenIdle
    <2>1. rows' = rows /\ waitsFor' = waitsFor
      BY <1>1 DEF AsrReady, AsrFails, AsrCloses, SocketCloses, GivenUp, BargeIn, FinalWhenIdle,
                  chatting
    <2> QED BY <2>1, HistoryStands
  <1>2. CASE FinalInterrupts
    <2>1. /\ heardTurns < NumTurns /\ rows' = rows
          /\ waitsFor' = waitsFor \/ waitsFor' = [waitsFor EXCEPT ![heardTurns + 1] = activeTask]
      BY <1>2 DEF FinalInterrupts, Hears
    <2>2. heardTurns + 1 \in Turns /\ turn[heardTurns + 1] = "none" BY <2>1, NextTurn
    <2>3. \A u \in Turns : waitsFor'[u] = waitsFor[u] \/ turn[u] = "none"
      BY <1>0, <2>1, <2>2 DEF CascadeTypeOK
    <2> QED BY <2>1, <2>3, HistoryStands
  <1>3. ASSUME NEW u \in Turns, TurnBegins(u) \/ Talks(u) \/ Delegated(u)
                                \/ TailSpoken(u) \/ AbortSeen(u) \/ TurnFails(u)
        PROVE HistoryInOrder'
    <2>1. CASE Talks(u) BY <1>0, <2>1, TalksMove, HistoryStands
    <2>2. CASE ~Talks(u)
      <3>1. rows' = rows /\ waitsFor' = waitsFor
        BY <1>3, <2>2 DEF TurnBegins, Delegated, quiet, TailSpoken, AbortSeen, TurnFails, Ends
      <3> QED BY <3>1, HistoryStands
    <2> QED BY <2>1, <2>2
  <1>4. ASSUME NEW u \in Turns, QuestionStored(u) PROVE HistoryInOrder'
    <2>1. rows' = Append(rows, <<"user", u>>) /\ waitsFor' = waitsFor /\ "user" \in RowKinds
      BY <1>4 DEF QuestionStored, quiet, RowKinds
    <2> QED BY <2>1, HistoryGrows
  <1>5. ASSUME NEW u \in Turns, NEW words \in BOOLEAN,
               CallsStored(u, words) \/ ReplyStored(u) \/ FailureStored(u)
        PROVE HistoryInOrder'
    <2>1. PICK kind \in RowKinds : rows' = Append(rows, <<kind, u>>)
      BY <1>5 DEF CallsStored, ReplyStored, FailureStored, RowKinds
    <2>2. turn[u] \in Answering /\ waitsFor' = waitsFor
      BY <1>5 DEF CallsStored, ReplyStored, FailureStored, quiet, Answering
    <2>3. \E i \in DOMAIN rows :
             UserRow(i, u) /\ \A k \in DOMAIN rows : k > i => rows[k][1] # "user"
      BY <1>0, <2>2 DEF RowsInv
    <2> QED BY <2>1, <2>2, <2>3, HistoryGrows
  <1>6. ASSUME NEW u \in Turns, NEW saved \in BOOLEAN, PartialWritten(u, saved)
        PROVE HistoryInOrder'
    <2>1. /\ partial[u] = "writing" /\ waitsFor' = waitsFor
          /\ rows' = IF saved THEN Append(rows, <<"partial", u>>) ELSE rows
      BY <1>6 DEF PartialWritten
    <2>2. \E i \in DOMAIN rows : UserRow(i, u) /\ \A k \in DOMAIN rows :
              k > i /\ rows[k][1] = "user" => waitsFor[rows[k][2]] # u
      BY <1>0, <2>1 DEF RowsInv
    <2>3. CASE saved
      <3>1. rows' = Append(rows, <<"partial", u>>) /\ "partial" \in RowKinds
        BY <2>1, <2>3 DEF RowKinds
      <3> QED BY <2>1, <2>2, <3>1, HistoryGrows
    <2>4. CASE ~saved
      <3>1. rows' = rows BY <2>1, <2>4
      <3> QED BY <2>1, <3>1, HistoryStands
    <2> QED BY <2>3, <2>4
  <1> QED BY <1>1, <1>2, <1>3, <1>4, <1>5, <1>6 DEF CascadeNext, TurnStep, Talks

\* Which rows there are, while nothing is written.
LEMMA HasStands ==
  ASSUME rows' = rows, NEW kind, NEW u
  PROVE  Has(kind, u)' <=> Has(kind, u)
  BY DEF Has

\* And after something is.
LEMMA HasGrows ==
  ASSUME SpeechInv, NEW kind \in RowKinds, NEW u \in Turns,
         rows' = Append(rows, <<kind, u>>), NEW k, NEW w
  PROVE  Has(k, w)' <=> Has(k, w) \/ (k = kind /\ w = u)
  <1>1. PICK n \in Nat : n = Len(rows) + 1 BY RowsTyped
  <1>2. /\ Len(rows) \in Nat /\ DOMAIN rows = 1..Len(rows) /\ DOMAIN rows' = 1..n
        /\ \A i \in DOMAIN rows : rows'[i] = rows[i]
        /\ rows'[n] = <<kind, u>>
    BY <1>1, OneMoreRow
  <1> HIDE DEF SpeechInv
  <1>3. /\ n \in DOMAIN rows' /\ DOMAIN rows \subseteq DOMAIN rows'
        /\ \A i \in DOMAIN rows' : i \in DOMAIN rows \/ i = n
    BY <1>1, <1>2
  <1>4. ASSUME Has(k, w)' PROVE Has(k, w) \/ (k = kind /\ w = u)
    <2>1. PICK i \in DOMAIN rows' : rows'[i] = <<k, w>> BY <1>4 DEF Has
    <2> QED BY <1>2, <1>3, <2>1 DEF Has
  <1>5. ASSUME Has(k, w) PROVE Has(k, w)'
    BY <1>2, <1>3, <1>5 DEF Has
  <1>6. ASSUME k = kind, w = u PROVE Has(k, w)'
    BY <1>2, <1>3, <1>6 DEF Has
  <1> QED BY <1>4, <1>5, <1>6

\* What is stored of a turn is as it was, if the turn is: up to where it stands before its
\* reply is.
LEMMA RepliesStand ==
  ASSUME NEW u \in Turns, ReplyKept(u),
         turn'[u] = turn[u] \/ {turn[u], turn'[u]} \cap {"calling", "storing", "tail", "over"} = {},
         partial'[u] = partial[u], u \in aborted' <=> u \in aborted,
         u \in spoken' <=> u \in spoken, u \in spoiled' <=> u \in spoiled,
         u \in lateStop' <=> u \in lateStop,
         u \in allIn' <=> u \in allIn, Has("reply", u)' <=> Has("reply", u),
         Has("partial", u)' <=> Has("partial", u), Has("calls", u)' <=> Has("calls", u)
  PROVE  ReplyKept(u)'
  <1>1. turn[u] \notin {"calling", "storing", "tail", "over"} =>
          turn'[u] \notin {"calling", "storing", "tail", "over"}
    OBVIOUS
  <1> QED BY <1>1 DEF ReplyKept, Ruined

\* No step stores a reply, whole or partial, twice.
LEMMA OnceGrows ==
  ASSUME SpeechInv, NEW kind \in RowKinds, NEW u \in Turns,
         rows' = Append(rows, <<kind, u>>), kind \in {"partial", "reply"} => ~Has(kind, u)
  PROVE  \A i, j \in DOMAIN rows' :
            rows'[i] = rows'[j] /\ rows'[i][1] \in {"partial", "reply"} => i = j
  <1>0. \A i, j \in DOMAIN rows :
          rows[i] = rows[j] /\ rows[i][1] \in {"partial", "reply"} => i = j
    BY DEF SpeechInv, StoredInv
  <1>1. PICK n \in Nat : n = Len(rows) + 1 BY RowsTyped
  <1>2. /\ Len(rows) \in Nat /\ DOMAIN rows = 1..Len(rows) /\ DOMAIN rows' = 1..n
        /\ \A i \in DOMAIN rows : rows'[i] = rows[i]
        /\ rows'[n] = <<kind, u>>
    BY <1>1, OneMoreRow
  <1> HIDE DEF SpeechInv
  <1>3. \A i \in DOMAIN rows' : i \in DOMAIN rows \/ i = n BY <1>1, <1>2
  <1>4. ASSUME NEW i \in DOMAIN rows, rows'[i] = <<kind, u>> PROVE kind \notin {"partial", "reply"}
    BY <1>2, <1>4 DEF Has
  <1> SUFFICES ASSUME NEW i \in DOMAIN rows', NEW j \in DOMAIN rows',
                      rows'[i] = rows'[j], rows'[i][1] \in {"partial", "reply"}
               PROVE i = j
    OBVIOUS
  <1>5. rows'[n][1] = kind BY <1>2
  <1>6. CASE i = n \/ j = n BY <1>2, <1>3, <1>4, <1>5, <1>6
  <1>7. CASE i # n /\ j # n BY <1>0, <1>2, <1>3, <1>7
  <1> QED BY <1>6, <1>7

\* Every step stores of a turn what is due to it, once.
LEMMA StoredKept == SpeechInv /\ CascadeNext => StoredInv'
  <1> SUFFICES ASSUME SpeechInv, CascadeNext PROVE StoredInv' OBVIOUS
  <1>0. StoredInv /\ CascadeTypeOK /\ ActiveInv BY DEF SpeechInv
  <1>a. turn \in [Turns -> Stages] /\ partial \in [Turns -> {"none", "writing", "over"}]
    BY <1>0 DEF CascadeTypeOK
  <1>b. \A w \in Turns : ReplyKept(w) BY <1>0 DEF StoredInv
  <1> HIDE DEF SpeechInv
  <1>1. ASSUME rows' = rows, \A w \in Turns : ReplyKept(w)' PROVE StoredInv'
    BY <1>0, <1>1 DEF StoredInv
  <1>2. CASE AsrReady \/ AsrFails \/ AsrCloses
    <2>1. UNCHANGED chatting BY <1>2 DEF AsrReady, AsrFails, AsrCloses
    <2> QED BY <1>0, <2>1 DEF chatting, StoredInv, ReplyKept, Has, Ruined
  <1>3. CASE SocketCloses
    <2>1. /\ rows' = rows /\ turn' = turn /\ spoken' = spoken /\ partial' = partial
          /\ lateStop' = lateStop /\ allIn' = allIn
          /\ aborted' = IF activeTask # 0 THEN aborted \cup {activeTask} ELSE aborted
          /\ spoiled' = IF activeTask # 0 THEN spoiled \cup {activeTask} ELSE spoiled
      BY <1>3 DEF SocketCloses, GivenUp
    <2>2. ASSUME NEW w \in Turns PROVE ReplyKept(w)'
      <3>1. /\ Has("reply", w)' <=> Has("reply", w)
            /\ Has("partial", w)' <=> Has("partial", w)
            /\ Has("calls", w)' <=> Has("calls", w)
        BY <2>1, HasStands
      <3>2. ReplyKept(w) BY <1>b
      <3> QED BY <2>1, <3>1, <3>2 DEF ReplyKept, Ruined
    <2> QED BY <1>1, <2>1, <2>2
  <1>4. ASSUME activeTask # 0, Interrupted, rows' = rows, spoken' = spoken, spoiled' = spoiled,
               allIn' = allIn, \A w \in Turns : turn'[w] = turn[w]
                                \/ (turn[w] = "none" /\ turn'[w] \in {"waiting", "queued"})
        PROVE StoredInv'
    <2>1. activeTask \in Turns /\ activeTask \notin aborted /\ turn[activeTask] # "none"
      BY <1>0, <1>4 DEF CascadeTypeOK, ActiveInv, Queued
    <2>2. PICK t \in Turns : t = activeTask BY <2>1
    <2>3. ASSUME NEW w \in Turns, w # t PROVE ReplyKept(w)'
      <3>1. /\ Has("reply", w)' <=> Has("reply", w)
            /\ Has("partial", w)' <=> Has("partial", w)
            /\ Has("calls", w)' <=> Has("calls", w)
        BY <1>4, HasStands
      <3>2. partial'[w] = partial[w]
        BY <1>4, <1>a, <2>2, <2>3 DEF Interrupted
      <3>3. (w \in aborted' <=> w \in aborted) /\ (w \in lateStop' <=> w \in lateStop)
        BY <1>4, <2>2, <2>3 DEF Interrupted
      <3>4. \/ turn'[w] = turn[w]
            \/ {turn[w], turn'[w]} \cap {"calling", "storing", "tail", "over"} = {}
        BY <1>4
      <3> QED BY <1>4, <1>b, <3>1, <3>2, <3>3, <3>4, RepliesStand
    <2>4. ReplyKept(t)'
      <3>1. /\ Has("reply", t)' <=> Has("reply", t)
            /\ Has("partial", t)' <=> Has("partial", t)
            /\ Has("calls", t)' <=> Has("calls", t)
        BY <1>4, HasStands
      <3>2. ReplyKept(t) /\ t \notin aborted /\ turn'[t] = turn[t] /\ turn[t] # "over"
        BY <1>0, <1>4, <1>b, <2>1, <2>2 DEF ActiveInv, Queued
      <3>3. /\ t \in aborted' /\ (t \in allIn \/ Has("calls", t) => t \in lateStop')
            /\ t \in lateStop => t \in lateStop'
        BY <1>4, <2>2 DEF Interrupted
      <3>4. partial'[t] = IF t \in spoken THEN "writing" ELSE partial[t]
        BY <1>4, <1>a, <2>2 DEF Interrupted
      <3> QED BY <1>4, <3>1, <3>2, <3>3, <3>4 DEF ReplyKept, Ruined
    <2> QED BY <1>1, <1>4, <2>3, <2>4
  <1>5. CASE BargeIn
    BY <1>4, <1>5 DEF BargeIn
  <1>6. CASE FinalWhenIdle
    <2>1. /\ heardTurns < NumTurns /\ Runs(heardTurns + 1, 0)
          /\ rows' = rows /\ spoken' = spoken /\ partial' = partial
          /\ aborted' = aborted /\ lateStop' = lateStop /\ spoiled' = spoiled
          /\ allIn' = allIn
      BY <1>6 DEF FinalWhenIdle, Hears
    <2>2. heardTurns + 1 \in Turns /\ turn[heardTurns + 1] = "none" BY <2>1, NextTurn
    <2>3. turn' = [turn EXCEPT ![heardTurns + 1] = "queued"] BY <2>1 DEF Runs
    <2>4. \A w \in Turns : turn'[w] = turn[w]
                           \/ {turn[w], turn'[w]} \cap {"calling", "storing", "tail", "over"} = {}
      BY <1>a, <2>2, <2>3
    <2>5. ASSUME NEW w \in Turns PROVE ReplyKept(w)'
      <3>1. /\ Has("reply", w)' <=> Has("reply", w)
            /\ Has("partial", w)' <=> Has("partial", w)
            /\ Has("calls", w)' <=> Has("calls", w)
        BY <2>1, HasStands
      <3> QED BY <1>b, <2>1, <2>4, <3>1, RepliesStand
    <2> QED BY <1>1, <2>1, <2>5
  <1>7. CASE FinalInterrupts
    <2>1. /\ heardTurns < NumTurns /\ activeTask # 0 /\ Interrupted
          /\ rows' = rows /\ spoken' = spoken /\ spoiled' = spoiled /\ allIn' = allIn
      BY <1>7 DEF FinalInterrupts, Hears
    <2>2. heardTurns + 1 \in Turns /\ turn[heardTurns + 1] = "none" BY <2>1, NextTurn
    <2>3. \E s \in {"waiting", "queued"} : turn' = [turn EXCEPT ![heardTurns + 1] = s]
      BY <1>7 DEF FinalInterrupts, Runs
    <2>4. \A w \in Turns : turn'[w] = turn[w]
                           \/ (turn[w] = "none" /\ turn'[w] \in {"waiting", "queued"})
      BY <1>a, <2>2, <2>3
    <2> QED BY <1>4, <2>1, <2>4
  <1>8. ASSUME NEW u \in Turns, NEW saved \in BOOLEAN, PartialWritten(u, saved)
        PROVE StoredInv'
    <2>1. /\ spoken' = spoken /\ aborted' = aborted /\ lateStop' = lateStop /\ allIn' = allIn
          /\ partial[u] = "writing" /\ partial' = [partial EXCEPT ![u] = "over"]
          /\ rows' = IF saved THEN Append(rows, <<"partial", u>>) ELSE rows
          /\ spoiled' = IF saved THEN spoiled ELSE spoiled \cup {u}
      BY <1>8 DEF PartialWritten
    <2>2. \A w \in Turns : turn'[w] = turn[w]
                           \/ (turn[w] = "waiting" /\ turn'[w] \in {"queued", "dropped"})
      <3>1. CASE \E v \in Turns : waitsFor[v] = u /\ turn[v] = "waiting"
        <4>1. PICK v \in Turns : waitsFor[v] = u /\ turn[v] = "waiting" /\ Runs(v, activeTask)
          BY <3>1, <1>8 DEF PartialWritten
        <4>2. PICK s \in {"queued", "dropped"} : turn' = [turn EXCEPT ![v] = s]
          BY <4>1 DEF Runs
        <4> QED BY <1>a, <4>1, <4>2
      <3>2. CASE ~\E v \in Turns : waitsFor[v] = u /\ turn[v] = "waiting"
        BY <3>2, <1>8 DEF PartialWritten
      <3> QED BY <3>1, <3>2
    <2>3. ASSUME NEW w \in Turns
          PROVE /\ Has("reply", w)' <=> Has("reply", w)
                /\ Has("partial", w)' <=> Has("partial", w) \/ (saved /\ w = u)
                /\ Has("calls", w)' <=> Has("calls", w)
      <3>1. CASE saved
        <4>1. rows' = Append(rows, <<"partial", u>>) /\ "partial" \in RowKinds
          BY <2>1, <3>1 DEF RowKinds
        <4>2. /\ Has("reply", w)' <=> Has("reply", w) \/ ("reply" = "partial" /\ w = u)
              /\ Has("calls", w)' <=> Has("calls", w) \/ ("calls" = "partial" /\ w = u)
              /\ Has("partial", w)' <=> Has("partial", w) \/ ("partial" = "partial" /\ w = u)
          BY <4>1, HasGrows
        <4> QED BY <3>1, <4>2
      <3>2. CASE ~saved
        <4>1. rows' = rows BY <2>1, <3>2
        <4> QED BY <3>2, <4>1, HasStands
      <3> QED BY <3>1, <3>2
    <2>4. ASSUME NEW w \in Turns, w # u PROVE ReplyKept(w)'
      <3>1. partial'[w] = partial[w] BY <1>a, <2>1, <2>4
      <3>2. \/ turn'[w] = turn[w]
            \/ {turn[w], turn'[w]} \cap {"calling", "storing", "tail", "over"} = {}
        BY <2>2
      <3>3. w \in spoiled' <=> w \in spoiled BY <2>1, <2>4
      <3>4. /\ Has("reply", w)' <=> Has("reply", w)
            /\ Has("partial", w)' <=> Has("partial", w)
            /\ Has("calls", w)' <=> Has("calls", w)
        BY <2>3, <2>4
      <3> QED BY <1>b, <2>1, <3>1, <3>2, <3>3, <3>4, RepliesStand
    <2>5. ReplyKept(u)'
      <3>1. partial'[u] = "over" /\ (~saved => u \in spoiled') /\ (u \in spoiled => u \in spoiled')
        BY <1>a, <2>1
      <3>2. ReplyKept(u) BY <1>b
      <3>3. turn'[u] = turn[u] BY <1>0, <2>1, <2>2, <3>2 DEF ReplyKept, ActiveInv
      <3>4. /\ Has("reply", u)' <=> Has("reply", u)
            /\ Has("partial", u)' <=> Has("partial", u) \/ saved
            /\ Has("calls", u)' <=> Has("calls", u)
        BY <2>3
      <3> QED BY <2>1, <3>1, <3>2, <3>3, <3>4 DEF ReplyKept, Ruined
    <2>6. CASE saved
      <3>1. rows' = Append(rows, <<"partial", u>>) /\ "partial" \in RowKinds
        BY <2>1, <2>6 DEF RowKinds
      <3>2. ~Has("partial", u) BY <1>b, <2>1 DEF ReplyKept
      <3>3. \A i, j \in DOMAIN rows' :
              rows'[i] = rows'[j] /\ rows'[i][1] \in {"partial", "reply"} => i = j
        BY <3>1, <3>2, OnceGrows
      <3> QED BY <2>4, <2>5, <3>3 DEF StoredInv
    <2>7. CASE ~saved
      <3>1. rows' = rows BY <2>1, <2>7
      <3> QED BY <1>1, <2>4, <2>5, <3>1
    <2> QED BY <2>6, <2>7
  <1>9. ASSUME NEW u \in Turns, TurnBegins(u) PROVE StoredInv'
    <2>1. /\ turn[u] = "queued" /\ turn' = [turn EXCEPT ![u] = "opening"]
          /\ rows' = rows /\ spoken' = spoken /\ partial' = partial /\ allIn' = allIn
          /\ aborted' = aborted /\ lateStop' = lateStop /\ spoiled' = spoiled
      BY <1>9 DEF TurnBegins, quiet
    <2>2. \A w \in Turns : turn'[w] = turn[w]
                           \/ {turn[w], turn'[w]} \cap {"calling", "storing", "tail", "over"} = {}
      BY <1>a, <2>1
    <2>3. ASSUME NEW w \in Turns PROVE ReplyKept(w)'
      <3>1. /\ Has("reply", w)' <=> Has("reply", w)
            /\ Has("partial", w)' <=> Has("partial", w)
            /\ Has("calls", w)' <=> Has("calls", w)
        BY <2>1, HasStands
      <3> QED BY <1>b, <2>1, <2>2, <3>1, RepliesStand
    <2> QED BY <1>1, <2>1, <2>3
  <1>10. ASSUME NEW u \in Turns, NEW kind \in RowKinds, NEW s \in Stages,
                rows' = Append(rows, <<kind, u>>), turn' = [turn EXCEPT ![u] = s],
                spoken' = spoken, UNCHANGED quiet,
                kind \in {"partial", "reply"} => ~Has(kind, u),
                \A w \in Turns : w # u => /\ w \in allIn' <=> w \in allIn
                                          /\ w \in spoiled' <=> w \in spoiled,
                ReplyKept(u)'
         PROVE StoredInv'
    <2>1. partial' = partial /\ aborted' = aborted /\ lateStop' = lateStop BY <1>10 DEF quiet
    <2>2. ASSUME NEW w \in Turns, w # u PROVE ReplyKept(w)'
      <3>1. turn'[w] = turn[w] BY <1>a, <1>10, <2>2
      <3>2. /\ Has("reply", w)' <=> Has("reply", w) \/ ("reply" = kind /\ w = u)
            /\ Has("partial", w)' <=> Has("partial", w) \/ ("partial" = kind /\ w = u)
            /\ Has("calls", w)' <=> Has("calls", w) \/ ("calls" = kind /\ w = u)
        BY <1>10, HasGrows
      <3>3. /\ Has("reply", w)' <=> Has("reply", w)
            /\ Has("partial", w)' <=> Has("partial", w)
            /\ Has("calls", w)' <=> Has("calls", w)
        BY <2>2, <3>2
      <3>4. /\ partial'[w] = partial[w] /\ (w \in aborted' <=> w \in aborted)
            /\ (w \in lateStop' <=> w \in lateStop) /\ (w \in spoken' <=> w \in spoken)
            /\ (w \in allIn' <=> w \in allIn) /\ (w \in spoiled' <=> w \in spoiled)
        <4>1. (w \in allIn' <=> w \in allIn) /\ (w \in spoiled' <=> w \in spoiled)
          BY <1>10, <2>2
        <4>2. spoken' = spoken BY <1>10
        <4> HIDE <1>10
        <4> QED BY <2>1, <4>1, <4>2
      <3>5. ReplyKept(w) BY <1>b
      <3> HIDE <1>10
      <3> QED BY <3>1, <3>3, <3>4, <3>5, RepliesStand
    <2>3. \A i, j \in DOMAIN rows' :
            rows'[i] = rows'[j] /\ rows'[i][1] \in {"partial", "reply"} => i = j
      BY <1>10, OnceGrows
    <2> QED BY <1>10, <2>2, <2>3 DEF StoredInv
  <1>11. ASSUME NEW u \in Turns, NEW kind \in RowKinds, rows' = Append(rows, <<kind, u>>)
         PROVE /\ Has("reply", u)' <=> Has("reply", u) \/ kind = "reply"
               /\ Has("partial", u)' <=> Has("partial", u) \/ kind = "partial"
               /\ Has("calls", u)' <=> Has("calls", u) \/ kind = "calls"
    BY <1>11, HasGrows
  <1>12. ASSUME NEW u \in Turns, QuestionStored(u) PROVE StoredInv'
    <2>1. /\ turn[u] = "opening" /\ turn' = [turn EXCEPT ![u] = "thinking"]
          /\ rows' = Append(rows, <<"user", u>>) /\ spoken' = spoken
          /\ allIn' = allIn /\ spoiled' = spoiled /\ UNCHANGED quiet
      BY <1>12 DEF QuestionStored
    <2>2. "user" \in RowKinds /\ "thinking" \in Stages BY DEF RowKinds, Stages
    <2>3. ReplyKept(u)'
      <3>1. turn'[u] = "thinking" BY <1>a, <2>1
      <3>2. ReplyKept(u) BY <1>b
      <3>3. partial' = partial /\ aborted' = aborted /\ lateStop' = lateStop BY <2>1 DEF quiet
      <3>4. /\ Has("reply", u)' <=> Has("reply", u)
            /\ Has("partial", u)' <=> Has("partial", u)
            /\ Has("calls", u)' <=> Has("calls", u)
        BY <1>11, <2>1, <2>2
      <3> QED BY <2>1, <3>1, <3>2, <3>3, <3>4 DEF ReplyKept, Ruined
    <2> QED BY <1>10, <2>1, <2>2, <2>3
  <1>13. ASSUME NEW u \in Turns, NEW words \in BOOLEAN, CallsStored(u, words) PROVE StoredInv'
    <2>1. PICK kind \in {"calls", "mute"} : rows' = Append(rows, <<kind, u>>)
      BY <1>13 DEF CallsStored
    <2>2. /\ turn[u] = "calling" /\ turn' = [turn EXCEPT ![u] = "thinking"] /\ spoken' = spoken
          /\ allIn' = allIn \ {u} /\ spoiled' = spoiled /\ UNCHANGED quiet
      BY <1>13 DEF CallsStored
    <2>3. kind \in RowKinds /\ "thinking" \in Stages BY DEF RowKinds, Stages
    <2>4. ReplyKept(u)'
      <3>1. turn'[u] = "thinking" BY <1>a, <2>2
      <3>2. ReplyKept(u) BY <1>b
      <3>3. partial' = partial /\ aborted' = aborted /\ lateStop' = lateStop BY <2>2 DEF quiet
      <3>4. /\ Has("reply", u)' <=> Has("reply", u)
            /\ Has("partial", u)' <=> Has("partial", u)
        BY <1>11, <2>1, <2>3
      <3> QED BY <2>2, <3>1, <3>2, <3>3, <3>4 DEF ReplyKept, Ruined
    <2>5. \A w \in Turns : w # u => /\ w \in allIn' <=> w \in allIn
                                    /\ w \in spoiled' <=> w \in spoiled
      BY <2>2
    <2> QED BY <1>10, <2>1, <2>2, <2>3, <2>4, <2>5
  <1>14. ASSUME NEW u \in Turns, ReplyStored(u) PROVE StoredInv'
    <2>1. /\ turn[u] = "storing" /\ turn' = [turn EXCEPT ![u] = "tail"]
          /\ rows' = Append(rows, <<"reply", u>>) /\ spoken' = spoken
          /\ allIn' = allIn /\ spoiled' = spoiled /\ UNCHANGED quiet
      BY <1>14 DEF ReplyStored
    <2>2. "reply" \in RowKinds /\ "tail" \in Stages BY DEF RowKinds, Stages
    <2>3. ReplyKept(u)'
      <3>1. turn'[u] = "tail" BY <1>a, <2>1
      <3>2. ReplyKept(u) BY <1>b
      <3>3. partial' = partial /\ aborted' = aborted /\ lateStop' = lateStop BY <2>1 DEF quiet
      <3>4. /\ Has("reply", u)' /\ (Has("partial", u)' <=> Has("partial", u))
            /\ Has("calls", u)' <=> Has("calls", u)
        BY <1>11, <2>1, <2>2
      <3> QED BY <2>1, <3>1, <3>2, <3>3, <3>4 DEF ReplyKept, Ruined
    <2>4. ~Has("reply", u) BY <1>b, <2>1 DEF ReplyKept
    <2> QED BY <1>10, <2>1, <2>2, <2>3, <2>4
  <1>15. ASSUME NEW u \in Turns, FailureStored(u) PROVE StoredInv'
    <2>1. /\ turn[u] = "failing" /\ turn' = [turn EXCEPT ![u] = "tail"]
          /\ rows' = Append(rows, <<"failed", u>>) /\ spoken' = spoken /\ allIn' = allIn
          /\ spoiled' = (IF u \in aborted THEN spoiled ELSE spoiled \cup {u}) /\ UNCHANGED quiet
      BY <1>15 DEF FailureStored
    <2>2. "failed" \in RowKinds /\ "tail" \in Stages BY DEF RowKinds, Stages
    <2>3. ReplyKept(u)'
      <3>1. turn'[u] = "tail" BY <1>a, <2>1
      <3>2. ReplyKept(u) BY <1>b
      <3>3. partial' = partial /\ aborted' = aborted /\ lateStop' = lateStop BY <2>1 DEF quiet
      <3>4. /\ Has("reply", u)' <=> Has("reply", u)
            /\ Has("partial", u)' <=> Has("partial", u)
            /\ Has("calls", u)' <=> Has("calls", u)
        BY <1>11, <2>1, <2>2
      <3>5. (u \notin aborted => u \in spoiled') /\ (u \in spoiled => u \in spoiled') BY <2>1
      <3> QED BY <2>1, <3>1, <3>2, <3>3, <3>4, <3>5 DEF ReplyKept, Ruined
    <2>4. \A w \in Turns : w # u => (w \in spoiled' <=> w \in spoiled) BY <2>1
    <2> QED BY <1>10, <2>1, <2>2, <2>3, <2>4
  <1>16. ASSUME NEW u \in Turns, Talks(u) \/ Delegated(u) \/ TailSpoken(u) \/ AbortSeen(u)
                                 \/ TurnFails(u)
         PROVE StoredInv'
    <2>1. /\ rows' = rows /\ partial' = partial /\ aborted' = aborted /\ lateStop' = lateStop
          /\ \A w \in Turns : w # u => /\ turn'[w] = turn[w]
                                       /\ w \in allIn' <=> w \in allIn
                                       /\ w \in spoken' <=> w \in spoken
                                       /\ w \in spoiled' <=> w \in spoiled
      <3>1. CASE Talks(u) BY <1>0, <3>1, TalksMove
      <3>2. CASE ~Talks(u)
        BY <1>a, <1>16, <3>2 DEF Delegated, quiet, TailSpoken, AbortSeen, TurnFails, Ends
      <3> QED BY <3>1, <3>2
    <2>2. ASSUME NEW w \in Turns
          PROVE /\ Has("reply", w)' <=> Has("reply", w)
                /\ Has("partial", w)' <=> Has("partial", w)
                /\ Has("calls", w)' <=> Has("calls", w)
      BY <2>1, HasStands
    <2>3. ASSUME NEW w \in Turns, w # u PROVE ReplyKept(w)'
      BY <1>b, <2>1, <2>2, <2>3, RepliesStand
    <2>4. ReplyKept(u)'
      <3>1. ReplyKept(u) /\ (u \in spoken => turn[u] \in Asked) BY <1>0, <1>b DEF ActiveInv
      <3>2. CASE Talks(u)
        BY <1>a, <2>1, <2>2, <3>1, <3>2 DEF Talks, RoundBegins, AllReceived, SentenceBegins,
             SentenceSpoken, CallsComplete, ClaimRefused, LastToken, StreamFails, ReplyKept, Ruined
      <3>3. CASE Delegated(u)
        <4>1. /\ turn'[u] = "tail" /\ turn[u] = "thinking" /\ Has("calls", u)
              /\ spoiled' = spoiled /\ spoken' = spoken /\ allIn' = allIn
          BY <1>a, <3>3 DEF Delegated, Has
        <4> QED BY <2>1, <2>2, <3>1, <4>1 DEF ReplyKept, Ruined
      <3>4. CASE TailSpoken(u)
        <4>1. /\ turn'[u] = "over" /\ turn[u] = "tail" /\ u \notin aborted /\ spoiled' = spoiled
              /\ u \notin allIn'
          BY <1>a, <3>4 DEF TailSpoken, Ends
        <4> QED BY <2>1, <2>2, <3>1, <4>1 DEF ReplyKept, Ruined
      <3>5. CASE AbortSeen(u)
        <4>1. /\ turn'[u] = "over" /\ turn[u] # "over" /\ u \in aborted /\ u \notin allIn'
              /\ spoiled' = spoiled /\ spoken' = spoken
          BY <1>a, <3>5 DEF AbortSeen, Ends
        <4>2. partial[u] \in {"none", "writing", "over"} BY <1>a
        <4> QED BY <2>1, <2>2, <3>1, <4>1, <4>2 DEF ReplyKept, Ruined
      <3>6. CASE TurnFails(u)
        <4>1. /\ turn'[u] = "over" /\ turn[u] # "over" /\ u \notin allIn' /\ spoken' = spoken
              /\ u \notin aborted => u \in spoiled'
              /\ u \in aborted => spoiled' = spoiled
          BY <1>a, <3>6 DEF TurnFails, Ends
        <4>2. partial[u] \in {"none", "writing", "over"} BY <1>a
        <4> QED BY <2>1, <2>2, <3>1, <4>1, <4>2 DEF ReplyKept, Ruined
      <3> QED BY <1>16, <3>2, <3>3, <3>4, <3>5, <3>6
    <2> QED BY <1>1, <2>1, <2>3, <2>4
  <1> QED BY <1>2, <1>3, <1>5, <1>6, <1>7, <1>8, <1>9, <1>12, <1>13, <1>14, <1>15, <1>16
          DEF CascadeNext, TurnStep, Talks

\* A step that changes nothing of a voice connection.
LEMMA SpeechStutters == SpeechInv /\ UNCHANGED cascadeVars => SpeechInv'
  <1> SUFFICES ASSUME SpeechInv, UNCHANGED cascadeVars PROVE SpeechInv' OBVIOUS
  <1> USE DEF SpeechInv, cascadeVars, ears, chatting
  <1>1. CascadeTypeOK' BY DEF CascadeTypeOK
  <1>2. QueueInv' BY DEF QueueInv
  <1>3. ActiveInv' BY DEF ActiveInv
  <1>4. RowsInv' BY DEF RowsInv, UserRow
  <1>5. StoredInv' BY DEF StoredInv, ReplyKept, Has, Ruined
  <1>6. HistoryInOrder' BY DEF HistoryInOrder
  <1>7. RecogniserIsClosed' BY DEF RecogniserIsClosed
  <1> QED BY <1>1, <1>2, <1>3, <1>4, <1>5, <1>6, <1>7

\* Every step keeps the invariant.
LEMMA SpeechStep == SpeechInv /\ [CascadeNext]_cascadeVars => SpeechInv'
  <1>1. SpeechInv /\ CascadeNext => SpeechInv'
    BY CascadeTypeKept, QueueKept, ActiveKept, RowsKept, StoredKept, HistoryKept, RecogniserKept
       DEF SpeechInv
  <1> QED BY <1>1, SpeechStutters

\* Of two rows with a turn's words none is partial, unless it was interrupted too late; and of
\* a whole reply there is one.
LEMMA StoredOnce == SpeechInv => SpokenIsStoredOnce
  <1> SUFFICES ASSUME SpeechInv, NEW u \in Turns \ (lateStop \cup spoiled)
               PROVE /\ \A i, j \in Said(u) : i # j =>
                          /\ "calls" \in {rows[i][1], rows[j][1]}
                          /\ "partial" \notin {rows[i][1], rows[j][1]}
                     /\ turn[u] = "over" /\ u \in spoken /\ partial[u] # "writing" =>
                          Said(u) # {}
    BY DEF SpokenIsStoredOnce
  <1>0. ReplyKept(u) /\ u \notin Ruined BY DEF SpeechInv, StoredInv, Ruined
  <1>1. \A i, j \in DOMAIN rows :
          rows[i] = rows[j] /\ rows[i][1] \in {"partial", "reply"} => i = j
    BY DEF SpeechInv, StoredInv
  <1> HIDE DEF SpeechInv
  <1>2. ASSUME NEW i \in Said(u)
        PROVE /\ i \in DOMAIN rows /\ rows[i] = <<rows[i][1], u>>
              /\ rows[i][1] \in {"partial", "reply", "calls"}
    BY DEF Said
  <1>3. /\ ~(Has("reply", u) /\ Has("partial", u))
        /\ ~(Has("calls", u) /\ Has("partial", u))
    BY <1>0 DEF ReplyKept
  <1>4. ASSUME NEW i \in Said(u), NEW j \in Said(u), i # j
        PROVE /\ "calls" \in {rows[i][1], rows[j][1]}
              /\ "partial" \notin {rows[i][1], rows[j][1]}
    <2>1. Has(rows[i][1], u) /\ Has(rows[j][1], u) BY <1>2 DEF Has
    <2>2. rows[i][1] = rows[j][1] => rows[i][1] = "calls" BY <1>1, <1>2, <1>4
    <2>3. CASE rows[i][1] = rows[j][1] BY <2>2, <2>3
    <2>4. CASE rows[i][1] # rows[j][1] BY <1>2, <1>3, <2>1, <2>4
    <2> QED BY <2>3, <2>4
  <1>5. ASSUME turn[u] = "over", u \in spoken, partial[u] # "writing" PROVE Said(u) # {}
    <2>1. Has("reply", u) \/ Has("partial", u) \/ Has("calls", u) BY <1>0, <1>5 DEF ReplyKept
    <2>2. PICK i \in DOMAIN rows : rows[i] \in {"partial", "reply", "calls"} \X {u}
      BY <2>1 DEF Has
    <2>3. i \in Said(u) BY <2>2 DEF Said
    <2> QED BY <2>3
  <1> QED BY <1>4, <1>5

\* Of a voice connection, with any number of turns: the history has each answer behind its
\* question, what was spoken of it once, and the recogniser is closed with the client
\* (qwen-voice.ts: runVoiceTask, interrupt and the socket's handlers).
THEOREM SpeechKept == CascadeSpec => []SpeechIsKept
  <1>1. SpeechInv => SpeechIsKept
    BY StoredOnce DEF SpeechInv, SpeechIsKept
  <1> QED BY SpeechInitially, SpeechStep, <1>1, PTL DEF CascadeSpec

(***************************************************************************)
(* The commands of a session run one after the other, and none goes on     *)
(* behind a caller that has gone, for any number of commands.              *)
(***************************************************************************)
\* What is still to be waited for: in the queue or running.
Unsettled(c) == cmd[c] \in {"queued", "running"}

\* Commands arrive in their order; the entry is the last that came, or that one is over;
\* and each waits for the one before it unless that was over when it came.
QueueOfCommands ==
  /\ \A b, c \in Commands : b < c /\ cmd[c] # "new" => cmd[b] # "new"
  /\ tail # NoCommand => cmd[tail] # "new" /\ \A c \in Commands : c > tail => cmd[c] = "new"
  /\ tail = NoCommand =>
       \A c \in Commands : cmd[c] # "new" /\ (\A d \in Commands : d > c => cmd[d] = "new") =>
          cmd[c] = "over"
  /\ \A c \in Commands : cmd[c] # "new" =>
       \/ behind[c] # NoCommand /\ behind[c] = c - 1
       \/ behind[c] = NoCommand /\ (c > 1 => cmd[c - 1] = "over")

\* Who has begun has nobody unsettled before it, but across one that gave up.
BegunInTurn ==
  \A a, b \in Commands : a < b /\ cmd[b] \in {"running", "over"} /\ Unsettled(a) =>
    \E c \in (a + 1)..(b - 1) : cmd[c] = "gaveUp"

ShellInv == ShellTypeOK /\ QueueOfCommands /\ BegunInTurn /\ AbortsReachTheProcess

\* The one before it, when it arrives, is the last that came.
LEMMA ArrivalInTurn ==
  ASSUME ShellInv, NEW c \in Commands, CommandArrives(c)
  PROVE  QueueOfCommands'
  <1> USE NumCommandsAssumption
  <1>1. /\ cmd \in [Commands -> {"new", "queued", "running", "over", "gaveUp"}]
        /\ behind \in [Commands -> Commands \cup {NoCommand}]
        /\ tail \in Commands \cup {NoCommand} /\ QueueOfCommands
    BY DEF ShellInv, ShellTypeOK
  <1> HIDE DEF ShellInv
  <1>2. /\ cmd[c] = "new" /\ \A b \in 1..(c - 1) : cmd[b] # "new"
        /\ cmd' = [cmd EXCEPT ![c] = "queued"] /\ behind' = [behind EXCEPT ![c] = tail] /\ tail' = c
    BY DEF CommandArrives, Moves
  <1>3. \A d \in Commands : d >= c => cmd[d] = "new" BY <1>1, <1>2 DEF QueueOfCommands, Commands
  <1>4. \A b \in Commands : b < c => cmd[b] # "new" BY <1>2 DEF Commands
  <1>5. /\ \A d \in Commands : d # c => cmd'[d] = cmd[d] /\ behind'[d] = behind[d]
        /\ cmd'[c] = "queued" /\ behind'[c] = tail
    BY <1>1, <1>2
  <1>6. tail # NoCommand => tail = c - 1
    <2>1. SUFFICES ASSUME tail # NoCommand PROVE tail = c - 1 OBVIOUS
    <2>2. tail \in Commands /\ cmd[tail] # "new" BY <1>1, <2>1 DEF QueueOfCommands
    <2>3. tail < c BY <1>3, <2>2 DEF Commands
    <2>4. c - 1 \in Commands BY <2>2, <2>3 DEF Commands
    <2>5. ~(c - 1 > tail) BY <1>1, <1>4, <2>1, <2>4 DEF QueueOfCommands, Commands
    <2> QED BY <2>2, <2>3, <2>4, <2>5 DEF Commands
  <1>7. tail = NoCommand /\ c > 1 => cmd[c - 1] = "over"
    <2>1. SUFFICES ASSUME tail = NoCommand, c > 1 PROVE cmd[c - 1] = "over" OBVIOUS
    <2>2. c - 1 \in Commands /\ c - 1 < c BY <2>1 DEF Commands
    <2>3. \A d \in Commands : d > c - 1 => cmd[d] = "new" BY <1>3 DEF Commands
    <2> QED BY <1>1, <1>4, <2>1, <2>2, <2>3 DEF QueueOfCommands
  <1>8. \A b, d \in Commands : b < d /\ cmd'[d] # "new" => cmd'[b] # "new"
    BY <1>1, <1>3, <1>4, <1>5 DEF QueueOfCommands, Commands
  <1>9. \A d \in Commands : d > c => cmd'[d] = "new" BY <1>3, <1>5 DEF Commands
  <1>10. \A d \in Commands : cmd'[d] # "new" =>
           \/ behind'[d] # NoCommand /\ behind'[d] = d - 1
           \/ behind'[d] = NoCommand /\ (d > 1 => cmd'[d - 1] = "over")
    <2>1. TAKE d \in Commands
    <2>2. HAVE cmd'[d] # "new"
    <2>3. CASE d = c
      <3>1. tail # NoCommand => behind'[c] # NoCommand /\ behind'[c] = c - 1 BY <1>5, <1>6
      <3>2. tail = NoCommand => behind'[c] = NoCommand /\ (c > 1 => cmd'[c - 1] = "over")
        BY <1>5, <1>7 DEF Commands
      <3> QED BY <2>3, <3>1, <3>2
    <2>4. CASE d # c
      <3>1. cmd[d] # "new" /\ d < c BY <1>3, <1>5, <2>2, <2>4 DEF Commands
      <3>2. d - 1 # c BY <3>1 DEF Commands
      <3> QED BY <1>1, <1>5, <2>4, <3>1, <3>2 DEF QueueOfCommands, Commands
    <2> QED BY <2>3, <2>4
  <1> QED BY <1>2, <1>5, <1>8, <1>9, <1>10 DEF QueueOfCommands, NoCommand, Commands

\* A step of the command keeps the queue when it came before and its end, when it was the
\* last, takes the entry away.
LEMMA QueueStands ==
  ASSUME ShellInv, NEW c \in Commands, cmd[c] # "new", behind' = behind,
         NEW state \in {"running", "over", "gaveUp"},
         cmd[c] # "over",
         cmd' = [cmd EXCEPT ![c] = state],
         tail' = tail \/ (tail = c /\ tail' = NoCommand /\ state = "over")
  PROVE  QueueOfCommands'
  <1> USE NumCommandsAssumption
  <1>1. /\ cmd \in [Commands -> {"new", "queued", "running", "over", "gaveUp"}]
        /\ behind \in [Commands -> Commands \cup {NoCommand}]
        /\ tail \in Commands \cup {NoCommand} /\ QueueOfCommands
    BY DEF ShellInv, ShellTypeOK
  <1> HIDE DEF ShellInv
  <1>2. \A d \in Commands : /\ cmd'[d] = "new" <=> cmd[d] = "new"
                            /\ cmd[d] = "over" => cmd'[d] = "over"
    BY <1>1
  <1>3. \A b, d \in Commands : b < d /\ cmd'[d] # "new" => cmd'[b] # "new"
    BY <1>1, <1>2 DEF QueueOfCommands
  <1>4. \A d \in Commands : cmd'[d] # "new" =>
           \/ behind'[d] # NoCommand /\ behind'[d] = d - 1
           \/ behind'[d] = NoCommand /\ (d > 1 => cmd'[d - 1] = "over")
    <2>1. TAKE d \in Commands
    <2>2. HAVE cmd'[d] # "new"
    <2>3. d > 1 => d - 1 \in Commands BY DEF Commands
    <2> QED BY <1>1, <1>2, <2>2, <2>3 DEF QueueOfCommands
  <1>5. tail' # NoCommand =>
          cmd'[tail'] # "new" /\ \A d \in Commands : d > tail' => cmd'[d] = "new"
    BY <1>1, <1>2 DEF QueueOfCommands
  <1>6. tail' = NoCommand =>
       \A e \in Commands : cmd'[e] # "new" /\ (\A d \in Commands : d > e => cmd'[d] = "new") =>
          cmd'[e] = "over"
    <2>1. CASE tail = NoCommand BY <1>1, <1>2, <2>1 DEF QueueOfCommands
    <2>2. CASE tail # NoCommand /\ tail' = NoCommand
      <3>1. tail = c /\ state = "over" BY <2>2
      <3>2. \A d \in Commands : d > c => cmd[d] = "new" BY <1>1, <2>2, <3>1 DEF QueueOfCommands
      <3>3. ASSUME NEW e \in Commands, cmd'[e] # "new",
                   \A d \in Commands : d > e => cmd'[d] = "new"
            PROVE e = c
        <4>1. ~(e > c) BY <1>2, <3>2, <3>3
        <4>2. ~(c > e) BY <1>2, <3>3
        <4> QED BY <4>1, <4>2 DEF Commands
      <3> QED BY <1>1, <3>1, <3>3
    <2> QED BY <2>1, <2>2
  <1> QED BY <1>3, <1>4, <1>5, <1>6 DEF QueueOfCommands

\* Who starts has waited for the one before it.
LEMMA StartInTurn ==
  ASSUME ShellInv, NEW b \in Commands, cmd[b] = "queued", Settled(behind[b]),
         NEW a \in Commands, a < b, Unsettled(a)
  PROVE  \E c \in (a + 1)..(b - 1) : cmd[c] = "gaveUp"
  <1> USE NumCommandsAssumption
  <1>1. QueueOfCommands /\ BegunInTurn BY DEF ShellInv
  <1> HIDE DEF ShellInv
  <1>2. b > 1 /\ b - 1 \in Commands /\ b \in Nat /\ a \in Nat BY DEF Commands
  <1>3. cmd[b - 1] \in {"over", "gaveUp"}
    BY <1>1, <1>2 DEF QueueOfCommands, Settled
  <1>4. a # b - 1 BY <1>3 DEF Unsettled
  <1>5. a < b - 1 BY <1>2, <1>4
  <1>6. CASE cmd[b - 1] = "gaveUp" BY <1>2, <1>5, <1>6
  <1>7. CASE cmd[b - 1] = "over"
    <2>1. PICK c \in (a + 1)..((b - 1) - 1) : cmd[c] = "gaveUp"
      BY <1>1, <1>2, <1>5, <1>7 DEF BegunInTurn
    <2>2. c \in (a + 1)..(b - 1) BY <1>2, <2>1
    <2> QED BY <2>1, <2>2
  <1> QED BY <1>3, <1>6, <1>7

\* Every step of a command keeps the queue, the order and the aborts.
LEMMA ShellKept == ShellInv /\ [ShellNext]_shellVars => ShellInv'
  <1> SUFFICES ASSUME ShellInv, [ShellNext]_shellVars PROVE ShellInv' OBVIOUS
  <1> USE NumCommandsAssumption
  <1>0. /\ cmd \in [Commands -> {"new", "queued", "running", "over", "gaveUp"}]
        /\ behind \in [Commands -> Commands \cup {NoCommand}]
        /\ tail \in Commands \cup {NoCommand}
        /\ callerGone \subseteq Commands /\ terminated \subseteq Commands
        /\ QueueOfCommands /\ BegunInTurn /\ AbortsReachTheProcess
    BY DEF ShellInv, ShellTypeOK
  <1>a. ASSUME cmd' = cmd PROVE BegunInTurn' BY <1>0, <1>a DEF BegunInTurn, Unsettled
  <1>b. ASSUME NEW c \in Commands, NEW state, cmd' = [cmd EXCEPT ![c] = state],
               \/ state = "queued" /\ cmd[c] = "new"
               \/ state = "running" /\ cmd[c] = "queued" /\ Settled(behind[c])
               \/ state = "over" /\ cmd[c] = "running"
               \/ state = "gaveUp" /\ cmd[c] = "queued"
        PROVE  BegunInTurn'
    <2> SUFFICES ASSUME NEW a \in Commands, NEW b \in Commands, a < b,
                        cmd'[b] \in {"running", "over"}, cmd'[a] \in {"queued", "running"}
                 PROVE  \E e \in (a + 1)..(b - 1) : cmd'[e] = "gaveUp"
      BY DEF BegunInTurn, Unsettled
    <2>1. \A e \in Commands : e # c => cmd'[e] = cmd[e] BY <1>0, <1>b
    <2>2. cmd'[c] = state BY <1>0, <1>b
    <2>3. \A e \in (a + 1)..(b - 1) : e \in Commands BY DEF Commands
    <2>4. \A e \in Commands : cmd[e] = "gaveUp" => cmd'[e] = "gaveUp" BY <1>b, <2>1
    <2>5. cmd[b] # "new" BY <1>b, <2>1, <2>2
    <2>6. Unsettled(a)
      <3>1. cmd[a] # "new" BY <1>0, <2>5 DEF QueueOfCommands
      <3> QED BY <1>b, <2>1, <2>2, <3>1 DEF Unsettled
    <2>7. \E e \in (a + 1)..(b - 1) : cmd[e] = "gaveUp"
      <3>1. CASE cmd[b] \in {"running", "over"} BY <1>0, <2>6, <3>1 DEF BegunInTurn
      <3>2. CASE cmd[b] \notin {"running", "over"}
        <4>1. b = c /\ cmd[b] = "queued" /\ Settled(behind[b]) BY <1>b, <2>1, <2>2, <3>2
        <4> QED BY <2>6, <4>1, StartInTurn
      <3> QED BY <3>1, <3>2
    <2> QED BY <2>3, <2>4, <2>7
  <1>1. CASE UNCHANGED shellVars
    BY <1>0, <1>1 DEF shellVars, ShellInv, ShellTypeOK, QueueOfCommands, BegunInTurn, Unsettled,
                      AbortsReachTheProcess, In
  <1>2. ASSUME NEW c \in Commands, CommandArrives(c) PROVE ShellInv'
    <2>1. /\ cmd[c] = "new" /\ cmd' = [cmd EXCEPT ![c] = "queued"]
          /\ behind' = [behind EXCEPT ![c] = tail] /\ tail' = c
          /\ UNCHANGED <<callerGone, terminated>>
      BY <1>2 DEF CommandArrives, Moves
    <2>2. ShellTypeOK' BY <1>0, <2>1 DEF ShellTypeOK
    <2>3. QueueOfCommands' BY <1>2, ArrivalInTurn
    <2>4. BegunInTurn' BY <1>b, <2>1
    <2>5. AbortsReachTheProcess' BY <1>0, <2>1 DEF AbortsReachTheProcess, In
    <2> QED BY <2>2, <2>3, <2>4, <2>5 DEF ShellInv
  <1>3. ASSUME NEW c \in Commands, GivesUpWaiting(c) PROVE ShellInv'
    <2>1. /\ cmd[c] = "queued" /\ cmd' = [cmd EXCEPT ![c] = "gaveUp"]
          /\ UNCHANGED <<behind, tail, callerGone, terminated>>
      BY <1>3 DEF GivesUpWaiting, Moves
    <2>2. ShellTypeOK' BY <1>0, <2>1 DEF ShellTypeOK
    <2>3. QueueOfCommands' BY <2>1, QueueStands
    <2>4. BegunInTurn' BY <1>b, <2>1
    <2>5. AbortsReachTheProcess' BY <1>0, <2>1 DEF AbortsReachTheProcess, In
    <2> QED BY <2>2, <2>3, <2>4, <2>5 DEF ShellInv
  <1>4. ASSUME NEW c \in Commands, CommandStarts(c) PROVE ShellInv'
    <2>1. /\ cmd[c] = "queued" /\ Settled(behind[c]) /\ cmd' = [cmd EXCEPT ![c] = "running"]
          /\ UNCHANGED <<behind, tail, callerGone>>
          /\ terminated' = terminated \cup ({c} \cap callerGone)
      BY <1>4 DEF CommandStarts, Moves
    <2>2. ShellTypeOK' BY <1>0, <2>1 DEF ShellTypeOK
    <2>3. QueueOfCommands' BY <2>1, QueueStands
    <2>4. BegunInTurn' BY <1>b, <2>1
    <2>5. AbortsReachTheProcess' BY <1>0, <2>1 DEF AbortsReachTheProcess, In
    <2> QED BY <2>2, <2>3, <2>4, <2>5 DEF ShellInv
  <1>5. ASSUME NEW c \in Commands, CallerLeaves(c) \/ CommandTimesOut(c) PROVE ShellInv'
    <2>1. UNCHANGED <<cmd, behind, tail>>
      BY <1>5 DEF CallerLeaves, CommandTimesOut
    <2>2. ShellTypeOK'
      BY <1>0, <1>5, <2>1 DEF ShellTypeOK, CallerLeaves, CommandTimesOut
    <2>3. QueueOfCommands' BY <1>0, <2>1 DEF QueueOfCommands
    <2>4. BegunInTurn' BY <1>a, <2>1
    <2>5. AbortsReachTheProcess'
      BY <1>0, <1>5, <2>1 DEF AbortsReachTheProcess, In, CallerLeaves, CommandTimesOut
    <2> QED BY <2>2, <2>3, <2>4, <2>5 DEF ShellInv
  <1>6. ASSUME NEW c \in Commands, CommandEnds(c) PROVE ShellInv'
    <2>1. /\ cmd[c] = "running" /\ cmd' = [cmd EXCEPT ![c] = "over"]
          /\ tail' = (IF tail = c THEN NoCommand ELSE tail)
          /\ UNCHANGED <<behind, callerGone, terminated>>
      BY <1>6 DEF CommandEnds, Moves, LastInQueue
    <2>2. ShellTypeOK' BY <1>0, <2>1 DEF ShellTypeOK
    <2>3. QueueOfCommands' BY <2>1, QueueStands
    <2>4. BegunInTurn' BY <1>b, <2>1
    <2>5. AbortsReachTheProcess' BY <1>0, <2>1 DEF AbortsReachTheProcess, In
    <2> QED BY <2>2, <2>3, <2>4, <2>5 DEF ShellInv
  <1> QED BY <1>1, <1>2, <1>3, <1>4, <1>5, <1>6 DEF ShellNext

\* No command came.
LEMMA ShellInitially == ShellInit => ShellInv
  <1> SUFFICES ASSUME ShellInit PROVE ShellInv OBVIOUS
  <1> USE DEF ShellInit
  <1>1. ShellTypeOK BY DEF ShellTypeOK
  <1>2. QueueOfCommands BY DEF QueueOfCommands
  <1>3. BegunInTurn BY DEF BegunInTurn, Unsettled
  <1>4. AbortsReachTheProcess BY DEF AbortsReachTheProcess, In
  <1> QED BY <1>1, <1>2, <1>3, <1>4 DEF ShellInv

\* For any number of commands, one of a session runs at a time, but across one that gave up,
\* and no command goes on behind a caller that has gone.
THEOREM CommandsInTurn == ShellSpec => []ShellIsKept
  <1>1. ShellInv => ShellIsKept
    <2> SUFFICES ASSUME ShellInv PROVE OneCommandAtATime
      BY DEF ShellInv, ShellIsKept
    <2>1. BegunInTurn BY DEF ShellInv
    <2> QED BY <2>1 DEF BegunInTurn, Unsettled, OneCommandAtATime, In
  <1> QED BY <1>1, ShellInitially, ShellKept, PTL DEF ShellSpec

(***************************************************************************)
(* The end of a colleague's task is told, and once, over crashes, for any  *)
(* number of tasks and places.                                             *)
(***************************************************************************)
\* The records and the pool keep to their domains.
RunnerDomains ==
  /\ power \in {"down", "loaded", "up"} /\ given \in 0..NumOrders /\ active \in 0..MaxActive
  /\ record \in [Orders -> Statuses] /\ tasksFile \in [Orders -> Statuses]
  /\ inWrite # <<>> => inWrite \in [Orders -> Statuses]
  /\ inLine \in Seq(Orders) /\ told \in [Orders -> Nat]
  /\ atWork \subseteq Orders /\ leaving \subseteq Orders /\ notices \subseteq Orders

\* Nobody knows of a task that was not delegated.
NotYetGiven ==
  \A t \in Orders : t > given =>
    /\ record[t] = "none" /\ tasksFile[t] = "none" /\ told[t] = 0
    /\ inWrite # <<>> => inWrite[t] = "none"
    /\ t \notin atWork \cup leaving \cup InLine \cup notices

\* The tasks of the pool each have one place: they run, have finished, or wait.
PoolInv ==
  /\ PoolIsFull
  /\ atWork \cap leaving = {} /\ leaving \cap InLine = {}
  /\ \A i, j \in DOMAIN inLine : inLine[i] = inLine[j] => i = j
  /\ power # "up" => atWork = {} /\ leaving = {} /\ inLine = <<>> /\ StillRunning(record) = {}
  /\ power = "up" => notices = {}
  /\ power = "down" => inWrite = <<>>

\* What is on its way to the file of a running task is no news of its end.
FileLags ==
  \A t \in StillRunning(record) :
    /\ tasksFile[t] \in {"none", "running"}
    /\ inWrite # <<>> => inWrite[t] \in {"none", "running"}

\* Nobody was told of the end of a task that runs, of one that is to be told of, or of one
\* that the file of a dead process has as running, unless its end was lost.
ToldSoFar ==
  /\ \A t \in Orders : told[t] > 1 => t \in lostEnds
  /\ \A t \in StillRunning(record) : told[t] = 0
  /\ \A t \in notices : told[t] = 0 \/ t \in lostEnds
  /\ power = "down" => \A t \in StillRunning(tasksFile) : told[t] = 0 \/ t \in lostEnds

\* Every task that was delegated is accounted for, also while the process is down.
Accounted ==
  \A t \in 1..given :
    \/ told[t] > 0 \/ t \in unknown \/ t \in muted
    \/ power = "up" /\ t \in StillRunning(record)
    \/ power = "loaded" /\ t \in notices
    \/ power = "down" /\ t \in StillRunning(tasksFile)

RunnerInv ==
  RunnerDomains /\ NotYetGiven /\ PoolInv /\ FileLags /\ ToldSoFar /\ Accounted

\* What is trimmed loses no running task and gains none.
LEMMA TrimmingSpares ==
  ASSUME NEW records \in [Orders -> Statuses]
  PROVE  /\ Trimmed(records) \in [Orders -> Statuses]
         /\ StillRunning(Trimmed(records)) = StillRunning(records)
         /\ \A t \in Orders : records[t] = "none" => Trimmed(records)[t] = "none"
  <1> DEFINE over == Cardinality(Recorded(records)) - MaxRecords
             out == IF over > 0 THEN Oldest(Recorded(records) \ StillRunning(records), over) ELSE {}
  <1>1. Trimmed(records) = [t \in Orders |-> IF t \in out THEN "none" ELSE records[t]]
    BY DEF Trimmed
  <1>2. out \cap StillRunning(records) = {} BY DEF Oldest
  <1> HIDE DEF out
  <1> QED BY <1>1, <1>2 DEF StillRunning, Statuses

\* There are finitely many tasks.
LEMMA OrdersAreFew ==
  ASSUME NEW S, S \subseteq Orders
  PROVE  IsFiniteSet(S) /\ Cardinality(S) \in Nat
  <1>1. IsFiniteSet(Orders) BY FS_Interval, TaskRunnerAssumption DEF Orders
  <1> QED BY <1>1, FS_Subset, FS_CardinalityType

\* Who begins to wait has one place.
LEMMA LineGrows ==
  ASSUME NEW q \in Seq(Orders), NEW t \in Orders, \A i \in DOMAIN q : q[i] # t,
         \A i, j \in DOMAIN q : q[i] = q[j] => i = j
  PROVE  /\ {Append(q, t)[i] : i \in DOMAIN Append(q, t)} = {q[i] : i \in DOMAIN q} \cup {t}
         /\ \A i, j \in DOMAIN Append(q, t) : Append(q, t)[i] = Append(q, t)[j] => i = j
         /\ Len(Append(q, t)) = Len(q) + 1 /\ Append(q, t) \in Seq(Orders)
  <1>1. /\ Len(q) \in Nat /\ DOMAIN q = 1..Len(q)
        /\ Append(q, t) \in Seq(Orders) /\ Len(Append(q, t)) = Len(q) + 1
        /\ DOMAIN Append(q, t) = 1..(Len(q) + 1)
        /\ \A i \in 1..Len(q) : Append(q, t)[i] = q[i]
        /\ Append(q, t)[Len(q) + 1] = t
    OBVIOUS
  <1> DEFINE a == Append(q, t)
  <1>2. a = Append(q, t) OBVIOUS
  <1> HIDE DEF a
  <1>3. \A i \in 1..(Len(q) + 1) : i \in 1..Len(q) \/ i = Len(q) + 1 BY <1>1
  <1>4. {a[i] : i \in DOMAIN a} = {q[i] : i \in DOMAIN q} \cup {t}
    <2>1. \A i \in DOMAIN a : a[i] \in {q[j] : j \in DOMAIN q} \cup {t} BY <1>1, <1>2, <1>3
    <2>2. \A i \in DOMAIN q : i \in DOMAIN a /\ q[i] = a[i] BY <1>1, <1>2
    <2>3. Len(q) + 1 \in DOMAIN a /\ t = a[Len(q) + 1] BY <1>1, <1>2
    <2> QED BY <2>1, <2>2, <2>3
  <1>5. \A i, j \in DOMAIN a : a[i] = a[j] => i = j BY <1>1, <1>2, <1>3
  <1> QED BY <1>1, <1>2, <1>4, <1>5

\* Who has waited longest leaves its place.
LEMMA LineShrinks ==
  ASSUME NEW q \in Seq(Orders), q # <<>>, \A i, j \in DOMAIN q : q[i] = q[j] => i = j
  PROVE  /\ {q[i] : i \in DOMAIN q} = {Tail(q)[i] : i \in DOMAIN Tail(q)} \cup {Head(q)}
         /\ Head(q) \notin {Tail(q)[i] : i \in DOMAIN Tail(q)}
         /\ \A i, j \in DOMAIN Tail(q) : Tail(q)[i] = Tail(q)[j] => i = j
         /\ Len(Tail(q)) = Len(q) - 1 /\ Tail(q) \in Seq(Orders) /\ Len(q) \in Nat
         /\ Head(q) \in Orders
  <1>1. /\ Len(q) \in Nat \ {0} /\ DOMAIN q = 1..Len(q) /\ Head(q) = q[1] /\ Head(q) \in Orders
        /\ Tail(q) \in Seq(Orders) /\ Len(Tail(q)) = Len(q) - 1
        /\ DOMAIN Tail(q) = 1..(Len(q) - 1)
        /\ \A i \in 1..(Len(q) - 1) : Tail(q)[i] = q[i + 1]
    OBVIOUS
  <1> DEFINE b == Tail(q)
  <1>2. b = Tail(q) OBVIOUS
  <1> HIDE DEF b
  <1>3. \A i \in DOMAIN b : i + 1 \in DOMAIN q /\ i + 1 # 1 /\ b[i] = q[i + 1] /\ i \in Nat
    BY <1>1, <1>2
  <1>4. \A i \in DOMAIN q : i = 1 \/ (i - 1 \in DOMAIN b /\ q[i] = b[i - 1])
    <2>1. TAKE i \in DOMAIN q
    <2>2. CASE i # 1
      <3>1. i - 1 \in 1..(Len(q) - 1) /\ (i - 1) + 1 = i BY <1>1, <2>2
      <3> QED BY <1>1, <1>2, <3>1
    <2> QED BY <2>2
  <1>5. 1 \in DOMAIN q BY <1>1
  <1>6. {q[i] : i \in DOMAIN q} = {b[i] : i \in DOMAIN b} \cup {Head(q)}
    BY <1>1, <1>3, <1>4, <1>5
  <1>7. Head(q) \notin {b[i] : i \in DOMAIN b} BY <1>1, <1>3, <1>5
  <1>8. \A i, j \in DOMAIN b : b[i] = b[j] => i = j
    <2>1. TAKE i, j \in DOMAIN b
    <2>2. HAVE b[i] = b[j]
    <2>3. i + 1 = j + 1 BY <1>3, <2>2
    <2> QED BY <1>3, <2>3
  <1> QED BY <1>1, <1>2, <1>6, <1>7, <1>8

\* The invariant, unfolded for the steps.
LEMMA RunnerFacts ==
  ASSUME RunnerInv
  PROVE  /\ given \in Nat /\ given <= NumOrders /\ active \in Nat /\ active <= MaxActive
         /\ MaxActive \in Nat \ {0} /\ NumOrders \in Nat
         /\ record \in [Orders -> Statuses] /\ tasksFile \in [Orders -> Statuses]
         /\ inLine \in Seq(Orders) /\ told \in [Orders -> Nat] /\ InLine \subseteq Orders
         /\ atWork \subseteq Orders /\ leaving \subseteq Orders /\ notices \subseteq Orders
         /\ active = Cardinality(atWork \cup leaving) /\ Len(inLine) = Cardinality(InLine)
  <1>1. InLine \subseteq Orders BY DEF RunnerInv, RunnerDomains, InLine
  <1> QED BY <1>1, TaskRunnerAssumption DEF RunnerInv, RunnerDomains, PoolInv, PoolIsFull

\* A task is delegated.
LEMMA GivingKeeps == RunnerInv /\ OrderGiven => RunnerInv'
  <1> SUFFICES ASSUME RunnerInv, OrderGiven PROVE RunnerInv' OBVIOUS
  <1>0. RunnerDomains /\ NotYetGiven /\ PoolInv /\ FileLags /\ ToldSoFar /\ Accounted
    BY DEF RunnerInv
  <1>f. /\ given \in Nat /\ given <= NumOrders /\ active \in Nat /\ active <= MaxActive
        /\ MaxActive \in Nat \ {0} /\ NumOrders \in Nat
        /\ record \in [Orders -> Statuses] /\ tasksFile \in [Orders -> Statuses]
        /\ inLine \in Seq(Orders) /\ told \in [Orders -> Nat] /\ InLine \subseteq Orders
        /\ atWork \subseteq Orders /\ leaving \subseteq Orders /\ notices \subseteq Orders
        /\ active = Cardinality(atWork \cup leaving) /\ Len(inLine) = Cardinality(InLine)
    BY RunnerFacts
  <1> HIDE DEF RunnerInv
  <1>1. PICK t : t = given + 1 OBVIOUS
  <1>2. /\ power = "up" /\ given < NumOrders /\ given' = t
        /\ record' = Trimmed([record EXCEPT ![t] = "running"])
        /\ UNCHANGED <<power, leaving, inWrite, tasksFile, notices, told, lostEnds, unknown, muted>>
        /\ \/ active >= MaxActive /\ inLine' = Append(inLine, t) /\ UNCHANGED <<active, atWork>>
           \/ /\ ~(active >= MaxActive) /\ active' = active + 1 /\ atWork' = atWork \cup {t}
              /\ inLine' = inLine
    BY <1>1 DEF OrderGiven, historyVars
  <1>3. t \in Orders /\ t > given /\ t \in Nat BY <1>1, <1>2, <1>f DEF Orders
  <1>4. /\ record[t] = "none" /\ tasksFile[t] = "none" /\ told[t] = 0
        /\ inWrite # <<>> => inWrite[t] = "none"
        /\ t \notin atWork \cup leaving \cup InLine
    BY <1>0, <1>3 DEF NotYetGiven
  <1>5. /\ record' \in [Orders -> Statuses]
        /\ StillRunning(record') = StillRunning(record) \cup {t}
        /\ \A u \in Orders : u # t /\ record[u] = "none" => record'[u] = "none"
    <2> DEFINE r == [record EXCEPT ![t] = "running"]
    <2>1. r \in [Orders -> Statuses] BY <1>f DEF Statuses
    <2>2. StillRunning(r) = StillRunning(record) \cup {t} BY <1>f, <1>3 DEF StillRunning
    <2>3. \A u \in Orders : u # t => r[u] = record[u] BY <1>f
    <2>4. record' = Trimmed(r) BY <1>2
    <2> HIDE DEF r
    <2> QED BY <2>1, <2>2, <2>3, <2>4, TrimmingSpares
  <1>6. \A u \in Orders : u > t => u > given BY <1>1, <1>f DEF Orders
  <1>7. \A u \in 1..t : u = t \/ u \in 1..given BY <1>1, <1>f
  <1>8. /\ inLine' \in Seq(Orders) /\ active' \in 0..MaxActive /\ atWork' \subseteq Orders
        /\ InLine' \cup atWork' = InLine \cup atWork \cup {t}
        /\ InLine' \cap atWork' = {}
        /\ active' = Cardinality(atWork' \cup leaving') /\ Len(inLine') = Cardinality(InLine')
        /\ inLine' # <<>> => active' = MaxActive
        /\ \A i, j \in DOMAIN inLine' : inLine'[i] = inLine'[j] => i = j
        /\ t \in atWork' => t \notin InLine'
        /\ InLine' \subseteq InLine \cup {t}
    <2>1. CASE active >= MaxActive
      <3>1. /\ inLine' = Append(inLine, t) /\ active' = active /\ atWork' = atWork
            /\ active = MaxActive
        BY <1>2, <1>f, <2>1
      <3>2. \A i \in DOMAIN inLine : inLine[i] # t BY <1>4 DEF InLine
      <3>3. /\ InLine' = InLine \cup {t} /\ Len(inLine') = Len(inLine) + 1
            /\ inLine' \in Seq(Orders)
            /\ \A i, j \in DOMAIN inLine' : inLine'[i] = inLine'[j] => i = j
        BY <1>0, <1>3, <1>f, <3>1, <3>2, LineGrows DEF InLine, PoolInv
      <3>4. Cardinality(InLine \cup {t}) = Cardinality(InLine) + 1
        BY <1>4, <1>f, OrdersAreFew, FS_AddElement
      <3> QED BY <1>0, <1>2, <1>4, <1>f, <3>1, <3>3, <3>4 DEF PoolInv, PoolIsFull
    <2>2. CASE ~(active >= MaxActive)
      <3>1. inLine' = inLine /\ active' = active + 1 /\ atWork' = atWork \cup {t}
        BY <1>2, <2>2
      <3>2. InLine' = InLine BY <3>1 DEF InLine
      <3>3. inLine = <<>> BY <1>0, <1>f, <2>2 DEF PoolInv, PoolIsFull
      <3>4. Cardinality((atWork \cup leaving) \cup {t}) = Cardinality(atWork \cup leaving) + 1
        BY <1>4, <1>f, OrdersAreFew, FS_AddElement
      <3>5. atWork' \cup leaving' = (atWork \cup leaving) \cup {t} BY <1>2, <3>1
      <3>6. active' \in 0..MaxActive BY <1>f, <2>2, <3>1
      <3>7. InLine' \cap atWork' = {} BY <1>0, <1>4, <3>1, <3>2 DEF PoolInv, PoolIsFull
      <3>8. active' = Cardinality(atWork' \cup leaving') BY <1>f, <3>1, <3>4, <3>5
      <3>9. \A i, j \in DOMAIN inLine' : inLine'[i] = inLine'[j] => i = j
        BY <1>0, <3>1 DEF PoolInv
      <3>10. InLine' \cup atWork' = InLine \cup atWork \cup {t} BY <3>1, <3>2
      <3>11. Len(inLine') = Cardinality(InLine') /\ (inLine' # <<>> => active' = MaxActive)
        BY <1>f, <3>1, <3>2, <3>3
      <3> QED BY <1>3, <1>4, <1>f, <3>1, <3>2, <3>6, <3>7, <3>8, <3>9, <3>10, <3>11
    <2> QED BY <2>1, <2>2
  <1>9. RunnerDomains'
    <2>1. given' \in 0..NumOrders BY <1>1, <1>2, <1>f
    <2> QED BY <1>0, <1>2, <1>5, <1>8, <2>1 DEF RunnerDomains
  <1>10. NotYetGiven'
    <2> SUFFICES ASSUME NEW u \in Orders, u > t
                 PROVE /\ record'[u] = "none" /\ tasksFile'[u] = "none" /\ told'[u] = 0
                       /\ inWrite' # <<>> => inWrite'[u] = "none"
                       /\ u \notin atWork' \cup leaving' \cup InLine' \cup notices'
      BY <1>2 DEF NotYetGiven
    <2>1. u > given /\ u # t BY <1>3, <1>6
    <2>2. /\ record[u] = "none" /\ tasksFile[u] = "none" /\ told[u] = 0
          /\ inWrite # <<>> => inWrite[u] = "none"
          /\ u \notin atWork \cup leaving \cup InLine \cup notices
      BY <1>0, <2>1 DEF NotYetGiven
    <2>3. u \notin atWork' \cup InLine' BY <1>8, <2>1, <2>2
    <2> QED BY <1>2, <1>5, <2>1, <2>2, <2>3
  <1>11. PoolInv'
    <2>1. StillRunning(record') = atWork' \cup InLine'
      BY <1>0, <1>2, <1>5, <1>8 DEF PoolInv, PoolIsFull
    <2>2. atWork' \cap leaving' = {} /\ leaving' \cap InLine' = {}
      BY <1>0, <1>2, <1>4, <1>8 DEF PoolInv
    <2>3. PoolIsFull' BY <1>8, <2>1 DEF PoolIsFull
    <2>4. power' = "up" /\ notices' = {} BY <1>0, <1>2 DEF PoolInv
    <2> QED BY <1>8, <2>2, <2>3, <2>4 DEF PoolInv
  <1>12. FileLags' BY <1>0, <1>2, <1>4, <1>5 DEF FileLags
  <1>13. ToldSoFar' BY <1>0, <1>2, <1>4, <1>5 DEF ToldSoFar
  <1>14. Accounted' BY <1>0, <1>2, <1>5, <1>7 DEF Accounted
  <1> QED BY <1>9, <1>10, <1>11, <1>12, <1>13, <1>14 DEF RunnerInv

\* A task has ended.
LEMMA EndingKeeps ==
  ASSUME RunnerInv, NEW t \in Orders, OrderEnds(t) PROVE RunnerInv'
  <1>0. RunnerDomains /\ NotYetGiven /\ PoolInv /\ FileLags /\ ToldSoFar /\ Accounted
    BY DEF RunnerInv
  <1>f. /\ record \in [Orders -> Statuses] /\ told \in [Orders -> Nat] /\ InLine \subseteq Orders
        /\ atWork \subseteq Orders /\ leaving \subseteq Orders
        /\ active = Cardinality(atWork \cup leaving)
    BY RunnerFacts
  <1> HIDE DEF RunnerInv
  <1>1. /\ power = "up" /\ t \in atWork /\ record' = [record EXCEPT ![t] = "ended"]
        /\ told' = [told EXCEPT ![t] = @ + 1]
        /\ atWork' = atWork \ {t} /\ leaving' = leaving \cup {t}
        /\ UNCHANGED <<power, given, active, inLine, inWrite, tasksFile, notices,
                       lostEnds, unknown, muted>>
    BY DEF OrderEnds, ChildIsOver, historyVars
  <1>2. InLine' = InLine BY <1>1 DEF InLine
  <1>3. t \in StillRunning(record) /\ t \notin InLine /\ told[t] = 0
    BY <1>0, <1>1 DEF PoolInv, PoolIsFull, ToldSoFar
  <1>4. /\ \A u \in Orders : u # t => record'[u] = record[u] /\ told'[u] = told[u]
        /\ record'[t] = "ended" /\ told'[t] = 1
    BY <1>1, <1>3, <1>f
  <1>5. StillRunning(record') = StillRunning(record) \ {t} BY <1>4 DEF StillRunning
  <1>6. RunnerDomains' BY <1>0, <1>1, <1>f DEF RunnerDomains, Statuses
  <1>7. NotYetGiven'
    <2>1. ~(t > given) BY <1>0, <1>1 DEF NotYetGiven
    <2> QED BY <1>0, <1>1, <1>2, <1>4, <2>1 DEF NotYetGiven
  <1>8. PoolInv'
    <2>1. atWork' \cup leaving' = atWork \cup leaving BY <1>1
    <2>2. active' = Cardinality(atWork' \cup leaving') BY <1>1, <1>f, <2>1
    <2>3. StillRunning(record') = atWork' \cup InLine'
      BY <1>0, <1>1, <1>2, <1>3, <1>5 DEF PoolInv, PoolIsFull
    <2>4. PoolIsFull' BY <1>0, <1>1, <1>2, <2>2, <2>3 DEF PoolInv, PoolIsFull
    <2> QED BY <1>0, <1>1, <1>2, <1>3, <2>4 DEF PoolInv
  <1>9. FileLags' BY <1>0, <1>1, <1>5 DEF FileLags
  <1>10. ToldSoFar'
    <2>1. \A u \in Orders : told'[u] > 1 => u \in lostEnds' BY <1>0, <1>1, <1>4 DEF ToldSoFar
    <2>2. \A u \in StillRunning(record') : told'[u] = 0
      BY <1>0, <1>4, <1>5 DEF ToldSoFar, StillRunning
    <2>3. notices = {}
      BY <1>0, <1>1 DEF PoolInv
    <2> QED BY <1>1, <2>1, <2>2, <2>3 DEF ToldSoFar
  <1>11. Accounted'
    <2> SUFFICES ASSUME NEW u \in 1..given
                 PROVE \/ told'[u] > 0 \/ u \in unknown \/ u \in muted
                       \/ u \in StillRunning(record')
      BY <1>1 DEF Accounted
    <2>1. \/ told[u] > 0 \/ u \in unknown \/ u \in muted \/ u \in StillRunning(record)
      BY <1>0, <1>1 DEF Accounted
    <2>2. CASE u = t BY <1>4, <2>2
    <2>3. CASE u # t
      <3>1. u \in Orders BY <1>0, TaskRunnerAssumption DEF RunnerDomains, Orders
      <3> QED BY <1>4, <1>5, <2>1, <2>3, <3>1
    <2> QED BY <2>2, <2>3
  <1> QED BY <1>6, <1>7, <1>8, <1>9, <1>10, <1>11 DEF RunnerInv

\* Its place is given back, or taken by the next.
LEMMA PassingKeeps ==
  ASSUME RunnerInv, NEW t \in Orders, SlotPasses(t) PROVE RunnerInv'
  <1>0. RunnerDomains /\ NotYetGiven /\ PoolInv /\ FileLags /\ ToldSoFar /\ Accounted
    BY DEF RunnerInv
  <1>f. /\ active \in Nat /\ active <= MaxActive /\ MaxActive \in Nat \ {0}
        /\ record \in [Orders -> Statuses]
        /\ inLine \in Seq(Orders) /\ InLine \subseteq Orders
        /\ atWork \subseteq Orders /\ leaving \subseteq Orders
        /\ active = Cardinality(atWork \cup leaving) /\ Len(inLine) = Cardinality(InLine)
    BY RunnerFacts
  <1> HIDE DEF RunnerInv
  <1>1. /\ power = "up" /\ t \in leaving /\ leaving' = leaving \ {t}
        /\ UNCHANGED <<power, record, given, inWrite, tasksFile, notices, told,
                       lostEnds, unknown, muted>>
        /\ \/ inLine = <<>> /\ active' = active - 1 /\ atWork' = atWork /\ inLine' = inLine
           \/ /\ inLine # <<>> /\ atWork' = atWork \cup {Head(inLine)} /\ inLine' = Tail(inLine)
              /\ active' = active
    BY DEF SlotPasses, historyVars, diskVars
  <1>2. t \notin atWork /\ t \notin InLine BY <1>0, <1>1 DEF PoolInv
  <1>3. Cardinality((atWork \cup leaving) \ {t}) = active - 1
    BY <1>1, <1>f, OrdersAreFew, FS_RemoveElement
  <1>4. (atWork \cup leaving) \ {t} = atWork \cup leaving' BY <1>1, <1>2
  <1>5. /\ inLine' \in Seq(Orders) /\ active' \in 0..MaxActive /\ atWork' \subseteq Orders
        /\ atWork' \cup InLine' = atWork \cup InLine
        /\ atWork' \cap InLine' = {} /\ leaving' \cap (atWork' \cup InLine') = {}
        /\ active' = Cardinality(atWork' \cup leaving') /\ Len(inLine') = Cardinality(InLine')
        /\ inLine' # <<>> => active' = MaxActive
        /\ \A i, j \in DOMAIN inLine' : inLine'[i] = inLine'[j] => i = j
    <2>1. CASE inLine = <<>>
      <3>1. active' = active - 1 /\ atWork' = atWork /\ inLine' = inLine BY <1>1, <2>1
      <3>2. InLine' = InLine BY <3>1 DEF InLine
      <3>3. active - 1 \in Nat
        <4>1. Cardinality((atWork \cup leaving) \ {t}) \in Nat BY <1>f, OrdersAreFew
        <4> QED BY <1>3, <4>1
      <3>4. active' = Cardinality(atWork' \cup leaving') BY <1>3, <1>4, <3>1
      <3>5. atWork' \cap InLine' = {} /\ leaving' \cap (atWork' \cup InLine') = {}
        BY <1>0, <1>1, <3>1, <3>2 DEF PoolInv, PoolIsFull
      <3>6. active' \in 0..MaxActive BY <1>f, <3>1, <3>3
      <3>7. \A i, j \in DOMAIN inLine' : inLine'[i] = inLine'[j] => i = j
        BY <1>0, <3>1 DEF PoolInv
      <3> QED BY <1>f, <2>1, <3>1, <3>2, <3>4, <3>5, <3>6, <3>7
    <2>2. CASE inLine # <<>>
      <3>1. atWork' = atWork \cup {Head(inLine)} /\ inLine' = Tail(inLine) /\ active' = active
        BY <1>1, <2>2
      <3>2. PICK h : h = Head(inLine) OBVIOUS
      <3>3. /\ InLine = InLine' \cup {h} /\ h \notin InLine' /\ h \in Orders
            /\ \A i, j \in DOMAIN inLine' : inLine'[i] = inLine'[j] => i = j
            /\ Len(inLine') = Len(inLine) - 1 /\ inLine' \in Seq(Orders)
        <4>1. \A i, j \in DOMAIN inLine : inLine[i] = inLine[j] => i = j BY <1>0 DEF PoolInv
        <4>2. /\ {inLine[i] : i \in DOMAIN inLine}
                   = {Tail(inLine)[i] : i \in DOMAIN Tail(inLine)} \cup {Head(inLine)}
              /\ Head(inLine) \notin {Tail(inLine)[i] : i \in DOMAIN Tail(inLine)}
              /\ \A i, j \in DOMAIN Tail(inLine) : Tail(inLine)[i] = Tail(inLine)[j] => i = j
              /\ Len(Tail(inLine)) = Len(inLine) - 1 /\ Tail(inLine) \in Seq(Orders)
              /\ Head(inLine) \in Orders
          BY <1>f, <2>2, <4>1, LineShrinks
        <4> QED BY <3>1, <3>2, <4>2 DEF InLine
      <3>4. h \notin atWork /\ h \notin leaving /\ h # t
        BY <1>0, <1>2, <3>3 DEF PoolInv, PoolIsFull
      <3>5. InLine' = InLine \ {h} BY <3>3
      <3>6. Cardinality(InLine \ {h}) = Cardinality(InLine) - 1
        BY <1>f, <3>3, OrdersAreFew, FS_RemoveElement
      <3>7. Cardinality((atWork \cup leaving') \cup {h}) = Cardinality(atWork \cup leaving') + 1
        BY <1>1, <1>f, <3>4, OrdersAreFew, FS_AddElement
      <3>8. atWork' \cup leaving' = (atWork \cup leaving') \cup {h} BY <3>1, <3>2
      <3>9. active' = Cardinality(atWork' \cup leaving')
        <4>1. Cardinality(atWork \cup leaving') = active - 1 BY <1>3, <1>4
        <4>2. Cardinality((atWork \cup leaving') \cup {h}) = (active - 1) + 1 BY <3>7, <4>1
        <4>3. (active - 1) + 1 = active BY <1>f
        <4> QED BY <3>1, <3>8, <4>2, <4>3
      <3>10. atWork' \cap InLine' = {} /\ leaving' \cap (atWork' \cup InLine') = {}
        BY <1>0, <1>1, <3>1, <3>2, <3>3, <3>4 DEF PoolInv, PoolIsFull
      <3>11. Len(inLine') = Cardinality(InLine') BY <1>f, <3>3, <3>5, <3>6
      <3>12. active' = MaxActive BY <1>0, <2>2, <3>1 DEF PoolInv, PoolIsFull
      <3>13. atWork' \cup InLine' = atWork \cup InLine BY <3>1, <3>2, <3>3
      <3>14. atWork' \subseteq Orders BY <1>f, <3>1, <3>2, <3>3
      <3>15. active' \in 0..MaxActive BY <1>f, <3>1
      <3> QED BY <3>3, <3>9, <3>10, <3>11, <3>12, <3>13, <3>14, <3>15
    <2> QED BY <2>1, <2>2
  <1>6. RunnerDomains' BY <1>0, <1>1, <1>5 DEF RunnerDomains
  <1>7. NotYetGiven'
    <2>1. \A u \in Orders : u \in atWork' \cup leaving' \cup InLine' =>
                              u \in atWork \cup leaving \cup InLine
      BY <1>1, <1>5
    <2> QED BY <1>0, <1>1, <2>1 DEF NotYetGiven
  <1>8. PoolInv'
    <2>1. PoolIsFull' BY <1>0, <1>1, <1>5 DEF PoolInv, PoolIsFull
    <2>2. power' = "up" /\ notices' = {} BY <1>0, <1>1 DEF PoolInv
    <2> QED BY <1>5, <2>1, <2>2 DEF PoolInv
  <1>9. FileLags' /\ ToldSoFar' /\ Accounted'
    BY <1>0, <1>1 DEF FileLags, ToldSoFar, Accounted
  <1> QED BY <1>6, <1>7, <1>8, <1>9 DEF RunnerInv

\* A write begins or ends.
LEMMA FilingKeeps == RunnerInv /\ (WriteStarts \/ WriteIsOver) => RunnerInv'
  <1> SUFFICES ASSUME RunnerInv, WriteStarts \/ WriteIsOver PROVE RunnerInv' OBVIOUS
  <1>0. RunnerDomains /\ NotYetGiven /\ PoolInv /\ FileLags /\ ToldSoFar /\ Accounted
    BY DEF RunnerInv
  <1>f. record \in [Orders -> Statuses] /\ tasksFile \in [Orders -> Statuses]
    BY RunnerFacts
  <1> HIDE DEF RunnerInv
  <1>1. UNCHANGED <<power, record, given, active, atWork, leaving, inLine, notices, told,
                    lostEnds, unknown, muted>>
    BY DEF WriteStarts, WriteIsOver, poolVars, historyVars
  <1>2. InLine' = InLine BY <1>1 DEF InLine
  <1>3. CASE WriteStarts
    <2>1. tasksFile' = tasksFile /\ power # "down" BY <1>3 DEF WriteStarts
    <2>2. inWrite' \in [Orders -> Statuses]
          /\ \A t \in Orders : inWrite'[t] \in {record[t], "none"}
      <3>1. PICK S : inWrite' = [t \in Orders |-> IF t \in S THEN record[t] ELSE "none"]
        BY <1>3 DEF WriteStarts
      <3> QED BY <1>f, <3>1 DEF Statuses
    <2>3. RunnerDomains' BY <1>0, <1>1, <2>1, <2>2 DEF RunnerDomains
    <2>4. NotYetGiven' BY <1>0, <1>1, <1>2, <2>1, <2>2 DEF NotYetGiven
    <2>5. PoolInv' BY <1>0, <1>1, <1>2, <2>1 DEF PoolInv, PoolIsFull
    <2>6. FileLags' BY <1>0, <1>1, <2>1, <2>2 DEF FileLags, StillRunning
    <2>7. ToldSoFar' /\ Accounted' BY <1>0, <1>1, <2>1 DEF ToldSoFar, Accounted
    <2> QED BY <2>3, <2>4, <2>5, <2>6, <2>7 DEF RunnerInv
  <1>4. CASE WriteIsOver
    <2>1. inWrite # <<>> /\ inWrite' = <<>> /\ (tasksFile' = inWrite \/ tasksFile' = tasksFile)
      BY <1>4 DEF WriteIsOver
    <2>2. power # "down" BY <1>0, <2>1 DEF PoolInv
    <2>3. RunnerDomains' BY <1>0, <1>1, <2>1 DEF RunnerDomains
    <2>4. NotYetGiven' BY <1>0, <1>1, <1>2, <2>1 DEF NotYetGiven
    <2>5. PoolInv' BY <1>0, <1>1, <1>2, <2>1 DEF PoolInv, PoolIsFull
    <2>6. FileLags' BY <1>0, <1>1, <2>1 DEF FileLags
    <2>7. ToldSoFar' /\ Accounted' BY <1>0, <1>1, <2>2 DEF ToldSoFar, Accounted
    <2> QED BY <2>3, <2>4, <2>5, <2>6, <2>7 DEF RunnerInv
  <1> QED BY <1>3, <1>4

\* The process dies.
LEMMA DyingKeeps == RunnerInv /\ RunnerDies => RunnerInv'
  <1> SUFFICES ASSUME RunnerInv, RunnerDies PROVE RunnerInv' OBVIOUS
  <1>0. RunnerDomains /\ NotYetGiven /\ PoolInv /\ FileLags /\ ToldSoFar /\ Accounted
    BY DEF RunnerInv
  <1>f. /\ tasksFile \in [Orders -> Statuses] /\ record \in [Orders -> Statuses]
        /\ told \in [Orders -> Nat] /\ given \in Nat /\ given <= NumOrders /\ NumOrders \in Nat
    BY RunnerFacts
  <1> HIDE DEF RunnerInv
  <1>1. /\ power # "down" /\ power' = "down" /\ record' = NoRecord /\ notices' = {}
        /\ lostEnds' = lostEnds \cup {t \in StillRunning(tasksFile) : told[t] > 0}
        /\ unknown' = unknown \cup (StillRunning(record) \ Recorded(tasksFile))
        /\ muted' = muted \cup (notices \ StillRunning(tasksFile))
        /\ active' = 0 /\ atWork' = {} /\ leaving' = {} /\ inLine' = <<>> /\ inWrite' = <<>>
        /\ UNCHANGED <<given, tasksFile, told>>
    BY DEF RunnerDies
  <1>2. InLine' = {} BY <1>1 DEF InLine
  <1>3. record' \in [Orders -> Statuses] /\ StillRunning(record') = {}
        /\ \A t \in Orders : record'[t] = "none"
    BY <1>1 DEF NoRecord, Statuses, StillRunning
  <1>4. RunnerDomains'
    <2>1. 0 \in 0..MaxActive /\ <<>> \in Seq(Orders) BY TaskRunnerAssumption
    <2> QED BY <1>0, <1>1, <1>3, <2>1 DEF RunnerDomains
  <1>5. NotYetGiven' BY <1>0, <1>1, <1>2, <1>3 DEF NotYetGiven
  <1>6. PoolInv'
    <2>1. Cardinality({}) = 0 BY FS_EmptySet
    <2>2. PoolIsFull' BY <1>1, <1>2, <2>1 DEF PoolIsFull
    <2> QED BY <1>1, <1>2, <1>3, <2>2 DEF PoolInv
  <1>7. FileLags' BY <1>3 DEF FileLags
  <1>8. ToldSoFar'
    <2>1. \A t \in Orders : told'[t] > 1 => t \in lostEnds' BY <1>0, <1>1 DEF ToldSoFar
    <2>2. \A t \in StillRunning(tasksFile') : told'[t] = 0 \/ t \in lostEnds'
      BY <1>1, <1>f DEF StillRunning
    <2> QED BY <1>1, <1>3, <2>1, <2>2 DEF ToldSoFar
  <1>9. Accounted'
    <2> SUFFICES ASSUME NEW t \in 1..given
                 PROVE \/ told[t] > 0 \/ t \in unknown' \/ t \in muted'
                       \/ t \in StillRunning(tasksFile)
      BY <1>1 DEF Accounted
    <2>1. \/ told[t] > 0 \/ t \in unknown \/ t \in muted
          \/ t \in StillRunning(record) \/ t \in notices
      BY <1>0, <1>1 DEF Accounted
    <2>2. CASE t \in StillRunning(record)
      <3>1. tasksFile[t] \in {"none", "running"} /\ t \in Orders
        BY <1>0, <2>2 DEF FileLags, StillRunning
      <3> QED BY <1>1, <2>2, <3>1 DEF Recorded, StillRunning
    <2> QED BY <1>1, <2>1, <2>2
  <1> QED BY <1>4, <1>5, <1>6, <1>7, <1>8, <1>9 DEF RunnerInv

\* The process starts, and tells of what the last one left.
LEMMA LoadingKeeps == RunnerInv /\ (RecordsLoaded \/ InterruptedAreTold) => RunnerInv'
  <1> SUFFICES ASSUME RunnerInv, RecordsLoaded \/ InterruptedAreTold PROVE RunnerInv' OBVIOUS
  <1>0. RunnerDomains /\ NotYetGiven /\ PoolInv /\ FileLags /\ ToldSoFar /\ Accounted
    BY DEF RunnerInv
  <1>f. /\ tasksFile \in [Orders -> Statuses] /\ record \in [Orders -> Statuses]
        /\ told \in [Orders -> Nat] /\ given \in Nat /\ given <= NumOrders /\ NumOrders \in Nat
        /\ notices \subseteq Orders
    BY RunnerFacts
  <1> HIDE DEF RunnerInv
  <1>1. UNCHANGED <<given, active, atWork, leaving, inLine, inWrite, tasksFile,
                    lostEnds, unknown, muted>>
    BY DEF RecordsLoaded, InterruptedAreTold, poolVars, diskVars, historyVars
  <1>2. InLine' = InLine BY <1>1 DEF InLine
  <1>3. power # "up" /\ power' # "down"
    BY DEF RecordsLoaded, InterruptedAreTold
  <1>4. atWork = {} /\ leaving = {} /\ inLine = <<>> /\ InLine = {}
    BY <1>0, <1>3 DEF PoolInv, InLine
  <1>5. CASE RecordsLoaded
    <2>1. /\ power = "down" /\ power' = "loaded" /\ notices' = StillRunning(tasksFile)
          /\ record' = [t \in Orders |-> IF t \in StillRunning(tasksFile) THEN "failed"
                                         ELSE tasksFile[t]]
          /\ told' = told
      BY <1>5 DEF RecordsLoaded, LeftRunning
    <2>2. record' \in [Orders -> Statuses] /\ StillRunning(record') = {}
          /\ \A t \in Orders : tasksFile[t] = "none" => record'[t] = "none"
      BY <1>f, <2>1 DEF Statuses, StillRunning
    <2>3. RunnerDomains'
      <3>1. notices' \subseteq Orders BY <2>1 DEF StillRunning
      <3> QED BY <1>0, <1>1, <2>1, <2>2, <3>1 DEF RunnerDomains
    <2>4. NotYetGiven' BY <1>0, <1>1, <1>2, <2>1, <2>2 DEF NotYetGiven
    <2>5. PoolInv'
      <3>1. PoolIsFull' BY <1>0, <1>1, <1>2, <2>1 DEF PoolInv, PoolIsFull
      <3> QED BY <1>0, <1>1, <1>2, <1>4, <2>1, <2>2, <3>1 DEF PoolInv
    <2>6. FileLags' BY <2>2 DEF FileLags
    <2>7. ToldSoFar' BY <1>0, <1>1, <2>1, <2>2 DEF ToldSoFar
    <2>8. Accounted' BY <1>0, <1>1, <2>1 DEF Accounted
    <2> QED BY <2>3, <2>4, <2>5, <2>6, <2>7, <2>8 DEF RunnerInv
  <1>6. CASE InterruptedAreTold
    <2>1. /\ power = "loaded" /\ power' = "up" /\ notices' = {} /\ record' = record
          /\ told' = [t \in Orders |-> IF t \in notices THEN told[t] + 1 ELSE told[t]]
      BY <1>6 DEF InterruptedAreTold
    <2>2. StillRunning(record) = {} BY <1>0, <2>1 DEF PoolInv
    <2>3. RunnerDomains' BY <1>0, <1>1, <1>f, <2>1 DEF RunnerDomains
    <2>4. NotYetGiven'
      <3> SUFFICES ASSUME NEW t \in Orders, t > given PROVE told'[t] = 0
        BY <1>0, <1>1, <1>2, <2>1 DEF NotYetGiven
      <3>1. told[t] = 0 BY <1>0 DEF NotYetGiven
      <3>2. t \notin notices BY <1>0 DEF NotYetGiven
      <3> QED BY <2>1, <3>1, <3>2
    <2>5. PoolInv'
      <3>1. PoolIsFull' BY <1>0, <1>1, <1>2, <1>4, <2>1, <2>2 DEF PoolInv, PoolIsFull
      <3> QED BY <1>0, <1>1, <1>2, <1>4, <2>1, <3>1 DEF PoolInv
    <2>6. FileLags' BY <2>1, <2>2 DEF FileLags
    <2>7. ToldSoFar'
      <3>1. ASSUME NEW t \in Orders, told'[t] > 1 PROVE t \in lostEnds
        <4>1. CASE t \in notices BY <1>0, <1>f, <2>1, <3>1, <4>1 DEF ToldSoFar
        <4>2. CASE t \notin notices BY <1>0, <2>1, <3>1, <4>2 DEF ToldSoFar
        <4> QED BY <4>1, <4>2
      <3> QED BY <1>1, <2>1, <2>2, <3>1 DEF ToldSoFar
    <2>8. Accounted'
      <3> SUFFICES ASSUME NEW t \in 1..given
                   PROVE told'[t] > 0 \/ t \in unknown \/ t \in muted
        BY <1>1 DEF Accounted
      <3>1. t \in Orders BY <1>f DEF Orders
      <3>2. told[t] > 0 \/ t \in unknown \/ t \in muted \/ t \in notices
        BY <1>0, <2>1 DEF Accounted
      <3>3. told[t] \in Nat BY <1>f, <3>1
      <3> QED BY <2>1, <3>1, <3>2, <3>3
    <2> QED BY <2>3, <2>4, <2>5, <2>6, <2>7, <2>8 DEF RunnerInv
  <1> QED BY <1>5, <1>6

\* Nothing was delegated.
LEMMA RunnerInitially == RunnerInit => RunnerInv
  <1> SUFFICES ASSUME RunnerInit PROVE RunnerInv OBVIOUS
  <1> USE TaskRunnerAssumption DEF RunnerInit
  <1>1. InLine = {} BY DEF InLine
  <1>2. \A t \in Orders : record[t] = "none" /\ tasksFile[t] = "none" BY DEF NoRecord
  <1>3. StillRunning(record) = {} BY <1>2 DEF StillRunning
  <1>4. RunnerDomains
    <2>1. NoRecord \in [Orders -> Statuses] BY DEF NoRecord, Statuses
    <2>2. <<>> \in Seq(Orders) OBVIOUS
    <2> QED BY <2>1, <2>2 DEF RunnerDomains
  <1>5. NotYetGiven BY <1>1, <1>2 DEF NotYetGiven
  <1>6. PoolInv
    <2>1. Cardinality({}) = 0 BY FS_EmptySet
    <2>2. PoolIsFull BY <1>1, <1>3, <2>1 DEF PoolIsFull
    <2> QED BY <1>1, <1>3, <2>2 DEF PoolInv
  <1>7. FileLags BY <1>3 DEF FileLags
  <1>8. ToldSoFar BY <1>3 DEF ToldSoFar
  <1>9. Accounted BY DEF Accounted
  <1> QED BY <1>4, <1>5, <1>6, <1>7, <1>8, <1>9 DEF RunnerInv

\* Every step of the runner keeps its invariant.
LEMMA RunnerStep == RunnerInv /\ [RunnerNext]_runnerVars => RunnerInv'
  <1> SUFFICES ASSUME RunnerInv, [RunnerNext]_runnerVars PROVE RunnerInv' OBVIOUS
  <1>1. CASE UNCHANGED runnerVars
    BY <1>1 DEF runnerVars, RunnerInv, RunnerDomains, NotYetGiven, PoolInv, PoolIsFull, FileLags,
                ToldSoFar, Accounted, InLine
  <1>2. CASE RunnerNext
    BY <1>2, GivingKeeps, EndingKeeps, PassingKeeps, FilingKeeps, DyingKeeps, LoadingKeeps
    DEF RunnerNext
  <1> QED BY <1>1, <1>2

\* For any number of tasks and places, and any crashes: the places that are counted are
\* taken, nobody waits while one is free, and whoever delegated a task hears of its end,
\* and once, but for the exceptions the property names.
THEOREM TasksFollowed == RunnerSpec => []TasksAreFollowed
  <1>1. RunnerInv => TasksAreFollowed
    <2> SUFFICES ASSUME RunnerInv PROVE ToldOnceOver
      BY DEF RunnerInv, PoolInv, TasksAreFollowed
    <2> QED BY DEF RunnerInv, ToldSoFar, Accounted, ToldOnceOver
  <1> QED BY <1>1, RunnerInitially, RunnerStep, PTL DEF RunnerSpec

\* What RunnerDomains leaves out.
RunnerRest ==
  /\ lostEnds \cup unknown \cup muted \subseteq Orders
  /\ writesDue \in Nat /\ runnerFaults \in 0..MaxRunnerFaults

\* The runner's variables keep to their domains (RunnerTypeOK).
LEMMA RunnerIsTyped == RunnerSpec => []RunnerTypeOK
  <1> USE TaskRunnerAssumption
  <1>1. RunnerInit => RunnerRest BY DEF RunnerInit, RunnerRest
  <1>2. RunnerInv /\ RunnerRest /\ [RunnerNext]_runnerVars => RunnerRest'
    <2> SUFFICES ASSUME RunnerInv, RunnerRest, [RunnerNext]_runnerVars PROVE RunnerRest' OBVIOUS
    <2>1. CASE UNCHANGED historyVars /\ UNCHANGED runnerFaults /\ writesDue' \in Nat
      BY <2>1 DEF historyVars, RunnerRest
    <2>2. CASE OrderGiven \/ WriteStarts \/ RecordsLoaded \/ InterruptedAreTold
               \/ UNCHANGED runnerVars
      BY <2>1, <2>2 DEF OrderGiven, WriteStarts, RecordsLoaded, InterruptedAreTold, runnerVars,
                        historyVars, diskVars, RunnerRest
    <2>3. ASSUME NEW t \in Orders, OrderEnds(t) \/ SlotPasses(t) PROVE RunnerRest'
      BY <2>1, <2>3 DEF OrderEnds, SlotPasses, diskVars, RunnerRest
    <2>4. CASE WriteIsOver BY <2>4 DEF WriteIsOver, historyVars, RunnerRest
    <2>5. CASE RunnerDies
      <3>1. notices \subseteq Orders BY DEF RunnerInv, RunnerDomains
      <3> QED BY <2>5, <3>1 DEF RunnerDies, StillRunning, Recorded, RunnerRest
    <2> QED BY <2>2, <2>3, <2>4, <2>5 DEF RunnerNext
  <1>3. RunnerInv /\ RunnerRest => RunnerTypeOK
    BY DEF RunnerInv, RunnerDomains, RunnerRest, RunnerTypeOK
  <1> QED BY <1>1, <1>2, <1>3, RunnerInitially, RunnerStep, PTL DEF RunnerSpec

\* Both, of the tools in one system with the parts beside them.
THEOREM ToolsFollowed == ForegroundSpec => []ToolsAreFollowed
  <1>1. ForegroundInit => ShellInit /\ RunnerInit BY DEF ForegroundInit
  <1>2. ForegroundNext => [ShellNext]_shellVars /\ [RunnerNext]_runnerVars BY DEF ForegroundNext
  <1>3. UNCHANGED foreVars => UNCHANGED shellVars /\ UNCHANGED runnerVars BY DEF foreVars
  <1>4. [ForegroundNext]_foreVars => [ShellNext]_shellVars /\ [RunnerNext]_runnerVars
    BY <1>2, <1>3
  <1>5. ForegroundSpec => ShellSpec /\ RunnerSpec
    BY <1>1, <1>4, PTL DEF ForegroundSpec, ShellSpec, RunnerSpec
  <1>6. ShellIsKept /\ TasksAreFollowed => ToolsAreFollowed BY DEF ToolsAreFollowed
  <1> QED BY <1>5, <1>6, CommandsInTurn, TasksFollowed, PTL

\* The variables of every part of what a request goes through keep to their domains, for any
\* numbers, names and limits: a batch of the relay has no message twice, a hook makes no more
\* sessions than events came to one, response.create goes out for calls that were answered, and
\* no more jobs are made than were asked for (the parts as MCForeground puts them together).
THEOREM ForegroundIsTyped == ForegroundSpec => []ForegroundTypeOK
  <1>1. /\ ForegroundInit => part \in Parts
        /\ ForegroundInit => RelayInit /\ ReplyInit /\ OutInit /\ FileJobsInit /\ BridgeInit
        /\ ForegroundInit => CascadeInit /\ S2SInit /\ ProfileInit /\ HookInit
        /\ ForegroundInit => AnswerInit /\ ShellInit /\ RunnerInit /\ RepoInit
    BY DEF ForegroundInit
  <1>2. ForegroundNext =>
          /\ UNCHANGED part
          /\ [RelayNext]_relayVars /\ [ReplyNext]_replyVars /\ [OutNext]_outVars
          /\ [FileJobsNext]_fileJobsVars /\ [BridgeNext]_bridgeVars
          /\ [CascadeNext]_cascadeVars /\ [S2SNext]_s2sVars /\ [ProfileNext]_profileVars
          /\ [HookNext]_hookVars /\ [AnswerNext]_answerVars /\ [ShellNext]_shellVars
          /\ [RunnerNext]_runnerVars /\ [RepoNext]_repoVars
    BY DEF ForegroundNext
  <1>3. UNCHANGED foreVars =>
          /\ UNCHANGED part /\ UNCHANGED relayVars /\ UNCHANGED replyVars /\ UNCHANGED outVars
          /\ UNCHANGED fileJobsVars /\ UNCHANGED bridgeVars /\ UNCHANGED cascadeVars
          /\ UNCHANGED s2sVars /\ UNCHANGED profileVars /\ UNCHANGED hookVars
          /\ UNCHANGED answerVars /\ UNCHANGED shellVars /\ UNCHANGED runnerVars
          /\ UNCHANGED repoVars
    BY DEF foreVars
  <1>4. [ForegroundNext]_foreVars =>
          /\ UNCHANGED part
          /\ [RelayNext]_relayVars /\ [ReplyNext]_replyVars /\ [OutNext]_outVars
          /\ [FileJobsNext]_fileJobsVars /\ [BridgeNext]_bridgeVars
          /\ [CascadeNext]_cascadeVars /\ [S2SNext]_s2sVars /\ [ProfileNext]_profileVars
          /\ [HookNext]_hookVars /\ [AnswerNext]_answerVars /\ [ShellNext]_shellVars
          /\ [RunnerNext]_runnerVars /\ [RepoNext]_repoVars
    BY <1>2, <1>3
  <1>5. ForegroundSpec => [](part \in Parts)
    <2>1. part \in Parts /\ UNCHANGED part => (part \in Parts)' OBVIOUS
    <2> QED BY <1>1, <1>4, <2>1, PTL DEF ForegroundSpec
  <1>6. ForegroundSpec => RelaySpec /\ ReplySpec /\ OutSpec /\ FileJobsSpec /\ BridgeSpec
    BY <1>1, <1>4, PTL
    DEF ForegroundSpec, RelaySpec, ReplySpec, OutSpec, FileJobsSpec, BridgeSpec
  <1>7. ForegroundSpec => CascadeSpec /\ S2SSpec /\ ProfileSpec /\ HookSpec
    BY <1>1, <1>4, PTL DEF ForegroundSpec, CascadeSpec, S2SSpec, ProfileSpec, HookSpec
  <1>8. ForegroundSpec => AnswerSpec /\ ShellSpec /\ RunnerSpec /\ RepoSpec
    BY <1>1, <1>4, PTL DEF ForegroundSpec, AnswerSpec, ShellSpec, RunnerSpec, RepoSpec
  <1>9. CascadeSpec => []CascadeTypeOK
    <2>1. SpeechInv => CascadeTypeOK BY DEF SpeechInv
    <2> QED BY <2>1, SpeechInitially, SpeechStep, PTL DEF CascadeSpec
  <1>10. ShellSpec => []ShellTypeOK
    <2>1. ShellInv => ShellTypeOK BY DEF ShellInv
    <2> QED BY <2>1, ShellInitially, ShellKept, PTL DEF ShellSpec
  <1>11. /\ part \in Parts
         /\ RelayTypeOK /\ ReplyTypeOK /\ OutTypeOK /\ FileJobsTypeOK /\ BridgeTypeOK
         /\ CascadeTypeOK /\ S2STypeOK /\ ProfileTypeOK /\ HookTypeOK /\ AnswerTypeOK
         /\ ShellTypeOK /\ RunnerTypeOK /\ RepoTypeOK
         => ForegroundTypeOK
    BY DEF ForegroundTypeOK
  <1> QED BY <1>5, <1>6, <1>7, <1>8, <1>9, <1>10, <1>11, RelayIsTyped, ReplyIsTyped,
             SendsAreTyped, FileJobsAreTyped, BridgeTypeCorrect, S2SIsTyped, ProfileIsTyped,
             HooksAreTyped, AnswerIsTyped, RunnerIsTyped, RepoIsTyped, PTL

===============================================================================
