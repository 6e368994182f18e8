---------------------------- MODULE VoiceCascade ----------------------------
(***************************************************************************)
(* A voice connection over speech recognition, chat and speech synthesis   *)
(* (routes/qwen-voice.ts and its twin routes/voice.ts).  A final           *)
(* transcript opens a turn of the conversation, in which the model is      *)
(* asked again after each round of tool calls; what it says is spoken      *)
(* sentence by sentence while it comes in, and stored by the conversation  *)
(* service at the end of each round.  Whoever speaks over it interrupts    *)
(* it: the sentences already spoken are written to the session as the      *)
(* reply, behind the conversation service's back.                          *)
(* The recogniser has a connection of its own, opened before the route     *)
(* listens to the client's socket (as qwen-voice.ts does it; voice.ts      *)
(* listens first).                                                         *)
(*                                                                         *)
(* Utterances, and the turns they open, are numbered as they are heard.    *)
(***************************************************************************)
EXTENDS Naturals, Sequences, FiniteSets

CONSTANTS
  NumTurns,     \* bounds a behaviour
  MaxRounds,    \* MAX_TOOL_TURNS: the rounds with tool calls of a turn
  MaxVoiceFaults, \* turns with an error of their own: bounds a behaviour
  MaxHistory    \* bounds a behaviour: behind so many messages no question is stored, behind
                \* one less no round with tool calls, and with the utterances that many no
                \* further one is heard

ASSUME VoiceCascadeAssumption ==
  NumTurns \in Nat /\ MaxRounds \in Nat /\ MaxVoiceFaults \in Nat /\ MaxHistory \in Nat

Turns == 1..NumTurns

VARIABLES
  heardTurns,   \* how many final transcripts there were
  asr,          \* the recogniser: "starting", "ready" or "failed"
  asrOpen,      \* its connection is open
  unheard,      \* the socket closed before the route listened to it (history)
  voiceOpen,    \* the socket is open
  activeTask,   \* the turn that is active, or 0
  turn,         \* turn -> where runVoiceTask is
  waitsFor,     \* turn -> the turn whose interruption it waits for, or 0
  aborted,      \* the turns whose controller is aborted
  allIn,        \* the turns whose present round the model has ended: all of it can be read
  spoken,       \* the turns with a sentence in task.synthesized, spoken to its end
  partial,      \* turn -> the write of its partial reply: "none", "writing" or "over"
  line,         \* the session's queue in the conversation service
  rows,         \* the messages of the session
  lateStop,     \* turns interrupted with a round that was stored, or all in (history)
  spoiled       \* turns with an error, a failed write, a claim taken back, or ended
                \* by the socket (history)

ears == <<asr, asrOpen, unheard, voiceOpen>>
chatting == <<heardTurns, activeTask, turn, waitsFor, aborted, allIn, spoken, partial, line, rows,
              lateStop, spoiled>>
cascadeVars == <<ears, chatting>>

CascadeInit ==
  /\ asr = "starting" /\ asrOpen = TRUE /\ unheard = FALSE
  /\ heardTurns = 0 /\ voiceOpen = TRUE /\ activeTask = 0
  /\ turn = [u \in Turns |-> "none"]
  /\ waitsFor = [u \in Turns |-> 0]
  /\ partial = [u \in Turns |-> "none"]
  /\ aborted = {} /\ allIn = {} /\ spoken = {} /\ lateStop = {} /\ spoiled = {}
  /\ line = <<>> /\ rows = <<>>

(***************************************************************************)
(* The recogniser                                                          *)
(***************************************************************************)
\* start and updateSession are through: only now the route listens to the client's
\* socket, closed or not.
AsrReady ==
  /\ asr = "starting" /\ asrOpen
  /\ asr' = "ready"
  /\ UNCHANGED <<asrOpen, unheard, voiceOpen, chatting>>

\* One of them is not acknowledged in time: the client's socket is closed.
AsrFails ==
  /\ asr = "starting" /\ asrOpen
  /\ asr' = "failed"
  /\ voiceOpen' = FALSE /\ unheard' = TRUE
  /\ UNCHANGED <<asrOpen, chatting>>

\* The recogniser closes; the client's socket will (SocketCloses).
AsrCloses ==
  /\ asrOpen
  /\ asrOpen' = FALSE
  /\ asr' = IF asr = "starting" THEN "failed" ELSE asr
  /\ UNCHANGED <<unheard, voiceOpen, chatting>>

\* Its transcripts come.
Hears ==
  /\ asr = "ready" /\ asrOpen /\ voiceOpen
  /\ heardTurns < NumTurns /\ heardTurns + Len(rows) <= MaxHistory

\* Something may go wrong with the turn u (the bound): what happens to one that is aborted
\* makes no difference to it any more.
MayFail(u) == u \in aborted \/ Cardinality(spoiled) < MaxVoiceFaults

(***************************************************************************)
(* interrupt, and what a final transcript does                             *)
(***************************************************************************)
\* A row of this kind is in the history.
Has(kind, u) == \E i \in DOMAIN rows : rows[i] = <<kind, u>>

\* The active turn is given up; what was spoken of it is on its way to the store.
Interrupted ==
  /\ aborted' = aborted \cup {activeTask}
  /\ partial' = IF activeTask \in spoken THEN [partial EXCEPT ![activeTask] = "writing"]
                ELSE partial
  /\ lateStop' = IF activeTask \in allIn \/ Has("calls", activeTask)
                 THEN lateStop \cup {activeTask} ELSE lateStop

\* runVoiceTask for the utterance u: dropped while another turn is active.
Runs(u, active) ==
  IF active # 0
  THEN turn' = [turn EXCEPT ![u] = "dropped"] /\ activeTask' = active /\ UNCHANGED line
  ELSE turn' = [turn EXCEPT ![u] = "queued"] /\ activeTask' = u /\ line' = Append(line, u)

\* A final transcript with nothing to interrupt.
FinalWhenIdle ==
  /\ Hears /\ activeTask = 0
  /\ heardTurns' = heardTurns + 1
  /\ Runs(heardTurns', 0)
  /\ UNCHANGED <<ears, waitsFor, aborted, allIn, spoken, partial, rows, lateStop, spoiled>>

\* Mutant: the new turn does not wait for the partial reply.
FinalInterrupts_AtOnce ==
  /\ Hears /\ activeTask # 0
  /\ heardTurns' = heardTurns + 1
  /\ Interrupted
  /\ Runs(heardTurns', 0)
  /\ waitsFor' = [waitsFor EXCEPT ![heardTurns'] = activeTask]
  /\ UNCHANGED <<ears, allIn, spoken, rows, spoiled>>

\* A final transcript while a turn is active: that one is interrupted, and the
\* new one waits for its partial reply, if there is one, to be written.
FinalInterrupts ==
  /\ Hears /\ activeTask # 0
  /\ heardTurns' = heardTurns + 1
  /\ Interrupted
  /\ IF activeTask \in spoken
     THEN /\ turn' = [turn EXCEPT ![heardTurns'] = "waiting"]
          /\ waitsFor' = [waitsFor EXCEPT ![heardTurns'] = activeTask]
          /\ activeTask' = 0
          /\ UNCHANGED line
     ELSE Runs(heardTurns', 0) /\ UNCHANGED waitsFor
  /\ UNCHANGED <<ears, allIn, spoken, rows, spoiled>>

\* The user speaks over the reply, or the client stops it: nobody waits.
BargeIn ==
  /\ voiceOpen /\ activeTask # 0
  /\ Interrupted
  /\ activeTask' = 0
  /\ UNCHANGED <<ears, heardTurns, turn, waitsFor, allIn, spoken, line, rows, spoiled>>

\* The partial reply is stored, or the store fails; then the final transcript
\* that waited for it opens its turn.
PartialWritten(u, stored) ==
  /\ partial[u] = "writing"
  /\ stored \/ Cardinality(spoiled) < MaxVoiceFaults
  /\ partial' = [partial EXCEPT ![u] = "over"]
  /\ rows' = IF stored THEN Append(rows, <<"partial", u>>) ELSE rows
  /\ spoiled' = IF stored THEN spoiled ELSE spoiled \cup {u}
  /\ IF \E v \in Turns : waitsFor[v] = u /\ turn[v] = "waiting"
     THEN Runs(CHOOSE v \in Turns : waitsFor[v] = u /\ turn[v] = "waiting", activeTask)
     ELSE UNCHANGED <<turn, activeTask, line>>
  /\ UNCHANGED <<ears, heardTurns, waitsFor, aborted, allIn, spoken, lateStop>>

(***************************************************************************)
(* A turn of the conversation and its speech                               *)
(***************************************************************************)
\* The session's queue once u has left it: whoever is in its turn is the first.
Left(u) == IF line # <<>> /\ Head(line) = u THEN Tail(line) ELSE line

\* What a step of the conversation leaves alone.
quiet == <<ears, heardTurns, activeTask, waitsFor, aborted, partial, lateStop>>

\* runChat has the session's turn.
TurnBegins(u) ==
  /\ turn[u] = "queued" /\ Head(line) = u
  /\ turn' = [turn EXCEPT ![u] = "opening"]
  /\ UNCHANGED <<quiet, allIn, spoken, line, rows, spoiled>>

\* The user's message is stored.
QuestionStored(u) ==
  /\ turn[u] = "opening" /\ Len(rows) < MaxHistory
  /\ rows' = Append(rows, <<"user", u>>)
  /\ turn' = [turn EXCEPT ![u] = "thinking"]
  /\ UNCHANGED <<quiet, allIn, spoken, line, spoiled>>

\* The model is asked, unless the loop sees the abort (agent.state is handed over before).
RoundBegins(u) ==
  /\ turn[u] = "thinking" /\ u \notin aborted
  /\ turn' = [turn EXCEPT ![u] = "speaking"]
  /\ UNCHANGED <<quiet, allIn, spoken, line, rows, spoiled>>

\* Mutant: the controller's signal is not handed to runChat.
AllReceived_Deaf(u) ==
  /\ turn[u] \in {"speaking", "voicing"} /\ u \notin allIn
  /\ allIn' = allIn \cup {u}
  /\ UNCHANGED <<quiet, turn, spoken, line, rows, spoiled>>

\* The model has said all of this round; it may be read only when the sentence is spoken.
AllReceived(u) ==
  /\ turn[u] \in {"speaking", "voicing"} /\ u \notin allIn /\ u \notin aborted
  /\ allIn' = allIn \cup {u}
  /\ UNCHANGED <<quiet, turn, spoken, line, rows, spoiled>>

\* A sentence is complete: the loop waits until it is synthesized and sent.
SentenceBegins(u) ==
  /\ turn[u] = "speaking" /\ u \notin aborted
  /\ turn' = [turn EXCEPT ![u] = "voicing"]
  /\ UNCHANGED <<quiet, allIn, spoken, line, rows, spoiled>>

\* It was.  One that the abort broke off is pushed too, but synthesized is not read again.
SentenceSpoken(u) ==
  /\ turn[u] = "voicing"
  /\ turn' = [turn EXCEPT ![u] = "speaking"]
  /\ spoken' = IF u \in aborted THEN spoken ELSE spoken \cup {u}
  /\ UNCHANGED <<quiet, allIn, line, rows, spoiled>>

\* The round ends with tool calls, which the conversation service stores with its words.
CallsComplete(u) ==
  /\ turn[u] = "speaking" /\ u \in allIn /\ Len(rows) + 1 < MaxHistory
  /\ Cardinality({i \in DOMAIN rows : rows[i] \in {"calls", "mute"} \X {u}}) < MaxRounds
  /\ turn' = [turn EXCEPT ![u] = "calling"]
  /\ UNCHANGED <<quiet, allIn, spoken, line, rows, spoiled>>

\* They are stored, with words or without; the tools run, and the model is asked again.
CallsStored(u, words) ==
  /\ turn[u] = "calling"
  /\ u \in spoken \ spoiled => words \/ Has("calls", u)
  /\ rows' = Append(rows, <<IF words THEN "calls" ELSE "mute", u>>)
  /\ allIn' = allIn \ {u}
  /\ turn' = [turn EXCEPT ![u] = "thinking"]
  /\ UNCHANGED <<quiet, spoken, line, spoiled>>

\* A delegation succeeded, in a round with words: those are the reply.
Delegated(u) ==
  /\ turn[u] = "thinking" /\ u \notin aborted
  /\ \E i \in DOMAIN rows :
       rows[i] = <<"calls", u>> /\ \A k \in DOMAIN rows : k > i => rows[k] # <<"mute", u>>
  /\ turn' = [turn EXCEPT ![u] = "tail"]
  /\ line' = Left(u)
  /\ UNCHANGED <<quiet, allIn, spoken, rows, spoiled>>

\* The round claims a delegation it did not make: it is not stored, the model is asked again.
ClaimRefused(u) ==
  /\ turn[u] = "speaking" /\ u \in allIn /\ u \notin aborted /\ MayFail(u)
  /\ allIn' = allIn \ {u}
  /\ spoiled' = spoiled \cup {u}
  /\ UNCHANGED <<quiet, turn, spoken, line, rows>>

\* The last token is out: the conversation service stores the reply, or what is left of it
\* after the tools.
LastToken(u) ==
  /\ turn[u] = "speaking" /\ u \in allIn
  /\ turn' = [turn EXCEPT ![u] = "storing"]
  /\ UNCHANGED <<quiet, allIn, spoken, line, rows, spoiled>>

\* It is stored, and runChat is over; what is left in the buffer is spoken.
ReplyStored(u) ==
  /\ turn[u] = "storing"
  /\ rows' = Append(rows, <<"reply", u>>)
  /\ turn' = [turn EXCEPT ![u] = "tail"]
  /\ line' = Left(u)
  /\ UNCHANGED <<quiet, allIn, spoken, spoiled>>

\* The model fails, or sees the abort: the conversation service stores that it did.
StreamFails(u) ==
  /\ turn[u] = "speaking" /\ u \notin allIn /\ MayFail(u)
  /\ turn' = [turn EXCEPT ![u] = "failing"]
  /\ UNCHANGED <<quiet, allIn, spoken, line, rows, spoiled>>

FailureStored(u) ==
  /\ turn[u] = "failing"
  /\ rows' = Append(rows, <<"failed", u>>)
  /\ turn' = [turn EXCEPT ![u] = "tail"]
  /\ line' = Left(u)
  /\ spoiled' = IF u \in aborted THEN spoiled ELSE spoiled \cup {u}
  /\ UNCHANGED <<quiet, allIn, spoken>>

\* runVoiceTask ends: its finally, and that of the generator it leaves.
Ends(u) ==
  /\ turn' = [turn EXCEPT ![u] = "over"]
  /\ line' = Left(u)
  /\ activeTask' = IF activeTask = u THEN 0 ELSE activeTask
  /\ allIn' = allIn \ {u}
  /\ UNCHANGED <<ears, heardTurns, waitsFor, aborted, partial, rows, lateStop>>

\* The end of the buffer is spoken, if there is one.
TailSpoken(u) ==
  /\ turn[u] = "tail" /\ u \notin aborted
  /\ spoken' \in {spoken, spoken \cup {u}}
  /\ Ends(u)
  /\ UNCHANGED spoiled

\* The abort is seen: by the synthesis, or by the loop when it has the next envelope.
AbortSeen(u) ==
  /\ turn[u] \in {"opening", "thinking", "speaking", "voicing", "tail"} /\ u \in aborted
  /\ Ends(u)
  /\ UNCHANGED <<spoken, spoiled>>

\* The store, the memory or the synthesis fails: nothing more is written.
TurnFails(u) ==
  /\ turn[u] \in {"opening", "thinking", "voicing", "calling", "storing", "failing", "tail"}
  /\ MayFail(u)
  /\ spoiled' = IF u \in aborted THEN spoiled ELSE spoiled \cup {u}
  /\ Ends(u)
  /\ UNCHANGED spoken

\* The active turn is aborted, and nothing of it written.
GivenUp ==
  /\ aborted' = IF activeTask # 0 THEN aborted \cup {activeTask} ELSE aborted
  /\ spoiled' = IF activeTask # 0 THEN spoiled \cup {activeTask} ELSE spoiled
  /\ activeTask' = 0
  /\ UNCHANGED <<heardTurns, turn, waitsFor, allIn, spoken, partial, line, rows, lateStop>>

\* Mutant: the handler forgets the recogniser.
SocketCloses_Keeps ==
  /\ voiceOpen
  /\ voiceOpen' = FALSE
  /\ unheard' = (asr # "ready")
  /\ GivenUp
  /\ UNCHANGED <<asr, asrOpen>>

\* The socket closes: the recogniser with it, if the handler is there to close it.
SocketCloses ==
  /\ voiceOpen
  /\ voiceOpen' = FALSE
  /\ unheard' = (asr # "ready")
  /\ asrOpen' = (asrOpen /\ asr # "ready")
  /\ GivenUp
  /\ UNCHANGED asr

TurnStep(u) ==
  \/ \E stored \in BOOLEAN : PartialWritten(u, stored)
  \/ TurnBegins(u) \/ QuestionStored(u) \/ RoundBegins(u) \/ AllReceived(u)
  \/ SentenceBegins(u) \/ SentenceSpoken(u)
  \/ CallsComplete(u) \/ \E words \in BOOLEAN : CallsStored(u, words)
  \/ Delegated(u) \/ ClaimRefused(u)
  \/ LastToken(u) \/ ReplyStored(u) \/ StreamFails(u) \/ FailureStored(u)
  \/ TailSpoken(u) \/ AbortSeen(u) \/ TurnFails(u)

CascadeNext ==
  \/ AsrReady \/ AsrFails \/ AsrCloses
  \/ FinalWhenIdle \/ FinalInterrupts \/ BargeIn \/ SocketCloses
  \/ \E u \in Turns : TurnStep(u)

CascadeSpec == CascadeInit /\ [][CascadeNext]_cascadeVars

(***************************************************************************)
(* Properties                                                              *)
(***************************************************************************)
Stages == {"none", "waiting", "dropped", "queued", "opening", "thinking", "speaking", "voicing",
           "calling", "storing", "failing", "tail", "over"}

RowKinds == {"user", "partial", "reply", "calls", "mute", "failed"}

\* Every variable keeps to its domain.
CascadeTypeOK ==
  /\ asr \in {"starting", "ready", "failed"}
  /\ asrOpen \in BOOLEAN /\ unheard \in BOOLEAN
  /\ heardTurns \in 0..NumTurns
  /\ activeTask \in {0} \cup Turns
  /\ turn \in [Turns -> Stages]
  /\ waitsFor \in [Turns -> {0} \cup Turns]
  /\ partial \in [Turns -> {"none", "writing", "over"}]
  /\ aborted \cup allIn \cup spoken \cup lateStop \cup spoiled \subseteq Turns
  /\ line \in Seq(Turns)
  /\ rows \in Seq(RowKinds \X Turns)

\* The rows with words that were spoken.
Said(u) == {i \in DOMAIN rows : rows[i] \in {"partial", "reply", "calls"} \X {u}}

\* No question of another turn stands between a question and its answer ("wait
\* for the partial reply to be stored, then open the new turn: else the history
\* has the answer behind the next question", asr.onTranscript), unless the other
\* turn did not wait for this one: after a barge-in nobody does.
HistoryInOrder ==
  \A j \in DOMAIN rows : rows[j][1] # "user" =>
    \E i \in 1..(j - 1) :
      /\ rows[i] = <<"user", rows[j][2]>>
      /\ \A k \in (i + 1)..(j - 1) :
           rows[k][1] = "user" => rows[j][1] = "partial" /\ waitsFor[rows[k][2]] # rows[j][2]

\* What was spoken of a reply to the end of a sentence is in the history, once: round by
\* round, or what was interrupted as one row, which stands alone ("wait for the partial reply
\* to be stored").  Except where the interruption came when a round was stored already or had
\* all come in, so that its words stand beside the partial reply that repeats them; and where
\* the model, a write or the synthesis failed, a claimed delegation was refused, or the
\* socket closed.
SpokenIsStoredOnce ==
  \A u \in Turns \ (lateStop \cup spoiled) :
    /\ \A i, j \in Said(u) : i # j =>
         /\ "calls" \in {rows[i][1], rows[j][1]}
         /\ "partial" \notin {rows[i][1], rows[j][1]}
    /\ turn[u] = "over" /\ u \in spoken /\ partial[u] # "writing" => Said(u) # {}

\* The recogniser is not left connected when the client is gone: except where the route
\* did not listen yet when it went, or was sent away because the start failed.
RecogniserIsClosed == ~voiceOpen /\ ~unheard => ~asrOpen

\* All three, of a voice connection.
SpeechIsKept == HistoryInOrder /\ SpokenIsStoredOnce /\ RecogniserIsClosed
=============================================================================
