------------------------------ MODULE LlmStream ------------------------------
(***************************************************************************)
(* One request to the language model (chatWithTimeoutAndRetry of           *)
(* services/conversation.ts): its answer is passed on chunk by chunk; an   *)
(* attempt that is silent too long is aborted, one that fails before its   *)
(* first chunk is made again after a pause, and one refused for its        *)
(* tool_choice is made again without it.  The idle timer is set before a   *)
(* chunk is handed on, and runs while the chunk is dealt with.             *)
(***************************************************************************)
EXTENDS Naturals, Sequences

CONSTANTS
  RetryAttempts,   \* retryAttempts
  NumChunks        \* chunks of a whole answer

ASSUME LlmStreamAssumption == RetryAttempts \in Nat /\ NumChunks \in Nat \ {0}

VARIABLES
  stream,        \* "asking", "handing_on", "pausing", "done" or "failed"
  attempt,
  choosing,      \* the request still carries tool_choice
  gotChunk,
  chunk,         \* chunks of this attempt so far
  userAborted,
  idleTimedOut,
  passedOn,      \* the chunks handed on, over all attempts
  requests,      \* requests to the provider that were not aborted from the start
  lateRefusal    \* tool_choice was refused after a chunk (history)

streamVars == <<stream, attempt, choosing, gotChunk, chunk, userAborted, idleTimedOut, passedOn,
                requests, lateRefusal>>

StreamInit ==
  /\ stream = "asking" /\ attempt = 0 /\ choosing \in BOOLEAN
  /\ gotChunk = FALSE /\ chunk = 0
  /\ userAborted = FALSE /\ idleTimedOut = FALSE
  /\ passedOn = <<>> /\ requests = 1 /\ lateRefusal = FALSE

\* The provider's next chunk; the timer begins anew.  What the provider had read
\* before an abort still comes.
ChunkComes ==
  /\ stream = "asking" /\ chunk < NumChunks
  /\ chunk' = chunk + 1 /\ gotChunk' = TRUE
  /\ passedOn' = Append(passedOn, chunk')
  /\ stream' = "handing_on"
  /\ UNCHANGED <<attempt, choosing, userAborted, idleTimedOut, requests, lateRefusal>>

\* The caller asks for more.
ChunkTaken ==
  /\ stream = "handing_on"
  /\ stream' = "asking"
  /\ UNCHANGED <<attempt, choosing, gotChunk, chunk, userAborted, idleTimedOut, passedOn, requests,
                 lateRefusal>>

StreamEnds ==
  /\ stream = "asking"
  /\ stream' = "done"
  /\ UNCHANGED <<attempt, choosing, gotChunk, chunk, userAborted, idleTimedOut, passedOn, requests,
                 lateRefusal>>

\* The provider is silent, or the caller slow.
IdleTimeout ==
  /\ stream \in {"asking", "handing_on"} /\ ~idleTimedOut
  /\ idleTimedOut' = TRUE
  /\ UNCHANGED <<stream, attempt, choosing, gotChunk, chunk, userAborted, passedOn, requests,
                 lateRefusal>>

\* The caller's signal; it may come in a pause, too.
UserAborts ==
  /\ stream \in {"asking", "handing_on", "pausing"} /\ ~userAborted
  /\ userAborted' = TRUE
  /\ UNCHANGED <<stream, attempt, choosing, gotChunk, chunk, idleTimedOut, passedOn, requests,
                 lateRefusal>>

\* The loop's next round.
AsksAgain ==
  /\ attempt' = attempt + 1
  /\ stream' = "asking"
  /\ gotChunk' = FALSE /\ chunk' = 0 /\ idleTimedOut' = FALSE
  /\ requests' = IF userAborted THEN requests ELSE requests + 1

\* Mutant: a retry although chunks were handed on.
MayRetry_Midway(retryable) == (idleTimedOut \/ retryable) /\ attempt < RetryAttempts

\* Mutant: the first attempt is not counted.
MayRetry_OnceMore(retryable) == ~gotChunk /\ (idleTimedOut \/ retryable) /\ attempt <= RetryAttempts

MayRetry(retryable) == ~gotChunk /\ (idleTimedOut \/ retryable) /\ attempt < RetryAttempts

\* The attempt fails, aborted or by the provider's error.  An abort of the caller's
\* ends the request; a refused tool_choice is left out at once, which counts as an
\* attempt like any other; then a retry after a pause, where one is due.
AttemptFails(refused, retryable) ==
  /\ stream = "asking"
  /\ \/ /\ ~userAborted /\ choosing /\ refused
        /\ choosing' = FALSE
        /\ lateRefusal' = (lateRefusal \/ gotChunk)
        /\ AsksAgain
     \/ /\ userAborted \/ ~(choosing /\ refused)
        /\ stream' = IF ~userAborted /\ MayRetry(retryable) THEN "pausing" ELSE "failed"
        /\ UNCHANGED <<attempt, choosing, gotChunk, chunk, idleTimedOut, requests, lateRefusal>>
  /\ UNCHANGED <<userAborted, passedOn>>

PauseEnds ==
  /\ stream = "pausing"
  /\ AsksAgain
  /\ UNCHANGED <<choosing, userAborted, passedOn, lateRefusal>>

StreamNext ==
  \/ ChunkComes \/ ChunkTaken \/ StreamEnds \/ IdleTimeout \/ UserAborts \/ PauseEnds
  \/ \E refused, retryable \in BOOLEAN : AttemptFails(refused, retryable)

StreamSpec == StreamInit /\ [][StreamNext]_streamVars

(***************************************************************************)
(* Properties                                                              *)
(***************************************************************************)
\* Every variable keeps to its domain.
StreamTypeOK ==
  /\ stream \in {"asking", "handing_on", "pausing", "done", "failed"}
  /\ attempt \in 0..(RetryAttempts + 1) /\ requests \in 1..(RetryAttempts + 2)
  /\ {choosing, gotChunk, userAborted, idleTimedOut, lateRefusal} \subseteq BOOLEAN
  /\ chunk \in 0..NumChunks /\ passedOn \in Seq(1..NumChunks)

\* The caller never gets a piece of the answer twice, nor one attempt's pieces
\* behind another's ("retry only while no token was produced, so as not to repeat
\* the stream"), however attempts fail, time out or are refused.  Except where
\* tool_choice is refused after a chunk: that is not looked at there.
NothingRepeated == lateRefusal \/ \A i \in DOMAIN passedOn : passedOn[i] = i
=============================================================================
