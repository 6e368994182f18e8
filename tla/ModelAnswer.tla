----------------------------- MODULE ModelAnswer -----------------------------
(***************************************************************************)
(* Where a turn's answer comes from (FallbackLLMProvider of packages/llm   *)
(* over the OpenRouterProvider of packages/openrouter): two models, a      *)
(* primary one and a spare one that is asked when the primary fails before *)
(* it has shown any text.  A model streams text, pieces of tool calls and  *)
(* a mark that the calls are whole; #runChatInner keeps the text of all    *)
(* chunks and the calls of the last chunk that carries any.  LlmStream is  *)
(* the layer above, whose retries begin all over here.                     *)
(***************************************************************************)
EXTENDS Naturals, FiniteSets

CONSTANTS
  MaxPieces,     \* pieces of tool calls that one model streams: bounds a behaviour
  AnswerRetries  \* attempts after the first that LlmStream makes

ASSUME ModelAnswerAssumption == MaxPieces \in Nat \ {0} /\ AnswerRetries \in Nat

Models == {"primary", "spare"}

VARIABLES
  hasSpare,       \* a fallback is configured
  answering,      \* the model that streams; "done" or "failed" at the end
  tries,          \* attempts of the layer above before this one
  silent,         \* this attempt's signal was aborted: the model was silent too long
  pieces,         \* pieces of calls in toolCallAccumulator
  callsYielded,   \* toolCallsYielded
  producedText,
  gotAny,         \* the layer above has seen a chunk of this attempt
  textOf,         \* the models whose text is in fullText
  callsOf,        \* the model whose calls are in toolCalls, "none" when there are none
  callsPieces,    \* how many pieces those calls were put together from
  dropped,        \* the stream ended without its last line: no flush (history)
  brokeAfterCalls \* the primary failed behind calls it had yielded (history)

answerVars == <<hasSpare, answering, tries, silent, pieces, callsYielded, producedText, gotAny,
                textOf, callsOf, callsPieces, dropped, brokeAfterCalls>>
kept == <<textOf, callsOf, callsPieces>>

AnswerInit ==
  /\ hasSpare \in BOOLEAN
  /\ answering = "primary" /\ tries = 0 /\ silent = FALSE
  /\ pieces = 0 /\ callsYielded = FALSE /\ producedText = FALSE /\ gotAny = FALSE
  /\ textOf = {} /\ callsOf = "none" /\ callsPieces = 0
  /\ dropped = FALSE /\ brokeAfterCalls = FALSE

\* A chunk with text.
TextComes ==
  /\ answering \in Models
  /\ textOf' = textOf \cup {answering}
  /\ producedText' = (producedText \/ answering = "primary")
  /\ gotAny' = TRUE
  /\ UNCHANGED <<hasSpare, answering, tries, silent, pieces, callsYielded, callsOf, callsPieces,
                 dropped, brokeAfterCalls>>

\* A piece of a call is only gathered: nothing is yielded.  A server sends no piece
\* behind the finish_reason that closes its choice.
PieceComes ==
  /\ answering \in Models /\ pieces < MaxPieces /\ ~callsYielded
  /\ pieces' = pieces + 1
  /\ UNCHANGED <<hasSpare, answering, tries, silent, callsYielded, producedText, gotAny, kept,
                 dropped, brokeAfterCalls>>

\* The gathered calls go out with a chunk; what the consumer had is replaced.
YieldsCalls ==
  IF pieces > 0
  THEN callsOf' = answering /\ callsPieces' = pieces
  ELSE UNCHANGED <<callsOf, callsPieces>>

\* finish_reason tool_calls.
CallsFinish ==
  /\ answering \in Models
  /\ callsYielded' = TRUE /\ gotAny' = TRUE
  /\ YieldsCalls
  /\ UNCHANGED <<hasSpare, answering, tries, silent, pieces, producedText, textOf, dropped,
                 brokeAfterCalls>>

\* A chunk with the usage alone.
UsageComes ==
  /\ answering \in Models
  /\ gotAny' = TRUE
  /\ UNCHANGED <<hasSpare, answering, tries, silent, pieces, callsYielded, producedText, kept,
                 dropped, brokeAfterCalls>>

\* Mutant: calls that no finish_reason has announced are forgotten.
AnswerDone_NoFlush ==
  /\ answering \in Models
  /\ answering' = "done"
  /\ UNCHANGED <<hasSpare, tries, silent, pieces, callsYielded, producedText, gotAny, kept, dropped,
                 brokeAfterCalls>>

\* [DONE]: calls that no finish_reason has announced go out now.
AnswerDone ==
  /\ answering \in Models
  /\ answering' = "done"
  /\ IF callsYielded THEN UNCHANGED <<callsOf, callsPieces>> ELSE YieldsCalls
  /\ UNCHANGED <<hasSpare, tries, silent, pieces, callsYielded, producedText, gotAny, textOf,
                 dropped, brokeAfterCalls>>

\* The body ends without a [DONE] that ends its line: the same to the consumer,
\* but nothing is flushed.
AnswerCutShort ==
  /\ answering \in Models
  /\ answering' = "done"
  /\ dropped' = (pieces > 0 /\ ~callsYielded)
  /\ UNCHANGED <<hasSpare, tries, silent, pieces, callsYielded, producedText, gotAny, kept,
                 brokeAfterCalls>>

\* LlmStream's idle timer aborts the signal that both models are asked with.
AnswerTimesOut ==
  /\ answering \in Models /\ ~silent
  /\ silent' = TRUE
  /\ UNCHANGED <<hasSpare, answering, tries, pieces, callsYielded, producedText, gotAny, kept,
                 dropped, brokeAfterCalls>>

\* Mutant: the spare one takes over whatever was shown.
MayTakeOver_Midway == answering = "primary" /\ hasSpare

\* chat's catch.
MayTakeOver == answering = "primary" /\ hasSpare /\ ~producedText

Begins(model) ==
  /\ answering' = model
  /\ pieces' = 0 /\ callsYielded' = FALSE

\* The model's request or its stream fails, aborted or not, or it has no key.  The
\* spare one takes over, or the error goes up.
ModelFails ==
  /\ answering \in Models
  /\ IF MayTakeOver
     THEN /\ Begins("spare")
          /\ brokeAfterCalls' = (brokeAfterCalls \/ callsYielded)
          /\ UNCHANGED <<tries, silent, producedText, gotAny, kept>>
     ELSE /\ UNCHANGED brokeAfterCalls
          /\ IF ~gotAny /\ tries < AnswerRetries
             THEN /\ tries' = tries + 1 /\ silent' = FALSE /\ producedText' = FALSE
                  /\ Begins("primary")
                  /\ UNCHANGED <<gotAny, kept>>
             ELSE /\ answering' = "failed"
                  /\ UNCHANGED <<tries, silent, pieces, callsYielded, producedText, gotAny, kept>>
  /\ UNCHANGED <<hasSpare, dropped>>

\* A request that is made with an aborted signal fails at once (#post): when the primary
\* one was too slow there is no answer from the spare one.
IsAnswered == ~(silent /\ answering = "spare")

AnswerNext ==
  \/ /\ IsAnswered
     /\ TextComes \/ PieceComes \/ CallsFinish \/ UsageComes \/ AnswerDone \/ AnswerCutShort
  \/ AnswerTimesOut \/ ModelFails

AnswerSpec == AnswerInit /\ [][AnswerNext]_answerVars

(***************************************************************************)
(* Properties                                                              *)
(***************************************************************************)
\* Every variable keeps to its domain.
AnswerTypeOK ==
  /\ answering \in Models \cup {"done", "failed"}
  /\ tries \in 0..AnswerRetries /\ pieces \in 0..MaxPieces /\ callsPieces \in 0..MaxPieces
  /\ {hasSpare, silent, callsYielded, producedText, gotAny, dropped, brokeAfterCalls} \subseteq BOOLEAN
  /\ textOf \subseteq Models /\ callsOf \in Models \cup {"none"}

\* A turn that is gone on with has one author: the calls that will run and the
\* words before them are of the same model, whichever failed on the way.  Except
\* where the primary failed behind calls that it had yielded: only its text keeps
\* the spare one out, and the calls stay.
OneModelAnswers ==
  answering = "done" /\ ~brokeAfterCalls =>
    Cardinality(textOf \cup ({callsOf} \ {"none"})) <= 1

\* Tool calls are never dropped silently (chat, at [DONE]): if the model of a whole
\* answer asked for any, there are calls to run.  Except when the stream's last line
\* does not come, or does not end.
CallsAreRun == answering = "done" /\ pieces > 0 /\ ~dropped => callsOf # "none"

\* Both, of the answer that the chat goes on with.
AnswerIsWhole == OneModelAnswers /\ CallsAreRun
=============================================================================
