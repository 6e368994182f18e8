----------------------------- MODULE ReplyStream -----------------------------
(***************************************************************************)
(* How one reply reaches the Weixin user (chatOnceInner in relay.ts): its  *)
(* finished paragraphs and sentences are sent while the rest still comes   *)
(* in, and what is left goes out in pieces when the stream has ended.      *)
(*                                                                         *)
(* A text is a sequence of tokens: "word", "stop" (words that end a        *)
(* sentence), "colon" (words that announce a list) and "gap" (the empty    *)
(* line between paragraphs, the only token trim() removes).  A token has   *)
(* its place in the reply, so that no two are the same.                    *)
(***************************************************************************)
EXTENDS Integers, SequencesExt

CONSTANTS
  MaxText,      \* tokens of a reply: bounds a behaviour
  FirstMin,     \* FIRST_SEGMENT_MIN_CHARS
  SegmentMin,   \* SEGMENT_MIN_CHARS
  FlushAt,      \* FLUSH_THRESHOLD_CHARS
  PieceMax      \* splitLongText's maxLen

ASSUME ReplyAssumption ==
  /\ MaxText \in Nat /\ FirstMin \in Nat \ {0} /\ SegmentMin \in Nat \ {0}
  /\ FlushAt \in Nat /\ SegmentMin <= FlushAt /\ PieceMax \in Nat \ {0, 1}

Kinds == {"word", "stop", "colon", "gap"}
Tokens == [kind : Kinds, at : Nat \ {0}]

VARIABLES
  text,         \* the reply so far
  buffer,       \* earlyBuffer: what of it is not sent, as chatOnceInner has it
  preflushed,   \* preflushedChars
  sentFirst,    \* alreadySentFirst
  broken,       \* earlySendBroken
  longTask,     \* longTaskStartedSent
  stage,        \* "reading", "cutting" (the token loop), "sending" or "over"
  rest,         \* what splitLongText has still to cut
  got,          \* what came to the user, one segment after the other (history)
  doubled,      \* but for the early segment that came though its sending failed (history)
  cutShort      \* the rest was dropped, or its sending failed (history)

replyVars ==
  <<text, buffer, preflushed, sentFirst, broken, longTask, stage, rest, got, doubled, cutShort>>

\* trim() and trimStart().
Trim(s) ==
  LET seen == {i \in 1..Len(s) : s[i].kind # "gap"}
  IN  IF seen = {} THEN <<>> ELSE SubSeq(s, Min(seen), Max(seen))

TrimStart(s) ==
  LET seen == {i \in 1..Len(s) : s[i].kind # "gap"}
  IN  IF seen = {} THEN <<>> ELSE SubSeq(s, Min(seen), Len(s))

(***************************************************************************)
(* takeEarlySegment                                                        *)
(***************************************************************************)
\* The gaps at which the text before makes a paragraph of its own: there is
\* one, and it does not announce a list.
ParagraphCuts(b) ==
  {i \in 1..Len(b) : b[i].kind = "gap" /\ Trim(SubSeq(b, 1, i - 1)) # <<>>
                     /\ Last(Trim(SubSeq(b, 1, i - 1))).kind # "colon"}

\* The first end of a sentence, from the smallest length of a first segment.
SentenceCuts(b) == {i \in FirstMin..Len(b) : b[i].kind = "stop"}

\* Where a long text is cut: the last strong boundary of the window, or the
\* last weak one, or its end.
LongCut(b) ==
  LET within(kind) == {i \in SegmentMin..Min({Len(b), FlushAt}) : b[i].kind = kind}
  IN  IF within("stop") # {} THEN Max(within("stop"))
      ELSE IF within("colon") # {} THEN Max(within("colon")) ELSE FlushAt

\* The segment to send and what is kept of the buffer; no segment: send and
\* keep are the empty text and the buffer.
TakeEarlySegment(b) ==
  CASE ParagraphCuts(b) # {} ->
         [send |-> Trim(SubSeq(b, 1, Max(ParagraphCuts(b)) - 1)),
          keep |-> SubSeq(b, Max(ParagraphCuts(b)) + 1, Len(b))]
    [] ParagraphCuts(b) = {} /\ ~sentFirst /\ SentenceCuts(b) # {} ->
         [send |-> Trim(SubSeq(b, 1, Min(SentenceCuts(b)))),
          keep |-> SubSeq(b, Min(SentenceCuts(b)) + 1, Len(b))]
    [] ParagraphCuts(b) = {} /\ (sentFirst \/ SentenceCuts(b) = {}) /\ Len(b) >= FlushAt ->
         [send |-> Trim(SubSeq(b, 1, LongCut(b))),
          keep |-> TrimStart(SubSeq(b, LongCut(b) + 1, Len(b)))]
    [] OTHER -> [send |-> <<>>, keep |-> b]

ReplyInit ==
  /\ text = <<>> /\ buffer = <<>> /\ rest = <<>> /\ got = <<>> /\ doubled = <<>>
  /\ preflushed = 0
  /\ sentFirst = FALSE /\ broken = FALSE /\ longTask = FALSE /\ cutShort = FALSE
  /\ stage = "reading"

\* consumeSse hands over one line of the stream after the other, and waits for what each
\* one makes the relay send.
AtNextLine == stage = "reading"

\* chat.token.
ReadToken(t) ==
  /\ AtNextLine /\ Len(text) < MaxText
  /\ LET token == [kind |-> t, at |-> Len(text) + 1]
     IN  text' = Append(text, token) /\ buffer' = Append(buffer, token)
  /\ stage' = IF broken \/ longTask THEN "reading" ELSE "cutting"
  /\ UNCHANGED <<preflushed, sentFirst, broken, longTask, rest, got, doubled, cutShort>>

NothingToCut ==
  /\ stage = "cutting" /\ TakeEarlySegment(buffer).keep = buffer
  /\ stage' = "reading"
  /\ UNCHANGED <<text, buffer, preflushed, sentFirst, broken, longTask, rest, got, doubled,
                 cutShort>>

\* Mutant: the length of the trimmed segment is counted.
Consumed_Trimmed(seg) == Len(seg.send)

\* Mutant: a cut at a gap forgets the gap itself.
Consumed_OffByOne(seg) == Len(buffer) - Len(seg.keep) - 1

\* How much of the raw text a segment uses up.
Consumed(seg) == Len(buffer) - Len(seg.keep)

CutSegment ==
  /\ stage = "cutting"
  /\ LET seg == TakeEarlySegment(buffer)
     IN  /\ seg.keep # buffer
         /\ got' = got \o seg.send
         /\ preflushed' = preflushed + Consumed(seg)
         /\ buffer' = seg.keep
  /\ sentFirst' = TRUE
  /\ UNCHANGED <<text, broken, longTask, stage, rest, doubled, cutShort>>

\* Mutant: a failure does not end the early sending.
SegmentFails_GoesOn ==
  /\ stage = "cutting"
  /\ LET seg == TakeEarlySegment(buffer)
     IN  seg.send # <<>> /\ doubled' \in {doubled, doubled \o seg.send}
  /\ stage' = "reading"
  /\ UNCHANGED <<text, buffer, preflushed, sentFirst, broken, longTask, rest, got, cutShort>>

\* The sending fails: the segment stays, and nothing more is sent early.  It may have come to
\* the user all the same, and the answer was lost (sendMessage's timeout).
SegmentFails ==
  /\ stage = "cutting"
  /\ LET seg == TakeEarlySegment(buffer)
     IN  seg.send # <<>> /\ doubled' \in {doubled, doubled \o seg.send}
  /\ broken' = TRUE
  /\ stage' = "reading"
  /\ UNCHANGED <<text, buffer, preflushed, sentFirst, longTask, rest, got, cutShort>>

\* agent.tool_call of a long task: its confirmation stands for the early text.
LongTaskStarted ==
  /\ AtNextLine /\ ~longTask
  /\ longTask' = TRUE
  /\ UNCHANGED <<text, buffer, preflushed, sentFirst, broken, stage, rest, got, doubled, cutShort>>

\* The stream has ended: the text after the prefix already sent is to be sent,
\* except a short repetition of the confirmation (isDispatchRecap).
StreamEnds(recap) ==
  /\ AtNextLine
  /\ recap => longTask
  /\ LET remaining == Trim(SubSeq(text, preflushed + 1, Len(text)))
     IN  /\ rest' = IF recap THEN <<>> ELSE remaining
         /\ cutShort' = (recap /\ remaining # <<>>)
  /\ stage' = "sending"
  /\ UNCHANGED <<text, buffer, preflushed, sentFirst, broken, longTask, got, doubled>>

\* The relay breaks the chat off, by its total timer or because nothing came for too long:
\* an error is all it says, what is not sent goes.
ChatBrokenOff ==
  /\ AtNextLine
  /\ stage' = "over"
  /\ cutShort' = TRUE
  /\ UNCHANGED <<text, buffer, preflushed, sentFirst, broken, longTask, rest, got, doubled>>

\* splitLongText: a piece ends at the last gap in reach, or where it is full.
PieceEnd(s) ==
  LET gaps == {i \in 1..Min({PieceMax, Len(s) - 1}) : s[i + 1].kind = "gap"}
  IN  IF Len(s) <= PieceMax THEN Len(s) ELSE IF gaps # {} THEN Max(gaps) ELSE PieceMax

SendPiece ==
  /\ stage = "sending" /\ rest # <<>>
  /\ got' = got \o SubSeq(rest, 1, PieceEnd(rest))
  /\ rest' = Trim(SubSeq(rest, PieceEnd(rest) + 1, Len(rest)))
  /\ UNCHANGED <<text, buffer, preflushed, sentFirst, broken, longTask, stage, doubled, cutShort>>

\* The sending of a piece fails, though the piece may have come: the error is logged, what is
\* left is not sent.
PieceFails ==
  /\ stage = "sending" /\ rest # <<>>
  /\ got' \in {got, got \o SubSeq(rest, 1, PieceEnd(rest))}
  /\ cutShort' = TRUE
  /\ stage' = "over"
  /\ UNCHANGED <<text, buffer, preflushed, sentFirst, broken, longTask, rest, doubled>>

ReplyOver ==
  /\ stage = "sending" /\ rest = <<>>
  /\ stage' = "over"
  /\ UNCHANGED <<text, buffer, preflushed, sentFirst, broken, longTask, rest, got, doubled,
                 cutShort>>

ReplyNext ==
  \/ \E t \in Kinds : ReadToken(t)
  \/ NothingToCut \/ CutSegment \/ SegmentFails
  \/ LongTaskStarted
  \/ \E recap \in BOOLEAN : StreamEnds(recap)
  \/ ChatBrokenOff
  \/ SendPiece \/ PieceFails \/ ReplyOver

ReplySpec == ReplyInit /\ [][ReplyNext]_replyVars

(***************************************************************************)
(* Properties                                                              *)
(***************************************************************************)
\* Every variable keeps to its domain.
ReplyTypeOK ==
  /\ {text, buffer, rest, got, doubled} \subseteq Seq(Tokens)
  /\ preflushed \in 0..MaxText
  /\ {sentFirst, broken, longTask, cutShort} \subseteq BOOLEAN
  /\ stage \in {"reading", "cutting", "sending", "over"}

\* The user has all that is to be seen at these places of the reply.
SentAllOf(places) ==
  \A p \in places : text[p].kind # "gap" => \E i \in DOMAIN got : got[i] = text[p]

\* Whatever is sent early, cut, trimmed or fails, the user has a prefix of the
\* reply, nothing of it twice and nothing left out in between; and when all is
\* over, the whole of it, unless the rest was dropped as a repetition or could
\* not be sent ("text.slice(preflushedChars)" is what has not been sent yet).
\* One early segment may come beside it: the one that the user has though its
\* sending failed, which the rest brings again.  No text comes a third time, and
\* that segment too follows what was there before.
NothingTwiceNothingMissing ==
  /\ \A i, j \in DOMAIN got : i < j => got[i].at < got[j].at
  /\ \A i \in DOMAIN got :
       got[i].at \in DOMAIN text /\ got[i] = text[got[i].at] /\ SentAllOf(1..got[i].at)
  /\ stage = "over" /\ ~cutShort => SentAllOf(DOMAIN text)
  /\ \A i, j \in DOMAIN doubled : i < j => doubled[i].at < doubled[j].at
  /\ \A i \in DOMAIN doubled : doubled[i].at \in DOMAIN text /\ doubled[i] = text[doubled[i].at]
  /\ doubled # <<>> => SentAllOf(1..(doubled[1].at - 1))
=============================================================================
