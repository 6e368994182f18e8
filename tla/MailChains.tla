----------------------------- MODULE MailChains -----------------------------
(***************************************************************************)
(* What the colleagues write to each other (delegate, sendFrom and ask of  *)
(* services/colleague-office.ts): each works off its mailbox one letter at *)
(* a time, passes work on with mail.send, and stands still while an answer *)
(* to its mail.ask is due.  A letter carries the chain of colleagues it    *)
(* came through.  The files and the processes behind the mailboxes are the *)
(* subject of ColleagueMailbox; here each colleague sees its letters.      *)
(***************************************************************************)
EXTENDS Naturals, Sequences, FiniteSets, SequencesExt

CONSTANTS
  Staff,         \* the colleagues
  Xiaoye,        \* the hub, which delegates
  NumLetters,    \* bounds a behaviour
  MaxMailChain   \* MAX_MAIL_CHAIN

ASSUME MailChainAssumption == Xiaoye \notin Staff /\ NumLetters \in Nat /\ MaxMailChain \in Nat

Letters == 1..NumLetters

VARIABLES
  letters,     \* how many were written
  sender, addressee,
  status,      \* letter -> "none", "queued", "running", "done" or "failed"
  nested,      \* the letters that are questions
  mailChain,   \* letter -> its chain
  trueChain,   \* letter -> the senders it really came through (history)
  strayed,     \* letters with an ancestor sent on account of another letter (history)
  awaits       \* colleague -> the letter its ask waits for, 0 when none

mailVars == <<letters, sender, addressee, status, nested, mailChain, trueChain, strayed, awaits>>
envelope == <<letters, sender, addressee, nested, mailChain, trueChain, strayed>>

MailInit ==
  /\ letters = 0
  /\ sender = [m \in Letters |-> Xiaoye] /\ addressee = [m \in Letters |-> Xiaoye]
  /\ status = [m \in Letters |-> "none"]
  /\ nested = {} /\ strayed = {}
  /\ mailChain = [m \in Letters |-> <<>>] /\ trueChain = [m \in Letters |-> <<>>]
  /\ awaits = [c \in Staff |-> 0]

Mailbox(c) == {m \in 1..letters : addressee[m] = c}
Open == {m \in Letters : status[m] \in {"queued", "running"}}
WorksOn(c, m) == addressee[m] = c /\ status[m] = "running"

\* #callerMail: the last open letter of the mailbox.
CallerMail(c) == CHOOSE m \in Mailbox(c) \cap Open : \A k \in Mailbox(c) \cap Open : k <= m

\* Mutant: the chain is begun anew.
NextMailChain_Anew(parent, from) == <<from>>

\* nextMailChain
NextMailChain(parent, from) == Append(parent, from)

\* #dispatch: a letter with this chain, sent while its sender works on letter work
\* and on account of letter parent (0: the hub's).
Writes(from, to, isAsk, chain, work, parent) ==
  LET m == letters + 1
  IN  /\ letters < NumLetters
      /\ letters' = m
      /\ sender' = [sender EXCEPT ![m] = from]
      /\ addressee' = [addressee EXCEPT ![m] = to]
      /\ status' = [status EXCEPT ![m] = "queued"]
      /\ nested' = IF isAsk THEN nested \cup {m} ELSE nested
      /\ mailChain' = [mailChain EXCEPT ![m] = chain]
      /\ trueChain' = [trueChain EXCEPT ![m] = IF work = 0 THEN <<>> ELSE Append(trueChain[work], from)]
      /\ strayed' = IF work # parent \/ work \in strayed THEN strayed \cup {m} ELSE strayed

\* *.delegate of the hub.
Delegate(to) == Writes(Xiaoye, to, FALSE, <<>>, 0, 0) /\ UNCHANGED awaits

\* The colleague's chat, on a letter whose tools include mail.*, calls one.  The
\* letter taken for the one worked on must be no question either.
MayWrite(c, to, work) ==
  /\ WorksOn(c, work) /\ work \notin nested /\ awaits[c] = 0
  /\ to # c
  /\ CallerMail(c) \notin nested

\* Mutant: only the last sender counts.
MayPassOn_OneBack(to, chain) == to # chain[Len(chain)] /\ Len(chain) <= MaxMailChain

\* #assertSendChain; a question has no such limit.
MayPassOn(to, chain) == to \notin ToSet(chain) /\ Len(chain) <= MaxMailChain

SendFrom(c, to, work) ==
  LET chain == NextMailChain(mailChain[CallerMail(c)], c)
  IN  /\ MayWrite(c, to, work) /\ MayPassOn(to, chain)
      /\ Writes(c, to, FALSE, chain, work, CallerMail(c))
      /\ UNCHANGED awaits

AskColleague(c, to, work) ==
  /\ MayWrite(c, to, work)
  /\ Writes(c, to, TRUE, NextMailChain(mailChain[CallerMail(c)], c), work, CallerMail(c))
  /\ awaits' = [awaits EXCEPT ![c] = letters + 1]

\* Mutant: the waiter only looks for an answer.
Answered_DoneOnly(m) == status[m] = "done"

\* #waitForMailSettled
Answered(m) == status[m] \in {"done", "failed"}

AskReturns(c) ==
  /\ awaits[c] # 0 /\ Answered(awaits[c])
  /\ awaits' = [awaits EXCEPT ![c] = 0]
  /\ UNCHANGED <<envelope, status>>

\* The ask has waited its 8 minutes; the letter stays where it is.
AskGivesUp(c) ==
  /\ awaits[c] # 0 /\ ~Answered(awaits[c])
  /\ awaits' = [awaits EXCEPT ![c] = 0]
  /\ UNCHANGED <<envelope, status>>

\* #workerLoop: the oldest queued letter, when the last one is settled.
WorkerTakes(c) ==
  LET queued == {m \in Mailbox(c) : status[m] = "queued"}
  IN  /\ queued # {} /\ \A m \in Mailbox(c) : status[m] # "running"
      /\ status' = [status EXCEPT ![CHOOSE m \in queued : \A k \in queued : m <= k] = "running"]
      /\ UNCHANGED <<envelope, awaits>>

\* #settle: the chat has ended, by itself or by its timeout.
MailSettles(c, outcome) ==
  \E m \in Letters :
    /\ WorksOn(c, m) /\ awaits[c] = 0
    /\ status' = [status EXCEPT ![m] = outcome]
    /\ UNCHANGED <<envelope, awaits>>

\* The chat's timeout, while it stands still.
ChatTimesOut(c) ==
  \E m \in Letters :
    /\ WorksOn(c, m) /\ awaits[c] # 0
    /\ status' = [status EXCEPT ![m] = "failed"]
    /\ awaits' = [awaits EXCEPT ![c] = 0]
    /\ UNCHANGED envelope

ColleagueStep(c) ==
  \/ WorkerTakes(c) \/ AskReturns(c) \/ AskGivesUp(c) \/ ChatTimesOut(c)
  \/ \E outcome \in {"done", "failed"} : MailSettles(c, outcome)
  \/ \E to \in Staff, work \in Letters : SendFrom(c, to, work) \/ AskColleague(c, to, work)

MailNext == \E c \in Staff : Delegate(c) \/ ColleagueStep(c)

\* A worker goes on with the next letter, a chat ends, a waiter polls every 50 ms.
\* Nothing is asked of the timeouts.
MailFairness ==
  \A c \in Staff :
    /\ WF_mailVars(WorkerTakes(c))
    /\ WF_mailVars(\E outcome \in {"done", "failed"} : MailSettles(c, outcome))
    /\ WF_mailVars(AskReturns(c))

MailSpec == MailInit /\ [][MailNext]_mailVars
FairMailSpec == MailSpec /\ MailFairness

(***************************************************************************)
(* Properties                                                              *)
(***************************************************************************)
\* Every variable keeps to its domain.
MailTypeOK ==
  /\ letters \in 0..NumLetters
  /\ sender \in [Letters -> Staff \cup {Xiaoye}] /\ addressee \in [Letters -> Staff \cup {Xiaoye}]
  /\ status \in [Letters -> {"none", "queued", "running", "done", "failed"}]
  /\ nested \cup strayed \subseteq Letters
  /\ \A m \in Letters : {mailChain[m], trueChain[m]} \subseteq Seq(Staff)
  /\ awaits \in [Staff -> {0} \cup Letters]

\* Work that is passed on comes to an end: no colleague gets what it has passed
\* on already, and not over more than MAX_MAIL_CHAIN others ("refused when to is
\* in the chain already, so that it does not go round; too long a chain is
\* refused", #assertSendChain), whatever asks and answers are between.  Except
\* where a newer letter of the sender's mailbox was taken for the one it works on
\* (#callerMail): the chain is then that letter's.
NoPingPong ==
  \A m \in 1..letters : sender[m] # Xiaoye /\ m \notin nested \cup strayed =>
    /\ addressee[m] \notin ToSet(trueChain[m])
    /\ Len(trueChain[m]) <= MaxMailChain

\* Whom c waits for.
WaitsFor(c) == addressee[awaits[c]]

\* Stuck colleagues: each waits for another of them.
InCircle(c) ==
  \E S \in SUBSET Staff : c \in S /\ \A d \in S : awaits[d] # 0 /\ WaitsFor(d) \in S

\* A question is answered, in the end and without its timeout, unless who was
\* asked waits in turn, over whomever, in a circle: two colleagues that ask each
\* other while both work only come free by the 8 minutes of an ask.
AskAnswered == \A c \in Staff : awaits[c] # 0 ~> awaits[c] = 0 \/ InCircle(c)
=============================================================================
