------------------------------ MODULE Outgoing ------------------------------
(***************************************************************************)
(* What the Weixin bridge sends: texts (replies, notices, the progress of  *)
(* file jobs) and media, by any number of callers at once.  A medium is    *)
(* uploaded first (uploadMediaBytes of ilink.ts); every message passes the *)
(* one gate of the process (send-gate.ts), which lets one out at a time    *)
(* and rests after each attempt.                                           *)
(*                                                                         *)
(* Sends are numbered as they are asked for; nobody sends one again (what  *)
(* the event pusher tries once more is another send).                      *)
(***************************************************************************)
EXTENDS Naturals, FiniteSets, SequencesExt

CONSTANTS
  NumSends,       \* sends of a behaviour: bounds it
  Media,          \* those that upload something first
  UploadTries     \* attempts of an upload: 3

ASSUME OutgoingAssumption ==
  NumSends \in Nat /\ Media \subseteq 1..NumSends /\ UploadTries \in Nat \ {0}

Sends == 1..NumSends

VARIABLES
  sending,      \* send -> "new", "url", "upload", "queued", "inFlight" or "over"
  uploadsTried, \* send -> attempts of its upload that failed
  gateLine,     \* the senders that have entered the gate, in the order of #tail
  rested,       \* minGapMs have passed since #lastEndAt
  answered,     \* send -> what its caller was told: "nothing", "ok" or "error"
  arrived,      \* the messages the gateway took (history)
  entered,      \* the senders in the order in which they entered the gate (history)
  lostAnswers   \* sends the gateway took and whose answer was lost (history)

outVars == <<sending, uploadsTried, gateLine, rested, answered, arrived, entered, lostAnswers>>
gateVars == <<gateLine, rested, entered>>
outHistory == <<arrived, lostAnswers>>

OutInit ==
  /\ sending = [s \in Sends |-> "new"] /\ uploadsTried = [s \in Sends |-> 0]
  /\ gateLine = <<>> /\ rested = TRUE
  /\ answered = [s \in Sends |-> "nothing"]
  /\ arrived = <<>> /\ entered = <<>> /\ lostAnswers = {}

\* run: the sender takes the end of the line.
Enters(s) ==
  /\ sending' = [sending EXCEPT ![s] = "queued"]
  /\ gateLine' = Append(gateLine, s) /\ entered' = Append(entered, s)
  /\ UNCHANGED <<rested, answered>>

\* The caller is told, and the send is over.
OverWith(s, answer) ==
  /\ sending' = [sending EXCEPT ![s] = "over"]
  /\ answered' = [answered EXCEPT ![s] = answer]

\* Nobody is logged in, nobody to send to, or nothing to send: the routes refuse.
SendRefused(s) ==
  /\ sending[s] = "new"
  /\ OverWith(s, "error")
  /\ UNCHANGED <<uploadsTried, gateVars, outHistory>>

TextAsked(s) ==
  /\ sending[s] = "new" /\ s \notin Media
  /\ Enters(s)
  /\ UNCHANGED <<uploadsTried, outHistory>>

\* uploadMediaBytes asks where to upload to: one attempt.
MediumAsked(s) ==
  /\ sending[s] = "new" /\ s \in Media
  /\ sending' = [sending EXCEPT ![s] = "url"]
  /\ UNCHANGED <<uploadsTried, gateVars, answered, outHistory>>

UrlGiven(s) ==
  /\ sending[s] = "url"
  /\ sending' = [sending EXCEPT ![s] = "upload"]
  /\ UNCHANGED <<uploadsTried, gateVars, answered, outHistory>>

UrlFails(s) ==
  /\ sending[s] = "url"
  /\ OverWith(s, "error")
  /\ UNCHANGED <<uploadsTried, gateVars, outHistory>>

\* The upload is done, and its message asked for.
Uploads(s) ==
  /\ sending[s] = "upload"
  /\ Enters(s)
  /\ UNCHANGED <<uploadsTried, outHistory>>

\* An attempt fails: by a refusal (4xx) for good, otherwise it is made again, up to the
\* last one.
UploadFails(s, refused) ==
  /\ sending[s] = "upload"
  /\ uploadsTried' = [uploadsTried EXCEPT ![s] = @ + 1]
  /\ IF refused \/ uploadsTried'[s] = UploadTries
     THEN OverWith(s, "error")
     ELSE UNCHANGED <<sending, answered>>
  /\ UNCHANGED <<gateVars, outHistory>>

\* Mutant: everybody who has entered may send.
HasTheGate_Anyone(s) == rested

\* All before it are through, and the rest is over.
HasTheGate(s) == Head(gateLine) = s /\ rested

GoesOut(s) ==
  /\ sending[s] = "queued" /\ HasTheGate(s)
  /\ sending' = [sending EXCEPT ![s] = "inFlight"]
  /\ UNCHANGED <<uploadsTried, gateVars, answered, outHistory>>

\* Mutant: only a message that was sent gives the gate back.
GivesBack_OnSuccess(s, ok) ==
  gateLine' = IF ok THEN Tail(gateLine) ELSE gateLine

\* run's finally: the one that waits for this one is next, after the rest.
GivesBack(s, ok) == gateLine' = Tail(gateLine)

\* The gateway's answer: it took the message, refused it (ret), or it was not heard of in
\* time, whether it took it or not.
SendReturns(s, took, heard) ==
  /\ sending[s] = "inFlight"
  /\ OverWith(s, IF took /\ heard THEN "ok" ELSE "error")
  /\ GivesBack(s, took /\ heard)
  /\ rested' = FALSE
  /\ arrived' = IF took THEN Append(arrived, s) ELSE arrived
  /\ lostAnswers' = IF took /\ ~heard THEN lostAnswers \cup {s} ELSE lostAnswers
  /\ UNCHANGED <<uploadsTried, entered>>

GapPasses ==
  /\ ~rested
  /\ rested' = TRUE
  /\ UNCHANGED <<sending, uploadsTried, gateLine, answered, entered, outHistory>>

OutNext ==
  \/ \E s \in Sends :
       \/ SendRefused(s) \/ TextAsked(s) \/ MediumAsked(s) \/ UrlGiven(s) \/ UrlFails(s)
       \/ Uploads(s) \/ GoesOut(s)
       \/ \E refused \in BOOLEAN : UploadFails(s, refused)
       \/ \E took, heard \in BOOLEAN : SendReturns(s, took, heard)
  \/ GapPasses

OutSpec == OutInit /\ [][OutNext]_outVars

(***************************************************************************)
(* Properties                                                              *)
(***************************************************************************)
\* Every variable keeps to its domain.
OutTypeOK ==
  /\ sending \in [Sends -> {"new", "url", "upload", "queued", "inFlight", "over"}]
  /\ uploadsTried \in [Sends -> 0..UploadTries]
  /\ gateLine \in Seq(Sends) /\ entered \in Seq(Sends) /\ arrived \in Seq(Sends)
  /\ rested \in BOOLEAN
  /\ answered \in [Sends -> {"nothing", "ok", "error"}]
  /\ lostAnswers \subseteq Sends

\* One message in flight at a time (send-gate.ts, its head) and, also when sends fail,
\* nobody that has entered is forgotten: whoever is first can go.
GateIsServed ==
  /\ Cardinality({s \in Sends : sending[s] = "inFlight"}) <= 1
  /\ ToSet(gateLine) = {s \in Sends : sending[s] \in {"queued", "inFlight"}}
  /\ \A i, j \in DOMAIN gateLine : gateLine[i] = gateLine[j] => i = j
  /\ \A s \in Sends : sending[s] = "inFlight" => Head(gateLine) = s

\* What arrives, arrives once and in the order in which it was handed to the gate, and
\* the callers are told so.  Except of a message whose answer was lost: its caller is
\* told that it failed.
ArrivesAsTold ==
  /\ ToSet(arrived) \subseteq ToSet(entered)
  /\ \A i, j \in DOMAIN arrived : i < j =>
       /\ arrived[i] # arrived[j]
       /\ \E a, b \in DOMAIN entered : a < b /\ entered[a] = arrived[i] /\ entered[b] = arrived[j]
  /\ \A s \in Sends :
       /\ answered[s] = "ok" => s \in ToSet(arrived)
       /\ answered[s] = "error" /\ s \in ToSet(arrived) => s \in lostAnswers

\* Both, of what is sent.
SendsAreKept == GateIsServed /\ ArrivesAsTold
=============================================================================
