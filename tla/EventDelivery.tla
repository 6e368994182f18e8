---------------------------- MODULE EventDelivery ----------------------------
(***************************************************************************)
(* How an event reaches the user: the agent server's SSE endpoint with its *)
(* replay buffer (routes/events.ts), the bridge's event pusher             *)
(* (event-pusher.ts), and the bridge's file of completion notices that     *)
(* could not be sent (outbox.ts).                                          *)
(*                                                                         *)
(* Events are numbered in the order they are emitted.  Kind tells          *)
(* completions ("done"), other one-off notices ("note") and the progress   *)
(* of a task ("progress"), which is not buffered and has no id.  A notice  *)
(* is one chunk; an entry of the outbox is an event and the peer it is for.*)
(***************************************************************************)
EXTENDS Integers, Sequences, FiniteSets, SequencesExt

CONSTANTS
  NumEvents,      \* how many events are emitted: bounds a behaviour
  Kind,           \* event -> its kind
  Peers,          \* the WeChat peers
  BufferCap,      \* SseEventBuffer's capacity
  OutboxMax,      \* OUTBOX_MAX_ENTRIES
  MaxFaults       \* how many faults of all kinds happen: bounds a behaviour

Events == 1..NumEvents
Entries == Events \X Peers
NoId == 0

ASSUME DeliveryAssumption ==
  /\ NumEvents \in Nat \ {0}
  /\ Kind \in [Events -> {"done", "note", "progress"}]
  /\ BufferCap \in Nat \ {0} /\ OutboxMax \in Nat \ {0}
  /\ MaxFaults \in Nat

VARIABLES
  emitted,    \* how many events have been emitted
  ids,        \* event -> its SSE id, NoId when it has none
  nextId,     \* SseEventBuffer.#nextId
  buffer,     \* SseEventBuffer.#entries
  online,     \* the bridge's connection is in the server's set
  wire,       \* frames sent and not yet read
  bridge,     \* the pusher: "down", "starting", "offline", "reading", "sending",
              \* "queueing" or "saving"
  lastId,     \* lastEventId
  savedId,    \* the state file's lastEventId
  frame,      \* the frame being pushed: event, currentId, the peers still to be sent
              \* to, the failed ones, and the one whose entry is being saved
  earned,     \* anyChunkOk or queued
  box, file,  \* the outbox and its file
  drain,      \* drainOutbox: its place and its remaining entries
  faults,     \* how often each kind of fault has happened
  delivered,  \* entry -> how often it was sent, saturating at 2
  queued,     \* entries whose enqueue has returned
  covered,    \* events emitted when the bridge had an id to resume from
  evicted,    \* events the buffer has shifted out
  unsure,     \* entries that arrived with an answer that was lost (history)
  overran,    \* entries enqueued while a drain was sending (history)
  trimmed     \* entries the outbox's cap has dropped

serverVars == <<emitted, ids, nextId, buffer, covered, evicted>>
pushVars == <<bridge, lastId, savedId, frame, earned>>
boxVars == <<box, file, queued, unsure, overran, trimmed>>
vars == <<serverVars, online, wire, pushVars, boxVars, drain, faults, delivered>>

NoFrame == [event |-> 0, id |-> NoId, todo |-> {}, failed |-> {}, saving |-> {}]
NoDrain == [pc |-> "idle", rest |-> <<>>]

\* A broken connection, a restart of the server, a crash of the bridge, a send
\* that failed or whose answer was lost.
FaultKinds == {"drop", "restart", "crash", "fail"}

Fault(kind) ==
  /\ faults["drop"] + faults["restart"] + faults["crash"] + faults["fail"] < MaxFaults
  /\ faults' = [faults EXCEPT ![kind] = @ + 1]

Deliver(x) == delivered' = [delivered EXCEPT ![x] = IF @ < 2 THEN @ + 1 ELSE 2]

Init ==
  /\ emitted = 0 /\ nextId = 1 /\ buffer = <<>>
  /\ ids = [e \in Events |-> NoId]
  /\ online = FALSE /\ wire = <<>>
  /\ bridge = "down" /\ lastId = NoId /\ savedId = NoId
  /\ frame = NoFrame /\ earned = FALSE
  /\ box = <<>> /\ file = <<>> /\ drain = NoDrain
  /\ faults = [kind \in FaultKinds |-> 0]
  /\ delivered = [x \in Entries |-> 0]
  /\ queued = {} /\ covered = {} /\ evicted = {} /\ overran = {} /\ trimmed = {}
  /\ unsure = {}

(***************************************************************************)
(* The server: broadcast, and replayAfter for a connection with an id.     *)
(***************************************************************************)
Emit ==
  LET e == emitted + 1
      numbered == Kind[e] # "progress"
      full == Len(buffer) = BufferCap
  IN  /\ emitted < NumEvents
      /\ emitted' = e
      /\ IF numbered
         THEN /\ ids' = [ids EXCEPT ![e] = nextId]
              /\ nextId' = nextId + 1
              /\ buffer' = Append(IF full THEN Tail(buffer) ELSE buffer, e)
              /\ evicted' = IF full THEN evicted \cup {Head(buffer)} ELSE evicted
         ELSE UNCHANGED <<ids, nextId, buffer, evicted>>
      /\ wire' = IF online THEN Append(wire, e) ELSE wire
      /\ covered' = IF savedId # NoId THEN covered \cup {e} ELSE covered
      /\ UNCHANGED <<online, pushVars, boxVars, drain, faults, delivered>>

\* Mutant: the replay starts one id too late.
ReplayAfter_OffByOne(id) ==
  SubSeq(buffer, Cardinality({i \in DOMAIN buffer : ids[buffer[i]] <= id + 1}) + 1, Len(buffer))

\* The entries with a larger id.  Ids ascend along the buffer, so they are what
\* follows the others.
ReplayAfter(id) ==
  SubSeq(buffer, Cardinality({i \in DOMAIN buffer : ids[buffer[i]] <= id}) + 1, Len(buffer))

\* A cold start has no id and gets no replay.
Connect ==
  /\ bridge = "offline"
  /\ bridge' = "reading"
  /\ online' = TRUE
  /\ wire' = IF lastId # NoId THEN ReplayAfter(lastId) ELSE <<>>
  /\ frame' = NoFrame
  /\ UNCHANGED <<serverVars, lastId, savedId, earned, boxVars, drain, faults, delivered>>

\* The connection breaks, with what is on the wire.
Drop ==
  /\ online
  /\ Fault("drop")
  /\ online' = FALSE
  /\ wire' = <<>>
  /\ UNCHANGED <<serverVars, pushVars, boxVars, drain, delivered>>

\* The buffer and its numbers do not outlive the server; what was sent may
\* still be read.
ServerRestart ==
  /\ Fault("restart")
  /\ buffer' = <<>> /\ nextId' = 1
  /\ online' = FALSE
  /\ UNCHANGED <<emitted, ids, covered, evicted, wire, pushVars, boxVars, drain, delivered>>

(***************************************************************************)
(* runEventPusher                                                          *)
(***************************************************************************)
BridgeStart ==
  /\ bridge = "down"
  /\ bridge' = "starting"
  /\ lastId' = savedId
  /\ box' = file
  /\ drain' = IF file = <<>> THEN NoDrain ELSE [pc |-> "sending", rest |-> file]
  /\ UNCHANGED <<serverVars, online, wire, savedId, frame, earned, file, queued, unsure,
                 overran, trimmed, faults, delivered>>

\* The start waits for its drain.
BridgeReady ==
  /\ bridge = "starting" /\ drain.pc = "idle"
  /\ bridge' = "offline"
  /\ UNCHANGED <<serverVars, online, wire, lastId, savedId, frame, earned, boxVars, drain,
                 faults, delivered>>

ConnectionLost ==
  /\ bridge = "reading" /\ ~online /\ wire = <<>>
  /\ bridge' = "offline"
  /\ UNCHANGED <<serverVars, online, wire, lastId, savedId, frame, earned, boxVars, drain,
                 faults, delivered>>

\* currentId outlives its frame: a progress frame brings none of its own.
Receive ==
  /\ bridge = "reading" /\ wire # <<>>
  /\ LET e == Head(wire)
     IN  frame' = [event |-> e, id |-> IF ids[e] # NoId THEN ids[e] ELSE frame.id,
                   todo |-> Peers, failed |-> {}, saving |-> {}]
  /\ wire' = Tail(wire)
  /\ bridge' = "sending"
  /\ earned' = FALSE
  /\ UNCHANGED <<serverVars, online, lastId, savedId, boxVars, drain, faults, delivered>>

SendOk(p) ==
  /\ bridge = "sending" /\ p \in frame.todo
  /\ Deliver(<<frame.event, p>>)
  /\ frame' = [frame EXCEPT !.todo = @ \ {p}]
  /\ earned' = TRUE
  /\ UNCHANGED <<serverVars, online, wire, bridge, lastId, savedId, boxVars, drain, faults>>

\* The time of an attempt is over, the message had arrived: it is sent once more, as a
\* new one, or the attempt was the last (SendFail).
SendLost(p) ==
  /\ bridge = "sending" /\ p \in frame.todo
  /\ Fault("fail")
  /\ Deliver(<<frame.event, p>>)
  /\ unsure' = unsure \cup {<<frame.event, p>>}
  /\ UNCHANGED <<serverVars, online, wire, pushVars, box, file, queued, overran, trimmed, drain>>

\* The last of the attempts has failed too, and sendMessageWithRetry gives up; those that
\* arrived all the same are SendLost.
SendFail(p) ==
  /\ bridge = "sending" /\ p \in frame.todo
  /\ Fault("fail")
  /\ frame' = [frame EXCEPT !.todo = @ \ {p},
                            !.failed = IF Kind[frame.event] = "done" THEN @ \cup {p} ELSE @]
  /\ UNCHANGED <<serverVars, online, wire, bridge, lastId, savedId, earned, boxVars, drain,
                 delivered>>

QueueFailed ==
  /\ bridge = "sending" /\ frame.todo = {} /\ frame.failed # {}
  /\ bridge' = "queueing"
  /\ UNCHANGED <<serverVars, online, wire, lastId, savedId, frame, earned, boxVars, drain,
                 faults, delivered>>

\* Mutant: no cap.
Newest_All(q) == q

\* The OutboxMax newest entries of a queue.
Newest(q) == SubSeq(q, Len(q) - OutboxMax + 1, Len(q))

Enqueue(p) ==
  LET x == <<frame.event, p>>
      q == Append(box, x)
  IN  /\ bridge = "queueing" /\ p \in frame.failed
      /\ box' = IF Len(q) > OutboxMax THEN Newest(q) ELSE q
      /\ trimmed' = IF Len(q) > OutboxMax THEN trimmed \cup {Head(q)} ELSE trimmed
      /\ overran' = IF drain.pc = "sending" THEN overran \cup {x} ELSE overran
      /\ frame' = [frame EXCEPT !.failed = @ \ {p}, !.saving = {p}]
      /\ bridge' = "saving"
      /\ UNCHANGED <<serverVars, online, wire, lastId, savedId, earned, file, queued, unsure,
                     drain, faults, delivered>>

SavingEntries == {frame.event} \X frame.saving

\* Mutant: the notice is queued in memory only.
EnqueueSaved_MemoryOnly ==
  /\ bridge = "saving"
  /\ queued' = queued \cup SavingEntries
  /\ earned' = TRUE
  /\ frame' = [frame EXCEPT !.saving = {}]
  /\ bridge' = IF frame.failed # {} THEN "queueing" ELSE "sending"
  /\ UNCHANGED <<serverVars, online, wire, lastId, savedId, box, file, unsure, overran,
                 trimmed, drain, faults, delivered>>

\* The write holds what the outbox holds when it is written.
EnqueueSaved ==
  /\ bridge = "saving"
  /\ file' = box
  /\ queued' = queued \cup SavingEntries
  /\ earned' = TRUE
  /\ frame' = [frame EXCEPT !.saving = {}]
  /\ bridge' = IF frame.failed # {} THEN "queueing" ELSE "sending"
  /\ UNCHANGED <<serverVars, online, wire, lastId, savedId, box, unsure, overran, trimmed,
                 drain, faults, delivered>>

\* Mutant: an id is passed only when a send succeeded, queued or not.
Advance_SentOnly ==
  /\ bridge = "sending" /\ frame.todo = {} /\ frame.failed = {}
  /\ bridge' = "reading"
  /\ IF frame.id # NoId /\ \E p \in Peers : delivered[<<frame.event, p>>] > 0
     THEN lastId' = frame.id /\ savedId' = frame.id
     ELSE UNCHANGED <<lastId, savedId>>
  /\ UNCHANGED <<serverVars, online, wire, frame, earned, boxVars, drain, faults, delivered>>

\* Last-Event-ID moves, in memory and in the state file, once a peer has the
\* event or the outbox has it.
Advance ==
  /\ bridge = "sending" /\ frame.todo = {} /\ frame.failed = {}
  /\ bridge' = "reading"
  /\ IF frame.id # NoId /\ earned
     THEN lastId' = frame.id /\ savedId' = frame.id
     ELSE UNCHANGED <<lastId, savedId>>
  /\ UNCHANGED <<serverVars, online, wire, frame, earned, boxVars, drain, faults, delivered>>

(***************************************************************************)
(* drainOutbox: it sends a copy of the queue, entry by entry, and then     *)
(* replaces the queue by what is left of the copy.                         *)
(***************************************************************************)
DrainStart ==
  /\ bridge \notin {"down", "starting"}
  /\ drain.pc = "idle" /\ box # <<>>
  /\ drain' = [pc |-> "sending", rest |-> box]
  /\ UNCHANGED <<serverVars, online, wire, pushVars, boxVars, faults, delivered>>

DrainOk ==
  /\ drain.pc = "sending"
  /\ Deliver(Head(drain.rest))
  /\ LET rest == Tail(drain.rest)
     IN  IF rest # <<>>
         THEN drain' = [drain EXCEPT !.rest = rest] /\ UNCHANGED box
         ELSE drain' = [pc |-> "saving", rest |-> <<>>] /\ box' = <<>>
  /\ UNCHANGED <<serverVars, online, wire, pushVars, file, queued, unsure, overran, trimmed,
                 faults>>

\* Mutant: the entry that failed is dropped.
DrainStops_Drops ==
  /\ drain.pc = "sending"
  /\ Fault("fail")
  /\ box' = Tail(drain.rest)
  /\ drain' = [pc |-> "saving", rest |-> <<>>]
  /\ UNCHANGED <<serverVars, online, wire, pushVars, file, queued, overran, trimmed>>

\* The send has failed: its entry and the rest are kept for the next drain.
DrainStops ==
  /\ drain.pc = "sending"
  /\ Fault("fail")
  /\ box' = drain.rest
  /\ drain' = [pc |-> "saving", rest |-> <<>>]
  /\ UNCHANGED <<serverVars, online, wire, pushVars, file, queued, overran, trimmed>>

\* The entry has not arrived.
DrainFail == DrainStops /\ UNCHANGED <<delivered, unsure>>

\* It has, and the answer was lost.
DrainLost ==
  /\ DrainStops
  /\ Deliver(Head(drain.rest))
  /\ unsure' = unsure \cup {Head(drain.rest)}

DrainSaved ==
  /\ drain.pc = "saving"
  /\ file' = box
  /\ drain' = NoDrain
  /\ UNCHANGED <<serverVars, online, wire, pushVars, box, queued, unsure, overran, trimmed,
                 faults, delivered>>

\* The bridge dies: its two files stay.
BridgeCrash ==
  /\ bridge # "down"
  /\ Fault("crash")
  /\ bridge' = "down" /\ lastId' = NoId /\ frame' = NoFrame /\ earned' = FALSE
  /\ online' = FALSE /\ wire' = <<>>
  /\ box' = <<>> /\ drain' = NoDrain
  /\ UNCHANGED <<serverVars, savedId, file, queued, unsure, overran, trimmed,
                 delivered>>

PushStep ==
  \/ BridgeStart \/ BridgeReady \/ Connect \/ ConnectionLost \/ Receive
  \/ \E p \in Peers : SendLost(p) \/ SendFail(p) \/ Enqueue(p)
  \/ QueueFailed \/ EnqueueSaved \/ Advance

DrainStep == DrainStart \/ DrainFail \/ DrainLost \/ DrainSaved

Next ==
  \/ Emit \/ Drop \/ ServerRestart \/ BridgeCrash
  \/ PushStep \/ \E p \in Peers : SendOk(p)
  \/ DrainStep \/ DrainOk

Spec == Init /\ [][Next]_vars

\* The loops and timers go on, and WeChat takes a message in the end; nothing
\* has to be emitted and no fault has to happen.
Fairness ==
  /\ WF_vars(BridgeStart \/ BridgeReady \/ Connect \/ ConnectionLost \/ Receive)
  /\ WF_vars(QueueFailed \/ EnqueueSaved \/ Advance)
  /\ \A p \in Peers : WF_vars(SendOk(p)) /\ WF_vars(Enqueue(p))
  /\ WF_vars(DrainStart) /\ WF_vars(DrainOk) /\ WF_vars(DrainSaved)

FairSpec == Spec /\ Fairness

(***************************************************************************)
(* Properties                                                              *)
(***************************************************************************)

\* Every variable keeps to its domain, and the two queues to their caps.
TypeOK ==
  /\ emitted \in 0..NumEvents /\ nextId \in 1..(NumEvents + 1)
  /\ ids \in [Events -> 0..NumEvents]
  /\ buffer \in Seq(Events) /\ Len(buffer) <= BufferCap
  /\ online \in BOOLEAN /\ wire \in Seq(Events)
  /\ bridge \in {"down", "starting", "offline", "reading", "sending", "queueing", "saving"}
  /\ lastId \in 0..NumEvents /\ savedId \in 0..NumEvents
  /\ frame \in [event : 0..NumEvents, id : 0..NumEvents,
                todo : SUBSET Peers, failed : SUBSET Peers, saving : SUBSET Peers]
  /\ earned \in BOOLEAN
  /\ box \in Seq(Entries) /\ Len(box) <= OutboxMax
  /\ file \in Seq(Entries) /\ Len(file) <= OutboxMax
  /\ drain \in [pc : {"idle", "sending", "saving"}, rest : Seq(Entries)]
  /\ faults \in [FaultKinds -> 0..MaxFaults]
  /\ delivered \in [Entries -> 0..2]
  /\ queued \subseteq Entries /\ unsure \subseteq Entries
  /\ overran \subseteq Entries /\ trimmed \subseteq Entries
  /\ covered \subseteq Events /\ evicted \subseteq Events

Handled(e) == \E p \in Peers : delivered[<<e, p>>] > 0 \/ <<e, p>> \in queued

\* Within one life of the server, Last-Event-ID passes no completion that the
\* buffer still holds and that neither a peer nor the outbox has: what a broken
\* connection or a dead bridge has missed is replayed first.
IdPassesNothing ==
  faults["restart"] = 0 =>
    \A e \in covered \ evicted :
      (Kind[e] = "done" /\ ids[e] <= lastId) => Handled(e)

\* While the bridge lives no peer gets the same notice twice: the replay and the outbox do
\* not both send it ("so that after a restart the SSE replay and the outbox do not each
\* send it once", event-pusher.ts).  Except where it arrived and the answer was lost: the
\* pusher tries again, the outbox keeps it, or the replay brings it back.
DeliveredOnce ==
  faults["crash"] = 0 => \A x \in Entries \ unsure : delivered[x] <= 1

Kept(x) == delivered[x] > 0 \/ Contains(file, x)

\* A completion whose enqueue has returned stays on file until its peer has it,
\* across crashes of the bridge, unless the cap dropped it or a drain was sending
\* when it came.
QueuedIsKept == \A x \in queued \ (trimmed \cup overran) : Kept(x)

\* The outbox keeps every completion that could not be sent ("the undelivered
\* engineer.task.done notices are queued on disk", outbox.ts).
UndeliveredIsQueued == \A x \in queued \ trimmed : Kept(x)

\* A completion emitted while the bridge has an id to resume from reaches every
\* peer in the end, unless the server restarts, its buffer or the outbox
\* overflows, or a drain was sending when the completion was queued.
DoneArrives ==
  \A x \in Entries :
    (Kind[x[1]] = "done" /\ x[1] \in covered)
      ~> (\/ delivered[x] > 0
          \/ faults["restart"] > 0
          \/ x[1] \in evicted
          \/ x \in overran \cup trimmed)
=============================================================================
