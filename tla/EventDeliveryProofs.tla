---------------------------- MODULE EventDeliveryProofs ----------------------------
(***************************************************************************)
(* What is proved about the delivery of events, for every number of        *)
(* events, peers and faults and every cap: the domains; that what is       *)
(* queued stays on file until it is sent; that no peer gets a notice twice *)
(* while the bridge lives, but where an answer was lost; and that within   *)
(* one life of the server the id to resume from passes no completion of    *)
(* the buffer that nobody has and nobody queued.                           *)
(***************************************************************************)
EXTENDS EventDelivery, FiniteSetTheorems, SequenceTheorems, WellFoundedInduction, TLAPS

\* A frame is being pushed; the pusher holds a connection, or believes so.
Pushing == bridge \in {"sending", "queueing", "saving"}
Connected == Pushing \/ bridge = "reading"

\* The queues within the outbox's cap.
Queues == {s \in Seq(Entries) : Len(s) <= OutboxMax}

(***************************************************************************)
(* The invariant                                                           *)
(***************************************************************************)
\* The domains, with what they need to be kept: an id is used once, a frame that is
\* pushed has an event, and a drain that is sending has entries left.
TypeInv ==
  /\ TypeOK
  /\ nextId <= emitted + 1
  /\ Pushing => frame.event # 0
  /\ drain.pc = "sending" <=> drain.rest # <<>>
  /\ drain.rest \in Queues

\* The entries whose enqueue has returned or is being saved.
Held == queued \cup IF bridge = "saving" THEN SavingEntries ELSE {}

\* Such an entry is, until it is sent, in the file, in memory, and in the copy of a
\* drain that is sending, each as far as that exists.
KeptInv ==
  /\ bridge = "down" => drain.pc = "idle"
  /\ \A x \in Held \ (trimmed \cup overran) :
       delivered[x] = 0 =>
         /\ x \in queued => Contains(file, x)
         /\ bridge # "down" => Contains(box, x)
         /\ drain.pc = "sending" => Contains(drain.rest, x)

Ascending(s) == \A i, j \in 1..Len(s) : i < j => s[i] < s[j]

\* Events and their ids ascend along the buffer; an event with a smaller id than a
\* buffered one was emitted before it, in whichever life of the server.
NumberedInv ==
  /\ \A i \in 1..Len(buffer) : /\ buffer[i] <= emitted
                               /\ ids[buffer[i]] \in 1..(nextId - 1)
  /\ \A i, j \in 1..Len(buffer) : i < j => ids[buffer[i]] < ids[buffer[j]]
  /\ Ascending(buffer)
  /\ \A e \in Events : ids[e] = NoId <=> (e > emitted \/ Kind[e] = "progress")
  /\ \A i \in 1..Len(buffer) : \A e \in 1..emitted :
        ids[e] # NoId /\ ids[buffer[i]] > ids[e] => buffer[i] > e

\* The id reached on this connection.
Ref == IF frame.id # NoId THEN frame.id ELSE lastId

\* What is on the wire ascends and follows the frame; a buffered event is on the wire,
\* or it is before all of it and passed, or the server has lost the connection and
\* the event was emitted afterwards.
WireInv ==
  /\ ~Connected => wire = <<>> /\ ~online
  /\ Ascending(wire)
  /\ \A i \in 1..Len(wire) : wire[i] <= emitted /\ (Pushing => frame.event < wire[i])
  /\ frame.event <= emitted
  /\ online => \A k \in 1..Len(buffer) :
       \/ Contains(wire, buffer[k])
       \/ /\ Ref = NoId \/ ids[buffer[k]] <= Ref
          /\ \A i \in 1..Len(wire) : buffer[k] < wire[i]
  /\ ~online => \A k \in 1..Len(buffer) : \A i \in 1..Len(wire) : wire[i] < buffer[k]

\* No send of the entry is known to have arrived: none has, or an answer was lost.
Unsent(x) == delivered[x] = 0 \/ x \in unsure

\* An entry nobody has queued or is sure to have sent, and an event with one that is not so.
Fresh(x) == Unsent(x) /\ ~Contains(box, x) /\ ~Contains(drain.rest, x)
Touched(e) == \E p \in Peers : ~Fresh(<<e, p>>)

Distinct(s) == \A i, j \in 1..Len(s) : s[i] = s[j] => i = j

\* No entry is sent twice, but where an answer was lost, or stands twice in a queue, and what
\* is queued has not been sent for sure.
OnceDelivered ==
  /\ \A x \in Entries \ unsure : delivered[x] <= 1
  /\ Distinct(box) /\ Distinct(drain.rest)
  /\ \A x \in Entries : Contains(drain.rest, x) => Unsent(x)
  /\ drain.pc # "sending" => \A x \in Entries : Contains(box, x) => Unsent(x)
  /\ bridge = "down" => file = <<>> /\ savedId = NoId

\* The frame's entries are fresh until their turn, all of them while nothing is earned.
OnceFrame ==
  /\ \A e \in Events : Touched(e) => e <= emitted
  /\ Pushing =>
       /\ frame.todo \cap frame.failed = {}
       /\ \A p \in frame.todo \cup frame.failed : Fresh(<<frame.event, p>>)
  /\ bridge \in {"sending", "queueing"} /\ ~earned => ~Touched(frame.event)

\* The buffered events with a larger id come after e.
Beyond(e, id) == id # NoId => \A k \in 1..Len(buffer) : ids[buffer[k]] > id => e < buffer[k]

\* Whatever is still to come, from the wire or from a replay, comes after all that has
\* been touched: only a frame that has not advanced yet may come again, and then only
\* if nothing of it was earned.
OnceOrder ==
  /\ \A e \in Events : Touched(e) =>
       /\ \A i \in 1..Len(wire) : e < wire[i]
       /\ Beyond(e, lastId) \/ (Pushing /\ e = frame.event)
       /\ Connected => Beyond(e, Ref)
  /\ Pushing => Beyond(frame.event, Ref)

\* A crash forgets what has been sent.
OnceInv == faults["crash"] = 0 => OnceDelivered /\ OnceFrame /\ OnceOrder

\* Within one life of the server ids ascend with the events.
LifeIds ==
  /\ \A e, f \in 1..emitted : ids[e] # NoId /\ ids[f] # NoId /\ e < f => ids[e] < ids[f]
  /\ \A e \in 1..emitted : ids[e] < nextId
  /\ savedId < nextId /\ frame.id < nextId

\* Memory and state file have the same id.
LifeSaved ==
  /\ savedId = NoId => covered = {}
  /\ lastId \in {NoId, savedId}
  /\ bridge # "down" => lastId = savedId
  /\ wire # <<>> => online
  /\ Peers = {} => savedId = NoId /\ ~earned

\* A completion being pushed has all its peers before it, or is queued or handled.
LifeFrame ==
  /\ bridge = "saving" => frame.saving # {}
  /\ bridge \in {"sending", "queueing"} => frame.saving = {}
  /\ Pushing /\ Kind[frame.event] = "done" =>
       /\ earned => Handled(frame.event)
       /\ Handled(frame.event) \/ frame.saving # {} \/ Peers = frame.todo \cup frame.failed

\* A covered event is in the buffer until it is evicted, and a completion the id on file
\* or on this connection has passed is handled.
LifeCovered == \A e \in covered \ evicted :
  /\ e <= emitted
  /\ ids[e] # NoId => Contains(buffer, e)
  /\ Kind[e] = "done" =>
       /\ ids[e] <= savedId => Handled(e)
       /\ Connected /\ ids[e] <= frame.id =>
            Handled(e) \/ Peers = {} \/ (Pushing /\ e = frame.event)

\* A restart begins the ids anew.
LifeInv == faults["restart"] = 0 => LifeIds /\ LifeSaved /\ LifeFrame /\ LifeCovered
(***************************************************************************)
(* Sequences                                                               *)
(***************************************************************************)
\* An entry appended is in the sequence, and the others stay where they are.
LEMMA AppendContains ==
  ASSUME NEW S, NEW s \in Seq(S), NEW x \in S
  PROVE  /\ Append(s, x) \in Seq(S) /\ Append(s, x) # <<>>
         /\ Len(Append(s, x)) = Len(s) + 1
         /\ \A i \in 1..Len(s) : Append(s, x)[i] = s[i]
         /\ Append(s, x)[Len(s) + 1] = x
         /\ \A y : Contains(Append(s, x), y) <=> Contains(s, y) \/ y = x
<1>1. /\ Append(s, x) \in Seq(S) /\ Append(s, x) # <<>>
      /\ Len(Append(s, x)) = Len(s) + 1 /\ Len(s) \in Nat
      /\ \A i \in 1..Len(s) : Append(s, x)[i] = s[i]
      /\ Append(s, x)[Len(s) + 1] = x
  BY AppendProperties, LenProperties
<1>2. 1..(Len(s) + 1) = 1..Len(s) \cup {Len(s) + 1}
  BY <1>1
<1> QED BY <1>1, <1>2 DEF Contains

\* A sequence is its head and its tail.
LEMMA TailContains ==
  ASSUME NEW S, NEW s \in Seq(S), s # <<>>
  PROVE  /\ Head(s) \in S /\ Tail(s) \in Seq(S) /\ Len(Tail(s)) = Len(s) - 1 /\ Len(s) \in Nat
         /\ Head(s) = s[1] /\ Len(s) >= 1
         /\ \A i \in 1..Len(Tail(s)) : Tail(s)[i] = s[i + 1]
         /\ \A y : Contains(s, y) <=> Contains(Tail(s), y) \/ y = Head(s)
<1>1. /\ Head(s) \in S /\ Tail(s) \in Seq(S) /\ Len(Tail(s)) = Len(s) - 1 /\ Len(s) \in Nat
      /\ Head(s) = s[1] /\ Len(s) # 0
      /\ \A i \in 1..Len(Tail(s)) : Tail(s)[i] = s[i + 1]
  BY HeadTailProperties, LenProperties, EmptySeq
<1>2. ASSUME NEW y, Contains(s, y), y # Head(s) PROVE Contains(Tail(s), y)
  <2>1. PICK i \in 1..Len(s) : s[i] = y
    BY <1>2 DEF Contains
  <2>2. i # 1
    BY <1>1, <1>2, <2>1
  <2>3. i - 1 \in 1..Len(Tail(s)) /\ Tail(s)[i - 1] = s[(i - 1) + 1] /\ (i - 1) + 1 = i
    BY <1>1, <2>2
  <2> QED BY <2>1, <2>3 DEF Contains
<1>3. ASSUME NEW y, Contains(Tail(s), y) PROVE Contains(s, y)
  <2>1. PICK i \in 1..Len(Tail(s)) : Tail(s)[i] = y
    BY <1>3 DEF Contains
  <2>2. i + 1 \in 1..Len(s) /\ s[i + 1] = y
    BY <1>1, <2>1
  <2> QED BY <2>2 DEF Contains
<1>4. Contains(s, Head(s))
  BY <1>1 DEF Contains
<1> QED BY <1>1, <1>2, <1>3, <1>4

\* The empty sequence holds nothing.
LEMMA EmptyContains ==
  /\ \A y : ~Contains(<<>>, y)
  /\ \A S : <<>> \in Seq(S)
  /\ Len(<<>>) = 0
BY EmptySeq DEF Contains

\* What is over the cap is the oldest entry alone (outbox.ts).
LEMMA NewestIsTail ==
  ASSUME NEW S, NEW q \in Seq(S), Len(q) = OutboxMax + 1
  PROVE  Newest(q) = Tail(q) /\ q # <<>>
<1>1. OutboxMax \in Nat /\ q # <<>>
  BY DeliveryAssumption, EmptySeq
<1>2. Len(q) - OutboxMax + 1 = 2
  BY <1>1
<1> QED BY <1>1, <1>2, TailIsSubSeq DEF Newest

\* A set of positions that leaves no gap is the first Cardinality of them.
LEMMA InitialSegment ==
  ASSUME NEW n \in Nat, NEW S \in SUBSET (1..n), \A i \in S : \A j \in 1..i : j \in S
  PROVE  Cardinality(S) \in 0..n /\ S = 1..Cardinality(S)
<1> DEFINE T == {i \in Nat : i + 1 \notin S}
<1>1. PICK k \in T : \A y \in T : ~(<<y, k>> \in OpToRel(<, Nat))
  <2>1. n \in T
    OBVIOUS
  <2> HIDE DEF T
  <2>2. T \subseteq Nat /\ T # {}
    BY <2>1 DEF T
  <2> QED BY <2>2, NatLessThanWellFounded, WFMin
<1>2. \A y \in T : ~(y < k)
  BY <1>1 DEF OpToRel
<1>3. \A i \in 1..k : i \in S
  <2> SUFFICES ASSUME NEW i \in 1..k PROVE i \in S
    OBVIOUS
  <2>1. i - 1 \in Nat /\ i - 1 < k /\ (i - 1) + 1 = i
    OBVIOUS
  <2> QED BY <1>2, <2>1
<1>4. \A i \in S : i \in 1..k
  <2> SUFFICES ASSUME NEW i \in S, i > k PROVE FALSE
    OBVIOUS
  <2>1. k + 1 \in 1..i
    OBVIOUS
  <2> QED BY <2>1
<1>5. S = 1..k
  BY <1>3, <1>4
<1>6. Cardinality(1..k) = k
  BY FS_Interval
<1>7. k <= n
  BY <1>3
<1> QED BY <1>5, <1>6, <1>7

(***************************************************************************)
(* Type correctness                                                        *)
(***************************************************************************)
\* A fault raises its own count, within the bound.
LEMMA FaultCounts ==
  ASSUME TypeOK, NEW kind \in FaultKinds, Fault(kind)
  PROVE  /\ faults' \in [FaultKinds -> 0..MaxFaults]
         /\ faults' = [faults EXCEPT ![kind] = @ + 1]
         /\ faults'[kind] > 0
         /\ \A k \in FaultKinds : faults'[k] = 0 => faults[k] = 0
<1>1. /\ faults \in [FaultKinds -> 0..MaxFaults] /\ MaxFaults \in Nat
      /\ faults' = [faults EXCEPT ![kind] = @ + 1]
  BY DeliveryAssumption DEF TypeOK, Fault
<1>2. \A k \in FaultKinds : faults[k] \in Nat
  BY <1>1
<1>3. faults["drop"] \in Nat /\ faults["restart"] \in Nat /\ faults["crash"] \in Nat
      /\ faults["fail"] \in Nat
  BY <1>2 DEF FaultKinds
<1>4. faults["drop"] + faults["restart"] + faults["crash"] + faults["fail"] < MaxFaults
  BY DEF Fault
<1>5. faults[kind] + 1 \in 0..MaxFaults /\ faults[kind] + 1 > 0
  BY <1>1, <1>3, <1>4 DEF FaultKinds
<1> QED BY <1>1, <1>2, <1>5

\* The values at rest.
LEMMA AtRest ==
  /\ <<>> \in Seq(Events) /\ <<>> \in Seq(Entries) /\ Len(<<>>) = 0
  /\ NoFrame \in [event : 0..NumEvents, id : 0..NumEvents,
                   todo : SUBSET Peers, failed : SUBSET Peers, saving : SUBSET Peers]
  /\ NoFrame.event = 0 /\ NoFrame.id = NoId
  /\ NoDrain \in [pc : {"idle", "sending", "saving"}, rest : Seq(Entries)]
  /\ NoDrain.pc = "idle" /\ NoDrain.rest = <<>>
  /\ <<>> \in Queues
<1>1. <<>> \in Seq(Events) /\ <<>> \in Seq(Entries) /\ Len(<<>>) = 0
  BY EmptyContains
<1>2. 0 \in 0..NumEvents
  BY DeliveryAssumption
<1>3. <<>> \in Queues
  BY <1>1, DeliveryAssumption DEF Queues
<1> QED BY <1>1, <1>2, <1>3 DEF NoFrame, NoDrain, NoId

\* A delivery counts up.
LEMMA DeliveryCounts ==
  ASSUME TypeOK, NEW x \in Entries, Deliver(x)
  PROVE  /\ delivered' \in [Entries -> 0..2]
         /\ \A y \in Entries : delivered[y] > 0 => delivered'[y] > 0
         /\ \A y \in Entries : y # x => delivered'[y] = delivered[y]
         /\ delivered[x] = 0 => delivered'[x] = 1
         /\ delivered'[x] > 0
<1>1. delivered \in [Entries -> 0..2] /\ delivered[x] \in 0..2
  BY DEF TypeOK
<1>2. delivered' = [delivered EXCEPT ![x] = IF delivered[x] < 2 THEN delivered[x] + 1 ELSE 2]
  BY DEF Deliver
<1>3. (IF delivered[x] < 2 THEN delivered[x] + 1 ELSE 2) \in 1..2
  BY <1>1
<1> QED BY <1>1, <1>2, <1>3

\* The frame in progress is about an event, its peers are peers.
LEMMA FrameType ==
  ASSUME TypeInv, Pushing
  PROVE  /\ frame.event \in Events
         /\ \A p \in Peers : <<frame.event, p>> \in Entries
         /\ SavingEntries \subseteq Entries
<1>1. frame.event \in Events /\ frame.saving \subseteq Peers
  BY DEF TypeInv, TypeOK, Events
<1> QED BY <1>1 DEF SavingEntries, Entries

\* A replay is a part of the buffer.
LEMMA ReplayIsPart ==
  ASSUME TypeOK, NEW id
  PROVE  ReplayAfter(id) \in Seq(Events)
<1> DEFINE older == {i \in DOMAIN buffer : ids[buffer[i]] <= id}
<1>1. buffer \in Seq(Events) /\ Len(buffer) \in Nat /\ DOMAIN buffer = 1..Len(buffer)
  BY LenProperties DEF TypeOK
<1>2. Cardinality(older) \in Nat /\ Cardinality(older) <= Len(buffer)
  <2>1. IsFiniteSet(1..Len(buffer)) /\ Cardinality(1..Len(buffer)) = Len(buffer)
    BY <1>1, FS_Interval
  <2>2. older \subseteq 1..Len(buffer)
    BY <1>1
  <2> HIDE DEF older
  <2> QED BY <2>1, <2>2, FS_Subset, FS_CardinalityType
<1> HIDE DEF older
<1>3. SubSeq(buffer, Cardinality(older) + 1, Len(buffer)) \in Seq(Events)
  BY <1>1, <1>2, SubSeqProperties
<1> QED BY <1>3 DEF ReplayAfter, older

\* The domains of the server's, the pusher's, the outbox's and the other variables.
ServerType ==
  /\ emitted \in 0..NumEvents /\ nextId \in 1..(NumEvents + 1) /\ nextId <= emitted + 1
  /\ ids \in [Events -> 0..NumEvents]
  /\ buffer \in Seq(Events) /\ Len(buffer) <= BufferCap
  /\ covered \subseteq Events /\ evicted \subseteq Events
PushType ==
  /\ bridge \in {"down", "starting", "offline", "reading", "sending", "queueing", "saving"}
  /\ lastId \in 0..NumEvents /\ savedId \in 0..NumEvents
  /\ frame \in [event : 0..NumEvents, id : 0..NumEvents,
                todo : SUBSET Peers, failed : SUBSET Peers, saving : SUBSET Peers]
  /\ earned \in BOOLEAN
  /\ Pushing => frame.event # 0
BoxType ==
  /\ box \in Seq(Entries) /\ Len(box) <= OutboxMax
  /\ file \in Seq(Entries) /\ Len(file) <= OutboxMax
  /\ queued \subseteq Entries /\ unsure \subseteq Entries
  /\ overran \subseteq Entries /\ trimmed \subseteq Entries
DrainType ==
  /\ drain \in [pc : {"idle", "sending", "saving"}, rest : Seq(Entries)]
  /\ drain.pc = "sending" <=> drain.rest # <<>>
  /\ drain.rest \in Queues
WireType == online \in BOOLEAN /\ wire \in Seq(Events)
CountType == faults \in [FaultKinds -> 0..MaxFaults] /\ delivered \in [Entries -> 0..2]

\* The invariant by its parts.
LEMMA TypeParts ==
  /\ TypeInv => ServerType /\ PushType /\ BoxType /\ DrainType /\ WireType /\ CountType
  /\ ServerType /\ PushType /\ BoxType /\ DrainType /\ WireType /\ CountType => TypeInv
  /\ ServerType' /\ PushType' /\ BoxType' /\ DrainType' /\ WireType' /\ CountType' => TypeInv'
<1> USE DEF ServerType, PushType, BoxType, DrainType, WireType, CountType
<1>1. TypeInv => ServerType /\ PushType /\ BoxType /\ DrainType /\ WireType /\ CountType
  BY DEF TypeInv, TypeOK
<1>2. ServerType /\ PushType /\ BoxType /\ DrainType /\ WireType /\ CountType => TypeInv
  BY DEF TypeInv, TypeOK
<1>3. ServerType' /\ PushType' /\ BoxType' /\ DrainType' /\ WireType' /\ CountType' => TypeInv'
  BY DEF TypeInv, TypeOK
<1> QED BY <1>1, <1>2, <1>3

\* Every step keeps to the domains.
LEMMA TypeStep ==
  ASSUME TypeInv, [Next]_vars
  PROVE  TypeInv'
<1> USE DeliveryAssumption DEF Pushing
<1>0. ServerType /\ PushType /\ BoxType /\ DrainType /\ WireType /\ CountType
  BY TypeParts
<1>1. ASSUME Emit PROVE TypeInv'
  <2>1. PushType' /\ BoxType' /\ DrainType' /\ CountType'
    BY <1>0, <1>1 DEF Emit, PushType, BoxType, DrainType, CountType, pushVars, boxVars
  <2>2. ServerType'
    <3> DEFINE e == emitted + 1
    <3>1. /\ e \in Events /\ emitted' = e /\ e \in 0..NumEvents /\ nextId \in 1..NumEvents
          /\ covered' \subseteq Events
      BY <1>0, <1>1 DEF Emit, Events, ServerType
    <3>2. /\ nextId' \in 1..(NumEvents + 1) /\ nextId' <= e + 1
          /\ ids' \in [Events -> 0..NumEvents]
          /\ evicted' \subseteq Events
          /\ buffer' \in Seq(Events) /\ Len(buffer') <= BufferCap
      <4> USE DEF ServerType
      <4>1. CASE Kind[e] = "progress"
        BY <1>0, <1>1, <3>1, <4>1 DEF Emit
      <4>2. CASE Kind[e] # "progress" /\ Len(buffer) = BufferCap
        <5>1. buffer # <<>>
          BY <1>0, <4>2
        <5>2. /\ Head(buffer) \in Events /\ Tail(buffer) \in Seq(Events)
              /\ Len(Tail(buffer)) = BufferCap - 1
          BY <1>0, <4>2, <5>1, TailContains
        <5>3. /\ Append(Tail(buffer), e) \in Seq(Events)
              /\ Len(Append(Tail(buffer), e)) = BufferCap
          BY <3>1, <5>2, AppendContains
        <5>4. /\ buffer' = Append(Tail(buffer), e) /\ evicted' = evicted \cup {Head(buffer)}
              /\ nextId' = nextId + 1 /\ ids' = [ids EXCEPT ![e] = nextId]
          BY <1>1, <4>2 DEF Emit
        <5> QED BY <1>0, <3>1, <5>2, <5>3, <5>4
      <4>3. CASE Kind[e] # "progress" /\ Len(buffer) # BufferCap
        <5>1. /\ Append(buffer, e) \in Seq(Events) /\ Len(Append(buffer, e)) = Len(buffer) + 1
              /\ Len(buffer) \in Nat
          BY <1>0, <3>1, AppendContains, LenProperties
        <5>2. /\ buffer' = Append(buffer, e) /\ evicted' = evicted
              /\ nextId' = nextId + 1 /\ ids' = [ids EXCEPT ![e] = nextId]
          BY <1>1, <4>3 DEF Emit
        <5> QED BY <1>0, <3>1, <4>3, <5>1, <5>2
      <4> QED BY <4>1, <4>2, <4>3
    <3> QED BY <3>1, <3>2 DEF ServerType
  <2>3. WireType'
    <3>1. emitted + 1 \in Events
      BY <1>0, <1>1 DEF Emit, Events, ServerType
    <3> QED BY <1>0, <1>1, <3>1, AppendContains DEF Emit, WireType
  <2> QED BY <2>1, <2>2, <2>3, TypeParts
<1>2. ASSUME Drop PROVE TypeInv'
  <2>1. ServerType' /\ PushType' /\ BoxType' /\ DrainType'
    BY <1>0, <1>2
       DEF Drop, ServerType, PushType, BoxType, DrainType, serverVars, pushVars, boxVars
  <2>2. WireType'
    BY <1>0, <1>2, AtRest DEF Drop, WireType
  <2>3. CountType'
    BY <1>0, <1>2, FaultCounts, TypeParts DEF Drop, CountType, FaultKinds, TypeInv
  <2> QED BY <2>1, <2>2, <2>3, TypeParts
<1>3. ASSUME ServerRestart PROVE TypeInv'
  <2>1. PushType' /\ BoxType' /\ DrainType'
    BY <1>0, <1>3 DEF ServerRestart, PushType, BoxType, DrainType, pushVars, boxVars
  <2>2. ServerType'
    BY <1>0, <1>3, AtRest DEF ServerRestart, ServerType
  <2>3. WireType'
    BY <1>0, <1>3 DEF ServerRestart, WireType
  <2>4. CountType'
    BY <1>0, <1>3, FaultCounts, TypeParts DEF ServerRestart, CountType, FaultKinds, TypeInv
  <2> QED BY <2>1, <2>2, <2>3, <2>4, TypeParts
<1>4. ASSUME BridgeCrash PROVE TypeInv'
  <2>1. ServerType'
    BY <1>0, <1>4 DEF BridgeCrash, ServerType, serverVars
  <2>2. PushType'
    BY <1>0, <1>4, AtRest DEF BridgeCrash, PushType
  <2>3. BoxType'
    BY <1>0, <1>4, AtRest DEF BridgeCrash, BoxType
  <2>4. DrainType'
    BY <1>0, <1>4, AtRest DEF BridgeCrash, DrainType
  <2>5. WireType'
    BY <1>0, <1>4, AtRest DEF BridgeCrash, WireType
  <2>6. CountType'
    BY <1>0, <1>4, FaultCounts, TypeParts DEF BridgeCrash, CountType, FaultKinds, TypeInv
  <2> QED BY <2>1, <2>2, <2>3, <2>4, <2>5, <2>6, TypeParts
<1>5. ASSUME BridgeStart PROVE TypeInv'
  <2>a. file \in Seq(Entries) /\ file \in Queues
    BY <1>0 DEF BoxType, Queues
  <2>1. ServerType' /\ WireType' /\ CountType'
    BY <1>0, <1>5 DEF BridgeStart, ServerType, WireType, CountType, serverVars
  <2>2. PushType'
    BY <1>0, <1>5 DEF BridgeStart, PushType
  <2>3. BoxType'
    BY <1>0, <1>5 DEF BridgeStart, BoxType
  <2>4. DrainType'
    BY <1>0, <1>5, <2>a, AtRest DEF BridgeStart, DrainType
  <2> QED BY <2>1, <2>2, <2>3, <2>4, TypeParts
<1>6. ASSUME BridgeReady PROVE TypeInv'
  <2>1. ServerType' /\ BoxType' /\ DrainType' /\ WireType' /\ CountType'
    BY <1>0, <1>6
       DEF BridgeReady, ServerType, BoxType, DrainType, WireType, CountType, serverVars,
           boxVars
  <2>2. PushType'
    BY <1>0, <1>6 DEF BridgeReady, PushType
  <2> QED BY <2>1, <2>2, TypeParts
<1>7. ASSUME Connect PROVE TypeInv'
  <2>a. wire' \in Seq(Events)
    BY <1>7, AtRest, ReplayIsPart DEF Connect, TypeInv
  <2>1. ServerType' /\ BoxType' /\ DrainType' /\ CountType'
    BY <1>0, <1>7 DEF Connect, ServerType, BoxType, DrainType, CountType, serverVars, boxVars
  <2>2. PushType'
    BY <1>0, <1>7, AtRest DEF Connect, PushType
  <2>3. WireType'
    BY <1>0, <1>7, <2>a DEF Connect, WireType
  <2> QED BY <2>1, <2>2, <2>3, TypeParts
<1>8. ASSUME ConnectionLost PROVE TypeInv'
  <2>1. ServerType' /\ BoxType' /\ DrainType' /\ WireType' /\ CountType'
    BY <1>0, <1>8
       DEF ConnectionLost, ServerType, BoxType, DrainType, WireType, CountType, serverVars,
           boxVars
  <2>2. PushType'
    BY <1>0, <1>8 DEF ConnectionLost, PushType
  <2> QED BY <2>1, <2>2, TypeParts
<1>9. ASSUME Receive PROVE TypeInv'
  <2>a. wire \in Seq(Events) /\ wire # <<>>
    BY <1>0, <1>9 DEF WireType, Receive
  <2>b. Head(wire) \in Events /\ Tail(wire) \in Seq(Events)
    BY <2>a, TailContains
  <2>c. Head(wire) \in 0..NumEvents /\ Head(wire) # 0
    BY <2>b DEF Events
  <2>d. ids[Head(wire)] \in 0..NumEvents /\ frame.id \in 0..NumEvents
    BY <1>0, <2>b DEF ServerType, PushType
  <2>1. ServerType' /\ BoxType' /\ DrainType' /\ CountType'
    BY <1>0, <1>9 DEF Receive, ServerType, BoxType, DrainType, CountType, serverVars, boxVars
  <2>2. PushType'
    BY <1>0, <1>9, <2>c, <2>d DEF Receive, PushType
  <2>3. WireType'
    BY <1>0, <1>9, <2>b DEF Receive, WireType
  <2> QED BY <2>1, <2>2, <2>3, TypeParts
<1>10. ASSUME NEW p \in Peers, SendFail(p) PROVE TypeInv'
  <2>1. ServerType' /\ BoxType' /\ DrainType' /\ WireType'
    BY <1>0, <1>10 DEF SendFail, ServerType, BoxType, DrainType, WireType, serverVars, boxVars
  <2>2. PushType'
    BY <1>0, <1>10 DEF SendFail, PushType
  <2>3. CountType'
    BY <1>0, <1>10, FaultCounts, TypeParts DEF SendFail, CountType, FaultKinds, TypeInv
  <2> QED BY <2>1, <2>2, <2>3, TypeParts
<1>11. ASSUME NEW p \in Peers, Enqueue(p) PROVE TypeInv'
  <2> DEFINE x == <<frame.event, p>>
             q == Append(box, x)
  <2>a. x \in Entries /\ box \in Seq(Entries) /\ Len(box) <= OutboxMax
    BY <1>0, <1>11, FrameType DEF Enqueue, BoxType
  <2> HIDE DEF x
  <2>b. q \in Seq(Entries) /\ Len(q) = Len(box) + 1 /\ Len(box) \in Nat
    BY ONLY <2>a, AppendContains, LenProperties
  <2>c. /\ box' = IF Len(q) > OutboxMax THEN Newest(q) ELSE q
        /\ trimmed' = IF Len(q) > OutboxMax THEN trimmed \cup {Head(q)} ELSE trimmed
        /\ overran' = IF drain.pc = "sending" THEN overran \cup {x} ELSE overran
        /\ file' = file /\ queued' = queued /\ unsure' = unsure
    BY <1>11 DEF Enqueue, x
  <2> HIDE DEF q
  <2>d. ASSUME Len(q) > OutboxMax
        PROVE  Newest(q) \in Seq(Entries) /\ Len(Newest(q)) = OutboxMax /\ Head(q) \in Entries
    <3>1. Len(q) = OutboxMax + 1
      BY <2>a, <2>b, <2>d
    <3>2. Newest(q) = Tail(q) /\ q # <<>>
      BY <2>b, <3>1, NewestIsTail
    <3>3. Tail(q) \in Seq(Entries) /\ Len(Tail(q)) = Len(q) - 1 /\ Head(q) \in Entries
      BY ONLY <2>b, <3>2, TailContains
    <3> QED BY <3>1, <3>2, <3>3
  <2>1. ServerType' /\ DrainType' /\ WireType' /\ CountType'
    BY <1>0, <1>11 DEF Enqueue, ServerType, DrainType, WireType, CountType, serverVars
  <2>2. PushType'
    <3>1. /\ UNCHANGED <<lastId, savedId, earned>> /\ bridge = "queueing" /\ bridge' = "saving"
          /\ frame' = [frame EXCEPT !.failed = @ \ {p}, !.saving = {p}]
      BY <1>11 DEF Enqueue
    <3>2. /\ frame' \in [event : 0..NumEvents, id : 0..NumEvents,
                          todo : SUBSET Peers, failed : SUBSET Peers, saving : SUBSET Peers]
          /\ frame'.event = frame.event
      <4>1. frame \in [event : 0..NumEvents, id : 0..NumEvents,
                      todo : SUBSET Peers, failed : SUBSET Peers, saving : SUBSET Peers]
        BY <1>0 DEF PushType
      <4>2. {p} \in SUBSET Peers /\ frame.failed \ {p} \in SUBSET Peers
        BY <1>11, <4>1
      <4> QED BY ONLY <3>1, <4>1, <4>2
    <3> QED BY <1>0, <3>1, <3>2 DEF PushType
  <2>3. BoxType'
    BY <1>0, <1>11, <2>a, <2>b, <2>c, <2>d DEF BoxType
  <2> QED BY <2>1, <2>2, <2>3, TypeParts
<1>12. ASSUME QueueFailed PROVE TypeInv'
  <2>1. ServerType' /\ BoxType' /\ DrainType' /\ WireType' /\ CountType'
    BY <1>0, <1>12
       DEF QueueFailed, ServerType, BoxType, DrainType, WireType, CountType, serverVars,
           boxVars
  <2>2. PushType'
    BY <1>0, <1>12 DEF QueueFailed, PushType
  <2> QED BY <2>1, <2>2, TypeParts
<1>13. ASSUME EnqueueSaved PROVE TypeInv'
  <2>a. SavingEntries \subseteq Entries
    BY <1>13, FrameType DEF EnqueueSaved
  <2>1. ServerType' /\ DrainType' /\ WireType' /\ CountType'
    BY <1>0, <1>13 DEF EnqueueSaved, ServerType, DrainType, WireType, CountType, serverVars
  <2>2. PushType'
    BY <1>0, <1>13 DEF EnqueueSaved, PushType
  <2>3. BoxType'
    BY <1>0, <1>13, <2>a DEF EnqueueSaved, BoxType
  <2> QED BY <2>1, <2>2, <2>3, TypeParts
<1>14. ASSUME Advance PROVE TypeInv'
  <2>1. ServerType' /\ BoxType' /\ DrainType' /\ WireType' /\ CountType'
    BY <1>0, <1>14
       DEF Advance, ServerType, BoxType, DrainType, WireType, CountType, serverVars, boxVars
  <2>2. PushType'
    BY <1>0, <1>14 DEF Advance, PushType
  <2> QED BY <2>1, <2>2, TypeParts
<1>15. ASSUME NEW p \in Peers, SendOk(p) PROVE TypeInv'
  <2>1. ServerType' /\ BoxType' /\ DrainType' /\ WireType'
    BY <1>0, <1>15 DEF SendOk, ServerType, BoxType, DrainType, WireType, serverVars, boxVars
  <2>2. PushType'
    BY <1>0, <1>15 DEF SendOk, PushType
  <2>3. CountType'
    BY <1>0, <1>15, FrameType, DeliveryCounts, TypeParts DEF SendOk, CountType, TypeInv
  <2> QED BY <2>1, <2>2, <2>3, TypeParts
<1>16. ASSUME DrainStart PROVE TypeInv'
  <2>a. box \in Seq(Entries) /\ box \in Queues
    BY <1>0 DEF BoxType, Queues
  <2>1. ServerType' /\ PushType' /\ BoxType' /\ WireType' /\ CountType'
    BY <1>0, <1>16
       DEF DrainStart, ServerType, PushType, BoxType, WireType, CountType, serverVars,
           pushVars, boxVars
  <2>2. DrainType'
    BY <1>0, <1>16, <2>a, AtRest DEF DrainStart, DrainType
  <2> QED BY <2>1, <2>2, TypeParts
<1>17. ASSUME DrainFail PROVE TypeInv'
  <2>a. drain.rest \in Seq(Entries) /\ Len(drain.rest) <= OutboxMax
    BY <1>0 DEF DrainType, Queues
  <2>1. ServerType' /\ PushType' /\ WireType'
    BY <1>0, <1>17 DEF DrainFail, DrainStops, ServerType, PushType, WireType, serverVars, pushVars
  <2>2. BoxType'
    BY <1>0, <1>17, <2>a DEF DrainFail, DrainStops, BoxType
  <2>3. DrainType'
    BY <1>0, <1>17, AtRest DEF DrainFail, DrainStops, DrainType
  <2>4. CountType'
    BY <1>0, <1>17, FaultCounts, TypeParts DEF DrainFail, DrainStops, CountType, FaultKinds, TypeInv
  <2> QED BY <2>1, <2>2, <2>3, <2>4, TypeParts
<1>18. ASSUME DrainSaved PROVE TypeInv'
  <2>1. ServerType' /\ PushType' /\ WireType' /\ CountType'
    BY <1>0, <1>18
       DEF DrainSaved, ServerType, PushType, WireType, CountType, serverVars, pushVars
  <2>2. BoxType'
    BY <1>0, <1>18 DEF DrainSaved, BoxType
  <2>3. DrainType'
    BY <1>0, <1>18, AtRest DEF DrainSaved, DrainType
  <2> QED BY <2>1, <2>2, <2>3, TypeParts
<1>19. ASSUME DrainOk PROVE TypeInv'
  <2>a. drain.rest \in Seq(Entries) /\ drain.rest # <<>> /\ Len(drain.rest) <= OutboxMax
    BY <1>0, <1>19 DEF DrainOk, DrainType, Queues
  <2>b. /\ Head(drain.rest) \in Entries /\ Tail(drain.rest) \in Queues
        /\ Tail(drain.rest) \in Seq(Entries)
    BY <2>a, TailContains DEF Queues
  <2>1. ServerType' /\ PushType' /\ WireType'
    BY <1>0, <1>19 DEF DrainOk, ServerType, PushType, WireType, serverVars, pushVars
  <2>2. BoxType'
    BY <1>0, <1>19, AtRest DEF DrainOk, BoxType
  <2>3. DrainType'
    <3>1. CASE Tail(drain.rest) # <<>>
      <4>1. drain' = [drain EXCEPT !.rest = Tail(drain.rest)] /\ drain.pc = "sending"
        BY <1>19, <3>1 DEF DrainOk
      <4>2. /\ drain' \in [pc : {"idle", "sending", "saving"}, rest : Seq(Entries)]
            /\ drain'.pc = "sending" /\ drain'.rest = Tail(drain.rest)
        BY <1>0, <2>b, <4>1 DEF DrainType
      <4> QED BY <2>b, <3>1, <4>2 DEF DrainType
    <3>2. CASE Tail(drain.rest) = <<>>
      <4>1. drain' = [pc |-> "saving", rest |-> <<>>]
        BY <1>19, <3>2 DEF DrainOk
      <4> QED BY <4>1, AtRest DEF DrainType
    <3> QED BY <3>1, <3>2
  <2>4. CountType'
    BY <1>0, <1>19, <2>b, DeliveryCounts, TypeParts DEF DrainOk, CountType, TypeInv
  <2> QED BY <2>1, <2>2, <2>3, <2>4, TypeParts
<1>21. ASSUME NEW p \in Peers, SendLost(p) PROVE TypeInv'
  <2>a. /\ <<frame.event, p>> \in Entries /\ Deliver(<<frame.event, p>>) /\ Fault("fail")
        /\ unsure' = unsure \cup {<<frame.event, p>>}
    BY <1>21, FrameType DEF SendLost
  <2>1. ServerType' /\ DrainType' /\ WireType' /\ PushType'
    BY <1>0, <1>21
       DEF SendLost, ServerType, PushType, DrainType, WireType, serverVars, pushVars
  <2>2. BoxType'
    BY <1>0, <1>21, <2>a DEF SendLost, BoxType
  <2>3. CountType'
    BY <1>0, <2>a, DeliveryCounts, FaultCounts, TypeParts DEF CountType, FaultKinds, TypeInv
  <2> QED BY <2>1, <2>2, <2>3, TypeParts
<1>22. ASSUME DrainLost PROVE TypeInv'
  <2>a. drain.rest \in Seq(Entries) /\ Len(drain.rest) <= OutboxMax /\ drain.rest # <<>>
    BY <1>0, <1>22 DEF DrainLost, DrainStops, DrainType, Queues
  <2>b. /\ Head(drain.rest) \in Entries /\ Deliver(Head(drain.rest)) /\ Fault("fail")
        /\ unsure' = unsure \cup {Head(drain.rest)}
    BY <1>22, <2>a, TailContains DEF DrainLost, DrainStops
  <2>1. ServerType' /\ PushType' /\ WireType'
    BY <1>0, <1>22
       DEF DrainLost, DrainStops, ServerType, PushType, WireType, serverVars, pushVars
  <2>2. BoxType'
    BY <1>0, <1>22, <2>a, <2>b DEF DrainLost, DrainStops, BoxType
  <2>3. DrainType'
    BY <1>0, <1>22, AtRest DEF DrainLost, DrainStops, DrainType
  <2>4. CountType'
    BY <1>0, <2>b, DeliveryCounts, FaultCounts, TypeParts DEF CountType, FaultKinds, TypeInv
  <2> QED BY <2>1, <2>2, <2>3, <2>4, TypeParts
<1>20. CASE UNCHANGED vars
  BY <1>20 DEF vars, serverVars, pushVars, boxVars, TypeInv, TypeOK
<1> QED
  BY <1>1, <1>2, <1>3, <1>4, <1>5, <1>6, <1>7, <1>8, <1>9, <1>10, <1>11, <1>12, <1>13, <1>14,
     <1>15, <1>16, <1>17, <1>18, <1>19, <1>20, <1>21, <1>22
     DEF Next, PushStep, DrainStep


(***************************************************************************)
(* What is queued is kept                                                  *)
(***************************************************************************)
\* The entry being saved is the one of the frame, and no other is held back.
LEMMA HeldEntries ==
  /\ bridge # "saving" => Held = queued
  /\ bridge' # "saving" => Held' = queued'
  /\ bridge = "saving" => Held = queued \cup SavingEntries
  /\ TypeInv => Held \subseteq Entries /\ drain.rest \in Seq(Entries)
<1>1. TypeInv /\ bridge = "saving" => SavingEntries \subseteq Entries
  BY FrameType DEF Pushing
<1>2. TypeInv => queued \subseteq Entries /\ drain.rest \in Seq(Entries)
  BY DEF TypeInv, TypeOK, Queues
<1> QED BY <1>1, <1>2 DEF Held

\* Every step keeps them.
LEMMA KeptStep ==
  ASSUME TypeInv, KeptInv, [Next]_vars
  PROVE  KeptInv'
<1> USE HeldEntries, EmptyContains DEF KeptInv
<1>1. ASSUME Emit PROVE KeptInv'
  BY <1>1 DEF Emit, pushVars, boxVars, Held, SavingEntries, NoDrain
<1>2. ASSUME Drop PROVE KeptInv'
  BY <1>2 DEF Drop, Fault, serverVars, pushVars, boxVars, Held, SavingEntries, NoDrain
<1>3. ASSUME ServerRestart PROVE KeptInv'
  BY <1>3 DEF ServerRestart, Fault, pushVars, boxVars, Held, SavingEntries, NoDrain
<1>4. ASSUME BridgeCrash PROVE KeptInv'
  BY <1>4 DEF BridgeCrash, Fault, serverVars, Held, SavingEntries, NoDrain
<1>5. ASSUME BridgeStart PROVE KeptInv'
  BY <1>5 DEF BridgeStart, serverVars
<1>6. ASSUME BridgeReady PROVE KeptInv'
  BY <1>6 DEF BridgeReady, serverVars, boxVars
<1>7. ASSUME Connect PROVE KeptInv'
  BY <1>7 DEF Connect, serverVars, boxVars
<1>8. ASSUME ConnectionLost PROVE KeptInv'
  BY <1>8 DEF ConnectionLost, serverVars, boxVars
<1>9. ASSUME Receive PROVE KeptInv'
  BY <1>9 DEF Receive, serverVars, boxVars
<1>10. ASSUME NEW p \in Peers, SendFail(p) PROVE KeptInv'
  BY <1>10 DEF SendFail, Fault, serverVars, boxVars
<1>11. ASSUME NEW p \in Peers, Enqueue(p) PROVE KeptInv'
  <2> DEFINE x == <<frame.event, p>>
             q == Append(box, x)
  <2>1. /\ x \in Entries /\ box \in Seq(Entries) /\ Len(box) <= OutboxMax /\ Len(box) \in Nat
        /\ OutboxMax \in Nat /\ bridge # "down" /\ bridge # "saving"
    BY <1>11, FrameType, LenProperties, DeliveryAssumption
       DEF Enqueue, Pushing, TypeInv, TypeOK
  <2>2. /\ box' = IF Len(q) > OutboxMax THEN Newest(q) ELSE q
        /\ trimmed' = IF Len(q) > OutboxMax THEN trimmed \cup {Head(q)} ELSE trimmed
        /\ overran' = IF drain.pc = "sending" THEN overran \cup {x} ELSE overran
        /\ bridge' = "saving" /\ UNCHANGED <<queued, file, drain, delivered>>
    BY <1>11 DEF Enqueue
  <2>3. Held' = queued \cup {x}
    <3>1. frame'.event = frame.event /\ frame'.saving = {p}
      BY <1>11 DEF Enqueue, TypeInv, TypeOK
    <3> QED BY <2>2, <3>1 DEF Held, SavingEntries
  <2> HIDE DEF x
  <2>4. /\ q \in Seq(Entries) /\ Len(q) = Len(box) + 1
        /\ \A y : Contains(q, y) <=> Contains(box, y) \/ y = x
    BY <2>1, AppendContains
  <2> HIDE DEF q
  <2>5. \A y : Contains(q, y) /\ y \notin trimmed' => Contains(box', y)
    <3>1. CASE Len(q) > OutboxMax
      <4>1. Len(q) = OutboxMax + 1
        BY <2>1, <2>4, <3>1
      <4>2. Newest(q) = Tail(q) /\ q # <<>>
        BY <2>4, <4>1, NewestIsTail
      <4>3. \A y : Contains(q, y) => Contains(Tail(q), y) \/ y = Head(q)
        BY <2>4, <4>2, TailContains
      <4> QED BY <2>2, <3>1, <4>2, <4>3
    <3>2. CASE ~(Len(q) > OutboxMax)
      BY <2>2, <3>2
    <3> QED BY <3>1, <3>2
  <2> SUFFICES ASSUME NEW y \in Held' \ (trimmed' \cup overran'), delivered[y] = 0
               PROVE  /\ y \in queued => Contains(file, y)
                      /\ Contains(box', y)
                      /\ drain.pc = "sending" => Contains(drain.rest, y)
    BY <2>1, <2>2
  <2>6. y \notin trimmed /\ y \notin overran /\ (y = x => drain.pc # "sending")
    BY <2>2
  <2>7. CASE y \in queued
    <3>1. y \in Held \ (trimmed \cup overran)
      BY <2>6, <2>7 DEF Held
    <3>2. Contains(file, y) /\ Contains(box, y) /\ (drain.pc = "sending" => Contains(drain.rest, y))
      BY <2>1, <2>7, <3>1
    <3> QED BY <2>4, <2>5, <3>2
  <2>8. CASE y = x /\ y \notin queued
    BY <2>4, <2>5, <2>6, <2>8
  <2> QED BY <2>3, <2>7, <2>8
<1>12. ASSUME QueueFailed PROVE KeptInv'
  BY <1>12 DEF QueueFailed, serverVars, boxVars
<1>13. ASSUME EnqueueSaved PROVE KeptInv'
  <2>1. /\ Held' = Held /\ queued' = Held /\ file' = box /\ bridge # "down"
        /\ UNCHANGED <<box, drain, delivered, trimmed, overran>> /\ bridge' # "down"
    BY <1>13 DEF EnqueueSaved
  <2> QED BY <2>1
<1>14. ASSUME Advance PROVE KeptInv'
  BY <1>14 DEF Advance, serverVars, boxVars
<1>15. ASSUME NEW p \in Peers, SendOk(p) PROVE KeptInv'
  <2>1. \A y \in Entries : delivered'[y] = 0 => delivered[y] = 0
    <3>1. <<frame.event, p>> \in Entries /\ Deliver(<<frame.event, p>>)
      BY <1>15, FrameType DEF SendOk, Pushing
    <3>2. delivered \in [Entries -> 0..2]
      BY DEF TypeInv, TypeOK
    <3> QED BY <3>1, <3>2, DeliveryCounts DEF TypeInv
  <2> QED BY <1>15, <2>1 DEF SendOk, boxVars
<1>16. ASSUME DrainStart PROVE KeptInv'
  BY <1>16 DEF DrainStart, serverVars, pushVars, boxVars, Held, SavingEntries, NoDrain
<1>17. ASSUME DrainFail PROVE KeptInv'
  BY <1>17 DEF DrainFail, DrainStops, Fault, serverVars, pushVars, Held, SavingEntries, NoDrain
<1>18. ASSUME DrainSaved PROVE KeptInv'
  BY <1>18 DEF DrainSaved, serverVars, pushVars, Held, SavingEntries, NoDrain
<1>19. ASSUME DrainOk PROVE KeptInv'
  <2> DEFINE r == drain.rest
  <2>1. /\ r \in Seq(Entries) /\ r # <<>> /\ drain.pc = "sending" /\ bridge # "down"
        /\ Held \subseteq Entries
    BY <1>19 DEF DrainOk, TypeInv
  <2>2. /\ Head(r) \in Entries
        /\ \A y : Contains(r, y) => Contains(Tail(r), y) \/ y = Head(r)
    BY <2>1, TailContains
  <2>3. /\ delivered'[Head(r)] > 0
        /\ \A y \in Entries : y # Head(r) => delivered'[y] = delivered[y]
    BY <1>19, <2>2, DeliveryCounts DEF DrainOk, TypeInv
  <2>4. /\ IF Tail(r) # <<>> THEN drain'.rest = Tail(r) /\ drain'.pc = "sending" /\ box' = box
                             ELSE drain'.pc = "saving" /\ box' = <<>>
        /\ bridge' = bridge /\ Held' = Held
        /\ UNCHANGED <<queued, file, trimmed, overran>>
    <3>1. drain \in [pc : {"idle", "sending", "saving"}, rest : Seq(Entries)]
      BY DEF TypeInv, TypeOK
    <3> QED BY <1>19, <3>1 DEF DrainOk, pushVars, Held, SavingEntries
  <2> SUFFICES ASSUME NEW x \in Held \ (trimmed \cup overran), delivered'[x] = 0
               PROVE  /\ x \in queued => Contains(file, x)
                      /\ Contains(box', x)
                      /\ drain'.pc = "sending" => Contains(drain'.rest, x)
    BY <2>1, <2>4
  <2>5. x \in Entries /\ x # Head(r) /\ delivered[x] = 0
    BY <2>1, <2>3
  <2>6. (x \in queued => Contains(file, x)) /\ Contains(box, x) /\ Contains(r, x)
    BY <2>1, <2>5
  <2>7. Contains(Tail(r), x)
    BY <2>2, <2>5, <2>6
  <2> QED BY <2>4, <2>6, <2>7
<1>21. ASSUME NEW p \in Peers, SendLost(p) PROVE KeptInv'
  <2>1. \A y \in Entries : delivered'[y] = 0 => delivered[y] = 0
    <3>1. <<frame.event, p>> \in Entries /\ Deliver(<<frame.event, p>>)
      BY <1>21, FrameType DEF SendLost, Pushing
    <3>2. delivered \in [Entries -> 0..2]
      BY DEF TypeInv, TypeOK
    <3> QED BY <3>1, <3>2, DeliveryCounts DEF TypeInv
  <2> QED BY <1>21, <2>1 DEF SendLost, pushVars, Held, SavingEntries
<1>22. ASSUME DrainLost PROVE KeptInv'
  <2>1. \A y \in Entries : delivered'[y] = 0 => delivered[y] = 0
    <3>1. Head(drain.rest) \in Entries /\ Deliver(Head(drain.rest))
      BY <1>22, TailContains DEF DrainLost, DrainStops, TypeInv
    <3>2. delivered \in [Entries -> 0..2]
      BY DEF TypeInv, TypeOK
    <3> QED BY <3>1, <3>2, DeliveryCounts DEF TypeInv
  <2> QED BY <1>22, <2>1 DEF DrainLost, DrainStops, serverVars, pushVars, Held, SavingEntries
<1>20. CASE UNCHANGED vars
  BY <1>20 DEF vars, serverVars, pushVars, boxVars, Held, SavingEntries
<1> QED
  BY <1>1, <1>2, <1>3, <1>4, <1>5, <1>6, <1>7, <1>8, <1>9, <1>10, <1>11, <1>12, <1>13, <1>14,
     <1>15, <1>16, <1>17, <1>18, <1>19, <1>20, <1>21, <1>22
     DEF Next, PushStep, DrainStep

\* A queued completion is on file or with its peer, unless the cap dropped it or a
\* drain was sending.
LEMMA KeptIsKept == TypeInv /\ KeptInv => QueuedIsKept
<1> SUFFICES ASSUME TypeInv, KeptInv, NEW x \in queued \ (trimmed \cup overran)
             PROVE  Kept(x)
  BY DEF QueuedIsKept
<1>1. x \in Held \ (trimmed \cup overran) /\ x \in Entries
  BY DEF Held, TypeInv, TypeOK
<1>2. delivered[x] \in 0..2
  BY <1>1 DEF TypeInv, TypeOK
<1>3. delivered[x] = 0 => Contains(file, x)
  BY <1>1 DEF KeptInv
<1> QED BY <1>2, <1>3 DEF Kept


(***************************************************************************)
(* Ids and the buffer                                                      *)
(***************************************************************************)
\* A numbered event goes to the end of the buffer, which loses at most its head; a
\* progress event leaves the buffer alone.
LEMMA EmitBuffer ==
  ASSUME TypeInv, Emit
  PROVE  /\ emitted' = emitted + 1 /\ emitted + 1 \in Events /\ emitted \in Nat
         /\ Len(buffer) \in Nat
         /\ \A k \in 1..Len(buffer) : buffer[k] \in Events
         /\ \/ /\ Kind[emitted + 1] = "progress"
               /\ UNCHANGED <<ids, nextId, buffer, evicted>>
            \/ /\ Kind[emitted + 1] # "progress"
               /\ ids' = [ids EXCEPT ![emitted + 1] = nextId] /\ nextId' = nextId + 1
               /\ \E d \in 0..1 :
                    /\ Len(buffer') = Len(buffer) - d + 1 /\ Len(buffer) >= d
                    /\ \A k \in 1..(Len(buffer) - d) : buffer'[k] = buffer[k + d]
                    /\ buffer'[Len(buffer) - d + 1] = emitted + 1
                    /\ evicted' = IF d = 1 THEN evicted \cup {buffer[1]} ELSE evicted
<1> DEFINE e == emitted + 1
<1>0. ServerType
  BY TypeParts
<1>1. /\ emitted' = e /\ e \in Events /\ emitted \in Nat
      /\ buffer \in Seq(Events) /\ Len(buffer) \in Nat
      /\ \A k \in 1..Len(buffer) : buffer[k] \in Events
      /\ BufferCap \in Nat \ {0}
  <2>1. /\ emitted' = e /\ emitted \in 0..NumEvents /\ emitted < NumEvents /\ NumEvents \in Nat
    BY <1>0, DeliveryAssumption DEF Emit, ServerType
  <2>2. /\ buffer \in Seq(Events) /\ Len(buffer) \in Nat
        /\ \A k \in 1..Len(buffer) : buffer[k] \in Events
    BY <1>0, LenProperties, ElementOfSeq DEF ServerType
  <2>3. e \in 1..NumEvents /\ emitted \in Nat
    BY <2>1
  <2> QED BY <2>1, <2>2, <2>3, DeliveryAssumption DEF Events
<1>2. CASE Kind[e] = "progress"
  BY <1>1, <1>2 DEF Emit
<1>3. CASE Kind[e] # "progress" /\ Len(buffer) = BufferCap
  <2>1. buffer # <<>>
    BY <1>1, <1>3
  <2>2. /\ Head(buffer) = buffer[1] /\ Tail(buffer) \in Seq(Events)
        /\ Len(Tail(buffer)) = Len(buffer) - 1 /\ Len(buffer) >= 1
        /\ \A k \in 1..Len(Tail(buffer)) : Tail(buffer)[k] = buffer[k + 1]
    BY <1>1, <2>1, TailContains
  <2>3. /\ Len(Append(Tail(buffer), e)) = Len(buffer) - 1 + 1
        /\ \A k \in 1..(Len(buffer) - 1) : Append(Tail(buffer), e)[k] = buffer[k + 1]
        /\ Append(Tail(buffer), e)[Len(buffer) - 1 + 1] = e
    BY <1>1, <2>2, AppendContains
  <2>4. /\ buffer' = Append(Tail(buffer), e) /\ evicted' = evicted \cup {buffer[1]}
        /\ nextId' = nextId + 1 /\ ids' = [ids EXCEPT ![e] = nextId]
    BY <1>3, <2>2 DEF Emit
  <2> QED BY <1>1, <1>3, <2>2, <2>3, <2>4
<1>4. CASE Kind[e] # "progress" /\ Len(buffer) # BufferCap
  <2>1. /\ Len(Append(buffer, e)) = Len(buffer) - 0 + 1
        /\ \A k \in 1..(Len(buffer) - 0) : Append(buffer, e)[k] = buffer[k + 0]
        /\ Append(buffer, e)[Len(buffer) - 0 + 1] = e
    BY <1>1, AppendContains
  <2>2. /\ buffer' = Append(buffer, e) /\ evicted' = evicted
        /\ nextId' = nextId + 1 /\ ids' = [ids EXCEPT ![e] = nextId]
    BY <1>4 DEF Emit
  <2> QED BY <1>1, <1>4, <2>1, <2>2
<1> QED BY <1>2, <1>3, <1>4

\* Every step keeps the ids ascending.
LEMMA NumberedStep ==
  ASSUME TypeInv, NumberedInv, [Next]_vars
  PROVE  NumberedInv'
<1>0. ASSUME UNCHANGED serverVars PROVE NumberedInv'
  BY <1>0 DEF NumberedInv, Ascending, serverVars
<1>1. ASSUME Emit PROVE NumberedInv'
  <2> DEFINE e == emitted + 1
  <2>1. /\ emitted' = e /\ e \in Events /\ emitted \in Nat /\ Len(buffer) \in Nat
        /\ nextId \in 1..(NumEvents + 1) /\ ids \in [Events -> 0..NumEvents]
        /\ \A f \in 1..emitted : f \in Events /\ f # e
        /\ \A k \in 1..Len(buffer) : /\ buffer[k] \in Events /\ buffer[k] <= emitted
                                     /\ ids[buffer[k]] \in 1..(nextId - 1)
    <3>1. ServerType
      BY TypeParts
    <3>2. /\ emitted' = e /\ e \in Events /\ emitted \in Nat /\ Len(buffer) \in Nat
          /\ \A k \in 1..Len(buffer) : buffer[k] \in Events
      BY <1>1, EmitBuffer
    <3>3. nextId \in 1..(NumEvents + 1) /\ ids \in [Events -> 0..NumEvents]
      BY <3>1 DEF ServerType
    <3>4. \A f \in 1..emitted : f \in Events /\ f # e
      BY <3>2, DeliveryAssumption DEF Events
    <3>5. \A k \in 1..Len(buffer) : buffer[k] <= emitted /\ ids[buffer[k]] \in 1..(nextId - 1)
      BY DEF NumberedInv
    <3> QED BY <3>2, <3>3, <3>4, <3>5
  <2>2. CASE Kind[e] = "progress"
    <3>1. UNCHANGED <<ids, nextId, buffer>>
      BY <1>1, <2>2, EmitBuffer
    <3>2. ids[e] = NoId
      BY <2>1, <2>2 DEF NumberedInv
    <3> HIDE DEF e
    <3>3. /\ \A k \in 1..Len(buffer) : buffer[k] <= emitted'
          /\ \A f \in Events : ids[f] = NoId <=> (f > emitted' \/ Kind[f] = "progress")
      BY <2>1, <2>2 DEF NumberedInv, e, Events
    <3>4. \A i \in 1..Len(buffer) : \A f \in 1..emitted' :
            ids[f] # NoId /\ ids[buffer[i]] > ids[f] => buffer[i] > f
      <4> SUFFICES ASSUME NEW i \in 1..Len(buffer), NEW f \in 1..emitted',
                          ids[f] # NoId, ids[buffer[i]] > ids[f]
                   PROVE  buffer[i] > f
        OBVIOUS
      <4>1. f \in 1..emitted
        BY <2>1, <3>2 DEF e
      <4> QED BY <4>1 DEF NumberedInv
    <3> QED BY <3>1, <3>3, <3>4 DEF NumberedInv, Ascending
  <2>3. CASE Kind[e] # "progress"
    <3>1. /\ ids' = [ids EXCEPT ![e] = nextId] /\ nextId' = nextId + 1
          /\ \E d \in 0..1 :
               /\ Len(buffer') = Len(buffer) - d + 1 /\ Len(buffer) >= d
               /\ \A k \in 1..(Len(buffer) - d) : buffer'[k] = buffer[k + d]
               /\ buffer'[Len(buffer) - d + 1] = e
      BY <1>1, <2>3, EmitBuffer
    <3>2. PICK d \in 0..1 :
               /\ Len(buffer') = Len(buffer) - d + 1 /\ Len(buffer) >= d
               /\ \A k \in 1..(Len(buffer) - d) : buffer'[k] = buffer[k + d]
               /\ buffer'[Len(buffer) - d + 1] = e
      BY <3>1
    <3> DEFINE n == Len(buffer) - d
    <3>3. /\ n \in Nat /\ Len(buffer') = n + 1
          /\ \A k \in 1..n : k + d \in 1..Len(buffer) /\ buffer'[k] = buffer[k + d]
          /\ buffer'[n + 1] = e
          /\ \A f \in Events : f # e => ids'[f] = ids[f]
          /\ ids'[e] = nextId
      BY <2>1, <3>1, <3>2
    <3>4. \A k \in 1..n : /\ buffer'[k] <= emitted /\ buffer'[k] \in Events
                          /\ ids'[buffer'[k]] = ids[buffer[k + d]]
                          /\ ids'[buffer'[k]] \in 1..(nextId - 1)
      BY <2>1, <3>3
    <3> HIDE DEF n, e
    <3>5. \A k \in 1..Len(buffer') : k \in 1..n \/ k = n + 1
      BY <3>3
    <3>6. \A k \in 1..Len(buffer') : /\ buffer'[k] <= emitted'
                                     /\ ids'[buffer'[k]] \in 1..(nextId' - 1)
      <4> SUFFICES ASSUME NEW k \in 1..Len(buffer')
                   PROVE  buffer'[k] <= emitted' /\ ids'[buffer'[k]] \in 1..(nextId' - 1)
        OBVIOUS
      <4>1. nextId' - 1 = nextId /\ nextId \in Nat /\ nextId >= 1 /\ emitted' = e /\ emitted < e
        BY <2>1, <3>1 DEF e
      <4>2. CASE k \in 1..n
        <5>1. buffer'[k] <= emitted /\ buffer'[k] \in Nat /\ ids'[buffer'[k]] \in 1..(nextId - 1)
          BY <3>4, <4>2 DEF Events
        <5> QED BY ONLY <2>1, <4>1, <5>1 DEF e
      <4>3. CASE k = n + 1
        BY <2>1, <3>3, <4>1, <4>3 DEF Events
      <4> QED BY <3>5, <4>2, <4>3
    <3>7. /\ \A i, j \in 1..Len(buffer) : i < j => ids[buffer[i]] < ids[buffer[j]]
          /\ \A i, j \in 1..Len(buffer) : i < j => buffer[i] < buffer[j]
          /\ \A f \in Events : ids[f] = NoId <=> (f > emitted \/ Kind[f] = "progress")
          /\ \A i \in 1..Len(buffer) : \A f \in 1..emitted :
                ids[f] # NoId /\ ids[buffer[i]] > ids[f] => buffer[i] > f
      BY DEF NumberedInv, Ascending
    <3>8. /\ \A i, j \in 1..Len(buffer') : i < j => ids'[buffer'[i]] < ids'[buffer'[j]]
          /\ \A i, j \in 1..Len(buffer') : i < j => buffer'[i] < buffer'[j]
      <4> SUFFICES ASSUME NEW i \in 1..Len(buffer'), NEW j \in 1..Len(buffer'), i < j
                   PROVE  ids'[buffer'[i]] < ids'[buffer'[j]] /\ buffer'[i] < buffer'[j]
        OBVIOUS
      <4>1. i \in 1..n
        BY <3>3
      <4>2. CASE j \in 1..n
        <5>1. i + d < j + d
          BY <4>1, <4>2
        <5> QED BY <3>3, <3>4, <3>7, <4>1, <4>2, <5>1
      <4>3. CASE j = n + 1
        <5>1. buffer'[j] = e /\ ids'[e] = nextId /\ nextId \in Nat /\ emitted < e
          BY <2>1, <3>3, <4>3 DEF e
        <5>2. /\ buffer'[i] <= emitted /\ buffer'[i] \in Nat /\ ids'[buffer'[i]] \in 1..(nextId - 1)
          BY <3>4, <4>1 DEF Events
        <5> QED BY ONLY <2>1, <5>1, <5>2 DEF e
      <4> QED BY <3>5, <4>2, <4>3
    <3>9. \A f \in Events : ids'[f] = NoId <=> (f > emitted' \/ Kind[f] = "progress")
      <4> SUFFICES ASSUME NEW f \in Events
                   PROVE  ids'[f] = NoId <=> (f > emitted' \/ Kind[f] = "progress")
        OBVIOUS
      <4>1. CASE f = e
        BY <2>1, <2>3, <3>3, <4>1 DEF NoId, Events
      <4>2. CASE f # e
        BY <2>1, <3>3, <3>7, <4>2 DEF e, Events
      <4> QED BY <4>1, <4>2
    <3>10. \A i \in 1..Len(buffer') : \A f \in 1..emitted' :
              ids'[f] # NoId /\ ids'[buffer'[i]] > ids'[f] => buffer'[i] > f
      <4> SUFFICES ASSUME NEW i \in 1..Len(buffer'), NEW f \in 1..emitted',
                          ids'[f] # NoId, ids'[buffer'[i]] > ids'[f]
                   PROVE  buffer'[i] > f
        OBVIOUS
      <4>1. CASE i \in 1..n
        <5>1. f # e
          BY <2>1, <3>3, <3>4, <4>1
        <5>2. f \in 1..emitted /\ f \in Events
          BY <2>1, <5>1 DEF e
        <5> QED BY <3>3, <3>4, <3>7, <4>1, <5>1, <5>2
      <4>2. CASE i = n + 1
        <5>1. buffer'[i] = e /\ ids'[e] = nextId /\ f \in 1..e
          BY <2>1, <3>3, <4>2
        <5>2. f # e
          BY <2>1, <3>3, <5>1
        <5> QED BY <2>1, <5>1, <5>2 DEF Events
      <4> QED BY <3>5, <4>1, <4>2
    <3> QED BY <3>6, <3>8, <3>9, <3>10 DEF NumberedInv, Ascending
  <2> QED BY <2>2, <2>3
<1>2. ASSUME Drop PROVE NumberedInv'
  BY <1>2, <1>0 DEF Drop, Fault, serverVars, pushVars, boxVars
<1>3. ASSUME ServerRestart PROVE NumberedInv'
  <2>1. UNCHANGED <<emitted, ids>> /\ buffer' = <<>> /\ nextId' = 1 /\ Len(buffer') = 0
    BY <1>3, EmptyContains DEF ServerRestart
  <2> QED BY <2>1 DEF NumberedInv, Ascending
<1>4. ASSUME BridgeCrash PROVE NumberedInv'
  BY <1>4, <1>0 DEF BridgeCrash, Fault, serverVars
<1>5. ASSUME BridgeStart PROVE NumberedInv'
  BY <1>5, <1>0 DEF BridgeStart, serverVars
<1>6. ASSUME BridgeReady PROVE NumberedInv'
  BY <1>6, <1>0 DEF BridgeReady, serverVars, boxVars
<1>7. ASSUME Connect PROVE NumberedInv'
  BY <1>7, <1>0 DEF Connect, serverVars, boxVars
<1>8. ASSUME ConnectionLost PROVE NumberedInv'
  BY <1>8, <1>0 DEF ConnectionLost, serverVars, boxVars
<1>9. ASSUME Receive PROVE NumberedInv'
  BY <1>9, <1>0 DEF Receive, serverVars, boxVars
<1>10. ASSUME NEW p \in Peers, SendFail(p) PROVE NumberedInv'
  BY <1>10, <1>0 DEF SendFail, Fault, serverVars, boxVars
<1>11. ASSUME NEW p \in Peers, Enqueue(p) PROVE NumberedInv'
  BY <1>11, <1>0 DEF Enqueue, serverVars
<1>12. ASSUME QueueFailed PROVE NumberedInv'
  BY <1>12, <1>0 DEF QueueFailed, serverVars, boxVars
<1>13. ASSUME EnqueueSaved PROVE NumberedInv'
  BY <1>13, <1>0 DEF EnqueueSaved, SavingEntries, serverVars
<1>14. ASSUME Advance PROVE NumberedInv'
  BY <1>14, <1>0 DEF Advance, serverVars, boxVars
<1>15. ASSUME NEW p \in Peers, SendOk(p) PROVE NumberedInv'
  BY <1>15, <1>0 DEF SendOk, Deliver, serverVars, boxVars
<1>16. ASSUME DrainStart PROVE NumberedInv'
  BY <1>16, <1>0 DEF DrainStart, serverVars, pushVars, boxVars
<1>17. ASSUME DrainFail PROVE NumberedInv'
  BY <1>17, <1>0 DEF DrainFail, DrainStops, Fault, serverVars, pushVars
<1>18. ASSUME DrainSaved PROVE NumberedInv'
  BY <1>18, <1>0 DEF DrainSaved, serverVars, pushVars
<1>19. ASSUME DrainOk PROVE NumberedInv'
  BY <1>19, <1>0 DEF DrainOk, Deliver, serverVars, pushVars
<1>21. ASSUME NEW p \in Peers, SendLost(p) PROVE NumberedInv'
  BY <1>21, <1>0 DEF SendLost, Fault, Deliver, serverVars, pushVars
<1>22. ASSUME DrainLost PROVE NumberedInv'
  BY <1>22, <1>0 DEF DrainLost, DrainStops, Fault, Deliver, serverVars, pushVars
<1>20. CASE UNCHANGED vars
  BY <1>20, <1>0 DEF vars, serverVars, pushVars, boxVars
<1> QED
  BY <1>1, <1>2, <1>3, <1>4, <1>5, <1>6, <1>7, <1>8, <1>9, <1>10, <1>11, <1>12, <1>13, <1>14,
     <1>15, <1>16, <1>17, <1>18, <1>19, <1>20, <1>21, <1>22
     DEF Next, PushStep, DrainStep


(***************************************************************************)
(* What is on the wire                                                     *)
(***************************************************************************)
\* The replay is the end of the buffer from the first larger id on.
LEMMA ReplayIs ==
  ASSUME TypeInv, NumberedInv, NEW id \in Nat
  PROVE  /\ ReplayAfter(id) \in Seq(Events)
         /\ \E d \in 0..Len(buffer) :
              /\ Len(ReplayAfter(id)) = Len(buffer) - d
              /\ \A i \in 1..(Len(buffer) - d) : ReplayAfter(id)[i] = buffer[i + d]
              /\ \A i \in 1..d : ids[buffer[i]] <= id
              /\ \A i \in (d + 1)..Len(buffer) : ids[buffer[i]] > id
<1> DEFINE older == {i \in DOMAIN buffer : ids[buffer[i]] <= id}
           d == Cardinality(older)
<1>1. /\ buffer \in Seq(Events) /\ Len(buffer) \in Nat /\ DOMAIN buffer = 1..Len(buffer)
      /\ \A i \in 1..Len(buffer) : ids[buffer[i]] \in Nat
  BY LenProperties DEF TypeInv, TypeOK, NumberedInv
<1>2. older \in SUBSET (1..Len(buffer))
  BY <1>1
<1>3. \A i \in older : \A j \in 1..i : j \in older
  <2> SUFFICES ASSUME NEW i \in older, NEW j \in 1..i, j # i PROVE j \in older
    OBVIOUS
  <2>1. i \in 1..Len(buffer) /\ j \in 1..Len(buffer) /\ j < i /\ ids[buffer[i]] <= id
    BY <1>1
  <2>2. ids[buffer[j]] < ids[buffer[i]]
    BY <2>1 DEF NumberedInv
  <2> QED BY <1>1, <2>1, <2>2
<1>4. \A i \in 1..Len(buffer) : i \in older <=> ids[buffer[i]] <= id
  BY <1>1
<1>5. ReplayAfter(id) = SubSeq(buffer, Cardinality(older) + 1, Len(buffer))
  BY DEF ReplayAfter
<1> HIDE DEF older
<1>6. d \in 0..Len(buffer) /\ older = 1..d
  BY <1>1, <1>2, <1>3, InitialSegment
<1> HIDE DEF d
<1>7. /\ \A i \in 1..d : ids[buffer[i]] <= id
      /\ \A i \in (d + 1)..Len(buffer) : ids[buffer[i]] > id
  BY <1>1, <1>4, <1>6
<1>8. ReplayAfter(id) = SubSeq(buffer, d + 1, Len(buffer))
  BY <1>5 DEF d
<1>9. /\ SubSeq(buffer, d + 1, Len(buffer)) \in Seq(Events)
      /\ Len(SubSeq(buffer, d + 1, Len(buffer))) = Len(buffer) - d
      /\ \A i \in 1..(Len(buffer) - d) : SubSeq(buffer, d + 1, Len(buffer))[i] = buffer[i + d]
  <2>1. d + 1 \in 1..(Len(buffer) + 1) /\ Len(buffer) \in d..Len(buffer)
    BY <1>1, <1>6
  <2>2. \A i \in (d + 1)..Len(buffer) : buffer[i] \in Events
    BY <1>1, <1>6, ElementOfSeq
  <2> DEFINE s == SubSeq(buffer, d + 1, Len(buffer))
  <2>3. /\ s \in Seq(Events)
        /\ Len(s) = IF d + 1 <= Len(buffer) THEN Len(buffer) - (d + 1) + 1 ELSE 0
        /\ \A i \in 1..(Len(buffer) - (d + 1) + 1) : s[i] = buffer[(d + 1) + i - 1]
    BY <1>1, <1>6, <2>2, SubSeqProperties
  <2> HIDE DEF s
  <2>4. Len(s) = Len(buffer) - d
    <3> DEFINE n == Len(buffer)
    <3>1. n \in Nat /\ d \in 0..n
      BY <1>1, <1>6
    <3>2. Len(s) = IF d + 1 <= n THEN n - (d + 1) + 1 ELSE 0
      BY <2>3
    <3> HIDE DEF n
    <3>3. (IF d + 1 <= n THEN n - (d + 1) + 1 ELSE 0) = n - d
      BY ONLY <3>1
    <3> QED BY <3>2, <3>3 DEF n
  <2>5. ASSUME NEW i \in 1..(Len(buffer) - d) PROVE s[i] = buffer[i + d]
    <3>1. i \in 1..(Len(buffer) - (d + 1) + 1) /\ (d + 1) + i - 1 = i + d
      BY ONLY <1>1, <1>6
    <3> QED BY <2>3, <3>1
  <2> QED BY <2>3, <2>4, <2>5 DEF s
<1> QED BY <1>6, <1>7, <1>8, <1>9

\* An emitted event joins the buffer at most, and what stays there keeps its id.
LEMMA EmitAdds ==
  ASSUME TypeInv, NumberedInv, Emit
  PROVE  /\ \A k \in 1..Len(buffer') : \/ \E j \in 1..Len(buffer) : buffer'[k] = buffer[j]
                                       \/ buffer'[k] = emitted + 1
         /\ \A j \in 1..Len(buffer) : ids'[buffer[j]] = ids[buffer[j]]
<1> DEFINE e == emitted + 1
<1>1. /\ e \in Events /\ emitted \in Nat /\ Len(buffer) \in Nat
      /\ \A k \in 1..Len(buffer) : buffer[k] \in Events
      /\ ids \in [Events -> 0..NumEvents]
  BY EmitBuffer DEF TypeInv, TypeOK
<1>2. CASE Kind[e] = "progress"
  BY <1>2, EmitBuffer
<1>3. CASE Kind[e] # "progress"
  <2>1. /\ ids' = [ids EXCEPT ![emitted + 1] = nextId]
        /\ \E d \in 0..1 :
             /\ Len(buffer') = Len(buffer) - d + 1 /\ Len(buffer) >= d
             /\ \A k \in 1..(Len(buffer) - d) : buffer'[k] = buffer[k + d]
             /\ buffer'[Len(buffer) - d + 1] = emitted + 1
    BY <1>3, EmitBuffer
  <2>2. PICK d \in 0..1 :
             /\ Len(buffer') = Len(buffer) - d + 1 /\ Len(buffer) >= d
             /\ \A k \in 1..(Len(buffer) - d) : buffer'[k] = buffer[k + d]
             /\ buffer'[Len(buffer) - d + 1] = e
    BY <2>1
  <2>3. \A k \in 1..Len(buffer') :
          k = Len(buffer) - d + 1 \/ (k \in 1..(Len(buffer) - d) /\ k + d \in 1..Len(buffer))
    BY <1>1, <2>2
  <2>4. \A j \in 1..Len(buffer) : buffer[j] # e
    BY <1>1 DEF NumberedInv, Events
  <2>5. \A j \in 1..Len(buffer) : ids'[buffer[j]] = ids[buffer[j]]
    BY <1>1, <2>1, <2>4
  <2> QED BY <2>2, <2>3, <2>5
<1> QED BY <1>2, <1>3

\* Every step keeps the wire in order.
LEMMA WireStep ==
  ASSUME TypeInv, NumberedInv, WireInv, [Next]_vars
  PROVE  WireInv'
<1>0. ASSUME UNCHANGED <<emitted, ids, buffer, online, wire>>,
             frame'.event = frame.event, Ref' = Ref,
             Connected => Connected', Pushing' => Pushing
      PROVE  WireInv'
  BY <1>0 DEF WireInv, Ascending, Contains
<1>a. /\ ServerType /\ PushType /\ WireType
      /\ emitted \in Nat /\ frame.event \in Nat
      /\ wire \in Seq(Events) /\ Len(wire) \in Nat /\ Len(buffer) \in Nat
      /\ \A i \in 1..Len(wire) : wire[i] \in Nat
      /\ \A i \in 1..Len(buffer) : buffer[i] \in Events /\ buffer[i] \in Nat
  <2>1. /\ ServerType /\ PushType /\ WireType
    BY TypeParts
  <2>2. buffer \in Seq(Events) /\ wire \in Seq(Events)
    BY <2>1 DEF ServerType, WireType
  <2>3. Len(wire) \in Nat /\ Len(buffer) \in Nat
    BY <2>2, LenProperties
  <2>4. /\ \A i \in 1..Len(wire) : wire[i] \in Events
        /\ \A i \in 1..Len(buffer) : buffer[i] \in Events
    BY <2>2, ElementOfSeq
  <2> QED BY <2>1, <2>2, <2>3, <2>4, DeliveryAssumption DEF Events, ServerType, PushType
<1>1. ASSUME Emit PROVE WireInv'
  <2> DEFINE e == emitted + 1
  <2>1. /\ emitted' = e /\ e \in Events /\ e \in Nat /\ emitted < e
        /\ UNCHANGED <<frame, bridge, lastId, online>>
        /\ Ref' = Ref /\ Connected' = Connected /\ Pushing' = Pushing
    BY <1>1, <1>a, EmitBuffer DEF Emit, pushVars, Ref, Connected, Pushing
  <2>2. /\ \A k \in 1..Len(buffer') : \/ \E j \in 1..Len(buffer) : buffer'[k] = buffer[j]
                                      \/ buffer'[k] = e
        /\ \A j \in 1..Len(buffer) : ids'[buffer[j]] = ids[buffer[j]]
    BY <1>1, EmitAdds
  <2>3. wire' = IF online THEN Append(wire, e) ELSE wire
    BY <1>1 DEF Emit
  <2> HIDE DEF e
  <2>4. /\ Append(wire, e) \in Seq(Events) /\ Len(Append(wire, e)) = Len(wire) + 1
        /\ \A i \in 1..Len(wire) : Append(wire, e)[i] = wire[i]
        /\ Append(wire, e)[Len(wire) + 1] = e
        /\ \A y : Contains(Append(wire, e), y) <=> Contains(wire, y) \/ y = e
    BY <1>a, <2>1, AppendContains
  <2>5. CASE online
    <3>1. /\ wire' = Append(wire, e) /\ Len(wire') = Len(wire) + 1
          /\ \A i \in 1..Len(wire') : (i \in 1..Len(wire) /\ wire'[i] = wire[i])
                                      \/ (i = Len(wire) + 1 /\ wire'[i] = e)
          /\ \A y : Contains(wire', y) <=> Contains(wire, y) \/ y = e
      <4>1. wire' = Append(wire, e)
        BY <2>3, <2>5
      <4> QED BY <1>a, <2>4, <4>1
    <3>2. Connected
      BY <2>5 DEF WireInv
    <3>3. \A i \in 1..Len(wire) : wire[i] <= emitted /\ (Pushing => frame.event < wire[i])
      BY DEF WireInv
    <3>4. frame.event <= emitted
      BY DEF WireInv
    <3>5. \A i \in 1..Len(wire') : wire'[i] <= emitted' /\ (Pushing' => frame'.event < wire'[i])
      BY <1>a, <2>1, <3>1, <3>3, <3>4
    <3>6. Ascending(wire')
      <4> SUFFICES ASSUME NEW i \in 1..Len(wire'), NEW j \in 1..Len(wire'), i < j
                   PROVE  wire'[i] < wire'[j]
        BY DEF Ascending
      <4>1. i \in 1..Len(wire) /\ wire'[i] = wire[i]
        BY <1>a, <3>1
      <4>2. CASE j \in 1..Len(wire)
        BY <1>a, <3>1, <4>1, <4>2 DEF WireInv, Ascending
      <4>3. CASE j = Len(wire) + 1
        BY <1>a, <2>1, <3>1, <3>3, <4>1, <4>3
      <4> QED BY <3>1, <4>2, <4>3
    <3>7. ASSUME NEW k \in 1..Len(buffer')
          PROVE  \/ Contains(wire', buffer'[k])
                 \/ /\ Ref' = NoId \/ ids'[buffer'[k]] <= Ref'
                    /\ \A i \in 1..Len(wire') : buffer'[k] < wire'[i]
      <4>1. CASE buffer'[k] = e
        BY <3>1, <4>1
      <4>2. CASE \E j \in 1..Len(buffer) : buffer'[k] = buffer[j]
        <5>1. PICK j \in 1..Len(buffer) : buffer'[k] = buffer[j]
          BY <4>2
        <5>2. /\ ids'[buffer'[k]] = ids[buffer[j]] /\ buffer[j] <= emitted /\ buffer[j] \in Nat
          BY <1>a, <2>2, <5>1 DEF NumberedInv
        <5>3. \/ Contains(wire, buffer[j])
              \/ /\ Ref = NoId \/ ids[buffer[j]] <= Ref
                 /\ \A i \in 1..Len(wire) : buffer[j] < wire[i]
          BY <2>5 DEF WireInv
        <5> QED BY <1>a, <2>1, <3>1, <5>1, <5>2, <5>3
      <4> QED BY <2>2, <4>1, <4>2
    <3> QED BY <1>a, <2>1, <2>5, <3>2, <3>4, <3>5, <3>6, <3>7 DEF WireInv
  <2>6. CASE ~online
    <3>1. wire' = wire /\ ~online'
      BY <2>1, <2>3, <2>6
    <3>2. \A i \in 1..Len(wire) : wire[i] <= emitted /\ (Pushing => frame.event < wire[i])
      BY DEF WireInv
    <3>3. \A k \in 1..Len(buffer') : \A i \in 1..Len(wire') : wire'[i] < buffer'[k]
      <4> SUFFICES ASSUME NEW k \in 1..Len(buffer'), NEW i \in 1..Len(wire)
                   PROVE  wire[i] < buffer'[k]
        BY <3>1
      <4>1. CASE buffer'[k] = e
        BY <1>a, <2>1, <3>2, <4>1
      <4>2. CASE \E j \in 1..Len(buffer) : buffer'[k] = buffer[j]
        BY <2>6, <4>2 DEF WireInv
      <4> QED BY <2>2, <4>1, <4>2
    <3>4. \A i \in 1..Len(wire) : wire[i] <= emitted'
      BY <1>a, <2>1, <3>2
    <3>5. frame.event <= emitted'
      BY <1>a, <2>1 DEF WireInv
    <3> QED BY <2>1, <3>1, <3>2, <3>3, <3>4, <3>5 DEF WireInv
  <2> QED BY <2>5, <2>6
<1>2. ASSUME Drop PROVE WireInv'
  <2>1. /\ ~online' /\ wire' = <<>> /\ UNCHANGED <<emitted, frame, bridge>>
    BY <1>2 DEF Drop, serverVars, pushVars
  <2> QED BY <2>1, EmptyContains DEF WireInv, Ascending, Connected, Pushing
<1>3. ASSUME ServerRestart PROVE WireInv'
  <2>1. /\ ~online' /\ buffer' = <<>> /\ UNCHANGED <<emitted, frame, bridge, wire>>
    BY <1>3 DEF ServerRestart, pushVars
  <2> QED BY <2>1, EmptyContains DEF WireInv, Ascending, Connected, Pushing
<1>4. ASSUME BridgeCrash PROVE WireInv'
  <2>1. /\ ~online' /\ wire' = <<>> /\ UNCHANGED emitted /\ frame'.event = 0 /\ bridge' = "down"
    BY <1>4, AtRest DEF BridgeCrash, serverVars
  <2> QED BY <1>a, <2>1, EmptyContains DEF WireInv, Ascending, Connected, Pushing
<1>5. ASSUME BridgeStart PROVE WireInv'
  <2>1. /\ ~online /\ wire = <<>> /\ UNCHANGED <<online, wire, emitted, frame>>
        /\ bridge' = "starting"
    BY <1>5 DEF BridgeStart, serverVars, WireInv, Connected, Pushing
  <2> QED BY <1>a, <2>1, EmptyContains DEF WireInv, Ascending, Connected, Pushing
<1>6. ASSUME BridgeReady PROVE WireInv'
  BY <1>6, <1>0, <1>a DEF BridgeReady, serverVars, boxVars, Connected, Pushing, Ref, PushType
<1>7. ASSUME Connect PROVE WireInv'
  <2>1. /\ online' /\ UNCHANGED <<emitted, ids, buffer, lastId>>
        /\ frame' = NoFrame /\ bridge' = "reading"
        /\ wire' = IF lastId # NoId THEN ReplayAfter(lastId) ELSE <<>>
    BY <1>7 DEF Connect, serverVars
  <2>2. frame'.event = 0 /\ Ref' = lastId /\ ~Pushing' /\ Connected' /\ lastId \in Nat
    BY <1>a, <2>1, AtRest DEF Ref, Pushing, Connected, PushType
  <2>3. CASE lastId = NoId
    <3>1. wire' = <<>>
      BY <2>1, <2>3
    <3> QED BY <1>a, <2>1, <2>2, <2>3, <3>1, EmptyContains DEF WireInv, Ascending
  <2>4. CASE lastId # NoId
    <3> DEFINE r == ReplayAfter(lastId)
    <3>1. wire' = r
      BY <2>1, <2>4
    <3>2. PICK d \in 0..Len(buffer) :
              /\ Len(r) = Len(buffer) - d
              /\ \A i \in 1..(Len(buffer) - d) : r[i] = buffer[i + d]
              /\ \A i \in 1..d : ids[buffer[i]] <= lastId
              /\ \A i \in (d + 1)..Len(buffer) : ids[buffer[i]] > lastId
      BY <2>2, ReplayIs
    <3> HIDE DEF r
    <3>3. \A i \in 1..Len(r) : i + d \in 1..Len(buffer) /\ r[i] = buffer[i + d]
      BY <1>a, <3>2
    <3>4. Ascending(r)
      <4> SUFFICES ASSUME NEW i \in 1..Len(r), NEW j \in 1..Len(r), i < j PROVE r[i] < r[j]
        BY DEF Ascending
      <4>1. i + d < j + d
        BY <1>a, <3>2
      <4> QED BY <3>3, <4>1 DEF NumberedInv, Ascending
    <3>5. \A i \in 1..Len(r) : r[i] <= emitted
      BY <3>3 DEF NumberedInv
    <3>6. ASSUME NEW k \in 1..Len(buffer)
          PROVE  \/ Contains(r, buffer[k])
                 \/ ids[buffer[k]] <= lastId /\ \A i \in 1..Len(r) : buffer[k] < r[i]
      <4>1. CASE k \in 1..d
        <5>1. \A i \in 1..Len(r) : k < i + d
          BY <1>a, <3>2, <4>1
        <5> QED BY <3>2, <3>3, <4>1, <5>1 DEF NumberedInv, Ascending
      <4>2. CASE k \notin 1..d
        <5>1. k - d \in 1..Len(r) /\ (k - d) + d = k
          BY <1>a, <3>2, <4>2
        <5> QED BY <3>3, <5>1 DEF Contains
      <4> QED BY <4>1, <4>2
    <3> QED BY <1>a, <2>1, <2>2, <3>1, <3>4, <3>5, <3>6 DEF WireInv
  <2> QED BY <2>3, <2>4
<1>8. ASSUME ConnectionLost PROVE WireInv'
  <2>1. /\ ~online /\ wire = <<>> /\ UNCHANGED <<online, wire, emitted, frame>>
        /\ bridge' = "offline"
    BY <1>8 DEF ConnectionLost, serverVars, WireInv, Connected, Pushing
  <2> QED BY <1>a, <2>1, EmptyContains DEF WireInv, Ascending, Connected, Pushing
<1>9. ASSUME Receive PROVE WireInv'
  <2> DEFINE e == Head(wire)
             rest == Tail(wire)
  <2>1. /\ wire # <<>> /\ bridge = "reading" /\ bridge' = "sending" /\ wire' = rest
        /\ UNCHANGED <<emitted, ids, buffer, online, lastId>>
        /\ frame' = [event |-> e, id |-> IF ids[e] # NoId THEN ids[e] ELSE frame.id,
                     todo |-> Peers, failed |-> {}, saving |-> {}]
    BY <1>9 DEF Receive, serverVars
  <2>2. /\ Connected /\ Connected' /\ Pushing' /\ frame'.event = e
        /\ Ref' = IF ids[e] # NoId THEN ids[e] ELSE Ref
    BY <2>1 DEF Connected, Pushing, Ref
  <2>3. /\ e \in Events /\ e = wire[1] /\ rest \in Seq(Events) /\ Len(rest) = Len(wire) - 1
        /\ Len(wire) >= 1
        /\ \A i \in 1..Len(rest) : rest[i] = wire[i + 1]
        /\ \A y : Contains(wire, y) <=> Contains(rest, y) \/ y = e
    BY <1>a, <2>1, TailContains
  <2> HIDE DEF e, rest
  <2>4. /\ \A i \in 1..Len(rest) : i + 1 \in 1..Len(wire) /\ 1 \in 1..Len(wire) /\ 1 < i + 1
        /\ 1 \in 1..Len(wire) /\ e <= emitted /\ e \in Nat /\ e \in 1..emitted
    BY <1>a, <2>3, DeliveryAssumption DEF WireInv, Events
  <2>5. \A i \in 1..Len(rest) : rest[i] <= emitted /\ e < rest[i]
    BY <2>3, <2>4 DEF WireInv, Ascending
  <2>6. Ascending(rest)
    <3> SUFFICES ASSUME NEW i \in 1..Len(rest), NEW j \in 1..Len(rest), i < j
                 PROVE  rest[i] < rest[j]
      BY DEF Ascending
    <3>1. i + 1 < j + 1
      OBVIOUS
    <3> QED BY <2>3, <2>4, <3>1 DEF WireInv, Ascending
  <2>7. ASSUME online, NEW k \in 1..Len(buffer)
        PROVE  \/ Contains(rest, buffer[k])
               \/ /\ Ref' = NoId \/ ids[buffer[k]] <= Ref'
                  /\ \A i \in 1..Len(rest) : buffer[k] < rest[i]
    <3> DEFINE b == buffer[k]
    <3>1. /\ b \in Nat /\ ids[b] \in Nat /\ ids[b] # NoId
          /\ ids[e] \in Nat
          /\ ids[e] # NoId /\ ids[b] > ids[e] => b > e
      BY <1>a, <2>3, <2>4 DEF NumberedInv, ServerType, NoId
    <3>2. \/ Contains(wire, b)
          \/ /\ Ref = NoId \/ ids[b] <= Ref
             /\ \A i \in 1..Len(wire) : b < wire[i]
      BY <2>7 DEF WireInv
    <3> HIDE DEF b
    <3>3. CASE b = e
      BY <2>2, <2>5, <3>1, <3>3 DEF b
    <3>4. CASE Contains(rest, b)
      BY <3>4 DEF b
    <3>5. CASE /\ Ref = NoId \/ ids[b] <= Ref
               /\ \A i \in 1..Len(wire) : b < wire[i]
      <4>1. b < e /\ \A i \in 1..Len(rest) : b < rest[i]
        BY <2>3, <2>4, <3>5
      <4>2. Ref' = NoId \/ ids[b] <= Ref'
        BY <2>2, <2>4, <3>1, <3>5, <4>1
      <4> QED BY <4>1, <4>2 DEF b
    <3> QED BY <2>3, <3>2, <3>3, <3>4, <3>5
  <2>8. ASSUME ~online, NEW k \in 1..Len(buffer), NEW i \in 1..Len(rest)
        PROVE  rest[i] < buffer[k]
    BY <2>3, <2>4, <2>8 DEF WireInv
  <2> QED BY <2>1, <2>2, <2>4, <2>5, <2>6, <2>7, <2>8 DEF WireInv
<1>10. ASSUME NEW p \in Peers, SendFail(p) PROVE WireInv'
  BY <1>10, <1>0, <1>a
     DEF SendFail, Fault, serverVars, boxVars, Connected, Pushing, Ref, PushType
<1>11. ASSUME NEW p \in Peers, Enqueue(p) PROVE WireInv'
  BY <1>11, <1>0, <1>a DEF Enqueue, serverVars, Connected, Pushing, Ref, PushType
<1>12. ASSUME QueueFailed PROVE WireInv'
  BY <1>12, <1>0, <1>a DEF QueueFailed, serverVars, boxVars, Connected, Pushing, Ref, PushType
<1>13. ASSUME EnqueueSaved PROVE WireInv'
  BY <1>13, <1>0, <1>a
     DEF EnqueueSaved, SavingEntries, serverVars, Connected, Pushing, Ref, PushType
<1>14. ASSUME Advance PROVE WireInv'
  BY <1>14, <1>0, <1>a DEF Advance, serverVars, boxVars, Connected, Pushing, Ref, PushType
<1>15. ASSUME NEW p \in Peers, SendOk(p) PROVE WireInv'
  BY <1>15, <1>0, <1>a
     DEF SendOk, Deliver, serverVars, boxVars, Connected, Pushing, Ref, PushType
<1>16. ASSUME DrainStart PROVE WireInv'
  BY <1>16, <1>0 DEF DrainStart, serverVars, pushVars, boxVars, Connected, Pushing, Ref
<1>17. ASSUME DrainFail PROVE WireInv'
  BY <1>17, <1>0 DEF DrainFail, DrainStops, Fault, serverVars, pushVars, Connected, Pushing, Ref
<1>18. ASSUME DrainSaved PROVE WireInv'
  BY <1>18, <1>0 DEF DrainSaved, serverVars, pushVars, Connected, Pushing, Ref
<1>19. ASSUME DrainOk PROVE WireInv'
  BY <1>19, <1>0 DEF DrainOk, Deliver, serverVars, pushVars, Connected, Pushing, Ref
<1>21. ASSUME NEW p \in Peers, SendLost(p) PROVE WireInv'
  BY <1>21, <1>0 DEF SendLost, Fault, Deliver, serverVars, pushVars, Connected, Pushing, Ref
<1>22. ASSUME DrainLost PROVE WireInv'
  BY <1>22, <1>0
     DEF DrainLost, DrainStops, Fault, Deliver, serverVars, pushVars, Connected, Pushing, Ref
<1>20. CASE UNCHANGED vars
  BY <1>20, <1>0 DEF vars, serverVars, pushVars, boxVars, Ref, Connected, Pushing
<1> QED
  BY <1>1, <1>2, <1>3, <1>4, <1>5, <1>6, <1>7, <1>8, <1>9, <1>10, <1>11, <1>12, <1>13, <1>14,
     <1>15, <1>16, <1>17, <1>18, <1>19, <1>20, <1>21, <1>22
     DEF Next, PushStep, DrainStep


(***************************************************************************)
(* Delivered once                                                          *)
(***************************************************************************)
\* The tail of a sequence without repetition has none, and lacks the head.
LEMMA DistinctTail ==
  ASSUME NEW S, NEW s \in Seq(S), s # <<>>, Distinct(s)
  PROVE  Distinct(Tail(s)) /\ ~Contains(Tail(s), Head(s)) /\ Distinct(<<>>)
<1>1. /\ Len(Tail(s)) = Len(s) - 1 /\ Len(s) \in Nat /\ Head(s) = s[1] /\ Len(s) >= 1
      /\ \A i \in 1..Len(Tail(s)) : Tail(s)[i] = s[i + 1]
  BY TailContains
<1>2. \A i \in 1..Len(Tail(s)) : i + 1 \in 1..Len(s) /\ i + 1 # 1 /\ 1 \in 1..Len(s)
  BY <1>1
<1>3. ASSUME NEW i \in 1..Len(Tail(s)), NEW j \in 1..Len(Tail(s)), Tail(s)[i] = Tail(s)[j]
      PROVE  i = j
  <2>1. i + 1 = j + 1
    BY <1>1, <1>2, <1>3 DEF Distinct
  <2> QED BY <2>1
<1>4. ASSUME NEW i \in 1..Len(Tail(s)), Tail(s)[i] = Head(s) PROVE FALSE
  BY <1>1, <1>2, <1>4 DEF Distinct
<1> QED BY <1>3, <1>4, EmptyContains DEF Distinct, Contains

\* A new entry repeats nothing.
LEMMA DistinctAppend ==
  ASSUME NEW S, NEW s \in Seq(S), NEW x \in S, Distinct(s), ~Contains(s, x)
  PROVE  Distinct(Append(s, x))
<1> DEFINE q == Append(s, x)
<1>1. /\ Len(q) = Len(s) + 1 /\ Len(s) \in Nat
      /\ \A i \in 1..Len(s) : q[i] = s[i]
      /\ q[Len(s) + 1] = x
  BY AppendContains, LenProperties
<1> HIDE DEF q
<1>2. \A i \in 1..Len(q) : i \in 1..Len(s) \/ i = Len(s) + 1
  BY <1>1
<1>3. \A i \in 1..Len(s) : q[i] # x
  BY <1>1 DEF Contains
<1> SUFFICES ASSUME NEW i \in 1..Len(q), NEW j \in 1..Len(q), q[i] = q[j] PROVE i = j
  BY DEF Distinct, q
<1>4. CASE i \in 1..Len(s) /\ j \in 1..Len(s)
  BY <1>1, <1>4 DEF Distinct
<1> QED BY <1>1, <1>2, <1>3, <1>4

\* An enqueue puts the new entry at the end of the queue, which is cut to its cap: the
\* others were in it before, and without repetition it stays.
LEMMA EnqueuedBox ==
  ASSUME TypeInv, NEW p \in Peers, Enqueue(p)
  PROVE  /\ <<frame.event, p>> \in Entries
         /\ \A y : Contains(box', y) => Contains(box, y) \/ y = <<frame.event, p>>
         /\ Distinct(box) /\ ~Contains(box, <<frame.event, p>>) => Distinct(box')
<1> DEFINE x == <<frame.event, p>>
           q == Append(box, x)
           new == Distinct(box) /\ ~Contains(box, x)
<1>1. /\ x \in Entries /\ box \in Seq(Entries) /\ Len(box) <= OutboxMax /\ Len(box) \in Nat
      /\ OutboxMax \in Nat
  BY FrameType, LenProperties, DeliveryAssumption DEF Enqueue, Pushing, TypeInv, TypeOK
<1>2. box' = IF Len(q) > OutboxMax THEN Newest(q) ELSE q
  BY DEF Enqueue
<1> HIDE DEF x
<1>3. /\ q \in Seq(Entries) /\ Len(q) = Len(box) + 1
      /\ \A y : Contains(q, y) <=> Contains(box, y) \/ y = x
      /\ new => Distinct(q)
  BY <1>1, AppendContains, DistinctAppend
<1> HIDE DEF q, new
<1>4. CASE Len(q) > OutboxMax
  <2>1. Len(q) = OutboxMax + 1
    BY <1>1, <1>3, <1>4
  <2>2. Newest(q) = Tail(q) /\ q # <<>>
    BY <1>3, <2>1, NewestIsTail
  <2>3. /\ Distinct(q) => Distinct(Tail(q))
        /\ \A y : Contains(Tail(q), y) => Contains(q, y)
    BY <1>3, <2>2, DistinctTail, TailContains
  <2> QED BY <1>1, <1>2, <1>3, <1>4, <2>2, <2>3 DEF x, new
<1>5. CASE ~(Len(q) > OutboxMax)
  BY <1>1, <1>2, <1>3, <1>5 DEF x, new
<1> QED BY <1>4, <1>5

\* Every step keeps the counts and the queues.
LEMMA OnceDeliveredStep ==
  ASSUME TypeInv, KeptInv, OnceDelivered, OnceFrame, faults'["crash"] = 0, [Next]_vars
  PROVE  OnceDelivered'
<1> USE DEF Unsent
<1>0. ASSUME UNCHANGED <<delivered, unsure, box, drain>>,
             bridge' # "down" \/ UNCHANGED <<bridge, file, savedId>>
      PROVE  OnceDelivered'
  BY <1>0 DEF OnceDelivered, Distinct
<1>a. /\ delivered \in [Entries -> 0..2] /\ drain.rest \in Seq(Entries) /\ box \in Seq(Entries)
      /\ drain \in [pc : {"idle", "sending", "saving"}, rest : Seq(Entries)]
  BY DEF TypeInv, TypeOK, Queues
<1>b. Distinct(<<>>)
  BY EmptyContains DEF Distinct
<1>1. ASSUME Emit PROVE OnceDelivered'
  BY <1>1, <1>0 DEF Emit, pushVars, boxVars
<1>2. ASSUME Drop PROVE OnceDelivered'
  BY <1>2, <1>0 DEF Drop, Fault, serverVars, pushVars, boxVars
<1>3. ASSUME ServerRestart PROVE OnceDelivered'
  BY <1>3, <1>0 DEF ServerRestart, Fault, pushVars, boxVars
<1>4. ASSUME BridgeCrash PROVE OnceDelivered'
  <2>1. faults'["crash"] > 0
    BY <1>4, FaultCounts DEF BridgeCrash, FaultKinds, TypeInv
  <2> QED BY <2>1
<1>5. ASSUME BridgeStart PROVE OnceDelivered'
  <2>1. /\ file = <<>> /\ box' = <<>> /\ drain' = NoDrain /\ bridge' = "starting"
        /\ UNCHANGED <<delivered, unsure>>
    BY <1>5 DEF BridgeStart, OnceDelivered
  <2>2. drain'.rest = <<>>
    BY <2>1, AtRest
  <2> QED BY <1>b, <2>1, <2>2, EmptyContains DEF OnceDelivered
<1>6. ASSUME BridgeReady PROVE OnceDelivered'
  BY <1>6, <1>0 DEF BridgeReady, serverVars, boxVars
<1>7. ASSUME Connect PROVE OnceDelivered'
  BY <1>7, <1>0 DEF Connect, serverVars, boxVars
<1>8. ASSUME ConnectionLost PROVE OnceDelivered'
  BY <1>8, <1>0 DEF ConnectionLost, serverVars, boxVars
<1>9. ASSUME Receive PROVE OnceDelivered'
  BY <1>9, <1>0 DEF Receive, serverVars, boxVars
<1>10. ASSUME NEW p \in Peers, SendFail(p) PROVE OnceDelivered'
  BY <1>10, <1>0 DEF SendFail, Fault, serverVars, boxVars
<1>11. ASSUME NEW p \in Peers, Enqueue(p) PROVE OnceDelivered'
  <2> DEFINE x == <<frame.event, p>>
  <2>1. /\ Pushing /\ p \in frame.failed /\ UNCHANGED <<delivered, unsure, drain>>
        /\ bridge' = "saving"
    BY <1>11 DEF Enqueue, Pushing
  <2>2. Unsent(x) /\ ~Contains(box, x) /\ ~Contains(drain.rest, x)
    BY <2>1 DEF OnceFrame, Fresh, Unsent
  <2>3. /\ x \in Entries /\ Distinct(box')
        /\ \A y : Contains(box', y) => Contains(box, y) \/ y = x
    BY <1>11, <2>2, EnqueuedBox DEF OnceDelivered
  <2> QED BY <2>1, <2>2, <2>3 DEF OnceDelivered, Distinct
<1>12. ASSUME QueueFailed PROVE OnceDelivered'
  BY <1>12, <1>0 DEF QueueFailed, serverVars, boxVars
<1>13. ASSUME EnqueueSaved PROVE OnceDelivered'
  BY <1>13, <1>0 DEF EnqueueSaved, SavingEntries, serverVars, boxVars
<1>14. ASSUME Advance PROVE OnceDelivered'
  BY <1>14, <1>0 DEF Advance, serverVars, boxVars
<1>15. ASSUME NEW p \in Peers, SendOk(p) PROVE OnceDelivered'
  <2> DEFINE x == <<frame.event, p>>
  <2>1. /\ Pushing /\ p \in frame.todo /\ Deliver(x)
        /\ UNCHANGED <<unsure, box, drain, bridge, file, savedId>>
        /\ bridge = "sending"
    BY <1>15 DEF SendOk, boxVars, Pushing
  <2>2. x \in Entries
    BY <2>1, FrameType
  <2>3. Unsent(x) /\ ~Contains(box, x) /\ ~Contains(drain.rest, x)
    BY <2>1 DEF OnceFrame, Fresh, Unsent
  <2> HIDE DEF x
  <2>4. /\ delivered[x] = 0 => delivered'[x] = 1
        /\ \A y \in Entries : y # x => delivered'[y] = delivered[y]
    BY <2>1, <2>2, DeliveryCounts DEF TypeInv
  <2> QED BY <2>1, <2>3, <2>4 DEF OnceDelivered, Distinct
<1>16. ASSUME DrainStart PROVE OnceDelivered'
  <2>1. /\ drain.pc = "idle" /\ bridge # "down" /\ drain'.pc = "sending" /\ drain'.rest = box
        /\ UNCHANGED <<delivered, unsure, box, bridge>>
    BY <1>16 DEF DrainStart, pushVars, boxVars
  <2> QED BY <2>1 DEF OnceDelivered, Distinct
<1>17. ASSUME DrainFail PROVE OnceDelivered'
  <2>1. /\ drain.pc = "sending" /\ drain'.rest = <<>> /\ drain'.pc = "saving" /\ box' = drain.rest
        /\ UNCHANGED <<delivered, unsure, bridge, file, savedId>>
    BY <1>17 DEF DrainFail, DrainStops, pushVars
  <2>2. Distinct(box') /\ Distinct(drain'.rest)
    BY <1>b, <2>1 DEF OnceDelivered
  <2> QED BY <2>1, <2>2, EmptyContains DEF OnceDelivered
<1>18. ASSUME DrainSaved PROVE OnceDelivered'
  <2>1. /\ drain.pc = "saving" /\ drain' = NoDrain /\ bridge # "down"
        /\ UNCHANGED <<delivered, unsure, bridge, box>>
    BY <1>18 DEF DrainSaved, pushVars, KeptInv
  <2>2. drain'.rest = <<>> /\ Distinct(box') /\ Distinct(drain'.rest)
    BY <1>b, <2>1, AtRest DEF OnceDelivered
  <2> QED BY <2>1, <2>2, EmptyContains DEF OnceDelivered
<1>19. ASSUME DrainOk PROVE OnceDelivered'
  <2> DEFINE r == drain.rest
             x == Head(r)
  <2>1. /\ r \in Seq(Entries) /\ r # <<>> /\ drain.pc = "sending" /\ Deliver(x)
        /\ UNCHANGED <<unsure, bridge, file, savedId>> /\ bridge # "down"
    BY <1>19, <1>a DEF DrainOk, TypeInv, pushVars, KeptInv
  <2>2. IF Tail(r) # <<>> THEN drain'.rest = Tail(r) /\ drain'.pc = "sending" /\ box' = box
                          ELSE drain'.rest = <<>> /\ drain'.pc = "saving" /\ box' = <<>>
    BY <1>19, <1>a DEF DrainOk
  <2>3. /\ x \in Entries /\ Distinct(r) /\ Distinct(box)
        /\ \A y : Contains(r, y) <=> Contains(Tail(r), y) \/ y = x
    BY <2>1, TailContains DEF OnceDelivered
  <2>4. Distinct(Tail(r)) /\ ~Contains(Tail(r), x)
    BY <2>1, <2>3, DistinctTail
  <2> HIDE DEF x
  <2>5. Unsent(x)
    BY <2>3 DEF OnceDelivered
  <2>6. /\ delivered[x] = 0 => delivered'[x] = 1
        /\ \A y \in Entries : y # x => delivered'[y] = delivered[y]
    BY <2>1, <2>3, DeliveryCounts DEF TypeInv
  <2>7. drain'.rest = Tail(r) /\ Distinct(drain'.rest) /\ Distinct(box')
    BY <1>b, <2>2, <2>3, <2>4
  <2>8. \A y \in Entries : Contains(drain'.rest, y) => Unsent(y)'
    BY <2>1, <2>3, <2>4, <2>6, <2>7 DEF OnceDelivered
  <2>9. \A y \in Entries \ unsure : delivered'[y] <= 1
    BY <2>5, <2>6 DEF OnceDelivered
  <2>10. drain'.pc # "sending" => box' = <<>>
    BY <2>2
  <2> QED BY <2>1, <2>7, <2>8, <2>9, <2>10, EmptyContains DEF OnceDelivered
<1>21. ASSUME NEW p \in Peers, SendLost(p) PROVE OnceDelivered'
  <2> DEFINE x == <<frame.event, p>>
  <2>1. /\ x \in Entries /\ Deliver(x) /\ unsure' = unsure \cup {x}
        /\ UNCHANGED <<box, drain, bridge, file, savedId>>
    BY <1>21, FrameType DEF SendLost, pushVars, Pushing
  <2> HIDE DEF x
  <2>2. \A y \in Entries : y # x => delivered'[y] = delivered[y]
    BY <2>1, DeliveryCounts DEF TypeInv
  <2> QED BY <2>1, <2>2 DEF OnceDelivered, Distinct
<1>22. ASSUME DrainLost PROVE OnceDelivered'
  <2> DEFINE x == Head(drain.rest)
  <2>1. /\ drain.pc = "sending" /\ drain'.rest = <<>> /\ drain'.pc = "saving" /\ box' = drain.rest
        /\ x \in Entries /\ Deliver(x) /\ unsure' = unsure \cup {x}
        /\ UNCHANGED <<bridge, file, savedId>>
    BY <1>22, <1>a, TailContains DEF DrainLost, DrainStops, pushVars, TypeInv
  <2> HIDE DEF x
  <2>2. \A y \in Entries : y # x => delivered'[y] = delivered[y]
    BY <2>1, DeliveryCounts DEF TypeInv
  <2>3. Distinct(box') /\ Distinct(drain'.rest)
    BY <1>b, <2>1 DEF OnceDelivered
  <2> QED BY <2>1, <2>2, <2>3, EmptyContains DEF OnceDelivered
<1>20. CASE UNCHANGED vars
  BY <1>20, <1>0 DEF vars, serverVars, pushVars, boxVars
<1> QED
  BY <1>1, <1>2, <1>3, <1>4, <1>5, <1>6, <1>7, <1>8, <1>9, <1>10, <1>11, <1>12, <1>13, <1>14,
     <1>15, <1>16, <1>17, <1>18, <1>19, <1>20, <1>21, <1>22
     DEF Next, PushStep, DrainStep


\* An entry nobody has tried to send stays so until it is sent or queued.
LEMMA FreshStep ==
  ASSUME TypeInv, OnceDelivered, faults'["crash"] = 0, [Next]_vars,
         NEW y \in Entries, Fresh(y),
         \A p \in Peers : y = <<frame.event, p>> => ~SendOk(p) /\ ~Enqueue(p)
  PROVE  Fresh(y)'
<1> USE DEF Unsent
<1>0. ASSUME UNCHANGED <<delivered, unsure, box, drain>> PROVE Fresh(y)'
  BY <1>0 DEF Fresh
<1>a. /\ drain.rest \in Seq(Entries)
      /\ drain \in [pc : {"idle", "sending", "saving"}, rest : Seq(Entries)]
  BY DEF TypeInv, TypeOK, Queues
<1>1. ASSUME Emit PROVE Fresh(y)'
  BY <1>1, <1>0 DEF Emit, pushVars, boxVars
<1>2. ASSUME Drop PROVE Fresh(y)'
  BY <1>2, <1>0 DEF Drop, Fault, serverVars, pushVars, boxVars
<1>3. ASSUME ServerRestart PROVE Fresh(y)'
  BY <1>3, <1>0 DEF ServerRestart, Fault, pushVars, boxVars
<1>4. ASSUME BridgeCrash PROVE Fresh(y)'
  <2>1. faults'["crash"] > 0
    BY <1>4, FaultCounts DEF BridgeCrash, FaultKinds, TypeInv
  <2> QED BY <2>1
<1>5. ASSUME BridgeStart PROVE Fresh(y)'
  <2>1. /\ file = <<>> /\ box' = <<>> /\ drain' = NoDrain /\ UNCHANGED <<delivered, unsure>>
    BY <1>5 DEF BridgeStart, OnceDelivered
  <2>2. drain'.rest = <<>>
    BY <2>1, AtRest
  <2> QED BY <2>1, <2>2, EmptyContains DEF Fresh
<1>6. ASSUME BridgeReady PROVE Fresh(y)'
  BY <1>6, <1>0 DEF BridgeReady, serverVars, boxVars
<1>7. ASSUME Connect PROVE Fresh(y)'
  BY <1>7, <1>0 DEF Connect, serverVars, boxVars
<1>8. ASSUME ConnectionLost PROVE Fresh(y)'
  BY <1>8, <1>0 DEF ConnectionLost, serverVars, boxVars
<1>9. ASSUME Receive PROVE Fresh(y)'
  BY <1>9, <1>0 DEF Receive, serverVars, boxVars
<1>10. ASSUME NEW p \in Peers, SendFail(p) PROVE Fresh(y)'
  BY <1>10, <1>0 DEF SendFail, Fault, serverVars, boxVars
<1>11. ASSUME NEW p \in Peers, Enqueue(p) PROVE Fresh(y)'
  <2>1. UNCHANGED <<delivered, unsure, drain>> /\ y # <<frame.event, p>>
    BY <1>11 DEF Enqueue
  <2>2. ~Contains(box', y)
    BY <1>11, <2>1, EnqueuedBox DEF Fresh
  <2> QED BY <2>1, <2>2 DEF Fresh
<1>12. ASSUME QueueFailed PROVE Fresh(y)'
  BY <1>12, <1>0 DEF QueueFailed, serverVars, boxVars
<1>13. ASSUME EnqueueSaved PROVE Fresh(y)'
  BY <1>13, <1>0 DEF EnqueueSaved, SavingEntries, serverVars, boxVars
<1>14. ASSUME Advance PROVE Fresh(y)'
  BY <1>14, <1>0 DEF Advance, serverVars, boxVars
<1>15. ASSUME NEW p \in Peers, SendOk(p) PROVE Fresh(y)'
  <2>1. Pushing /\ Deliver(<<frame.event, p>>) /\ UNCHANGED <<unsure, box, drain>>
    BY <1>15 DEF SendOk, boxVars, Pushing
  <2>2. <<frame.event, p>> \in Entries /\ y # <<frame.event, p>>
    BY <1>15, <2>1, FrameType
  <2>3. delivered'[y] = delivered[y]
    BY <2>1, <2>2, DeliveryCounts DEF TypeInv
  <2> QED BY <2>1, <2>3 DEF Fresh
<1>16. ASSUME DrainStart PROVE Fresh(y)'
  <2>1. drain'.rest = box /\ UNCHANGED <<delivered, unsure, box>>
    BY <1>16 DEF DrainStart, boxVars
  <2> QED BY <2>1 DEF Fresh
<1>17. ASSUME DrainFail PROVE Fresh(y)'
  <2>1. drain'.rest = <<>> /\ box' = drain.rest /\ UNCHANGED <<delivered, unsure>>
    BY <1>17 DEF DrainFail, DrainStops
  <2> QED BY <2>1, EmptyContains DEF Fresh
<1>18. ASSUME DrainSaved PROVE Fresh(y)'
  <2>1. drain' = NoDrain /\ UNCHANGED <<delivered, unsure, box>>
    BY <1>18 DEF DrainSaved
  <2> QED BY <2>1, AtRest, EmptyContains DEF Fresh
<1>19. ASSUME DrainOk PROVE Fresh(y)'
  <2> DEFINE r == drain.rest
  <2>1. r \in Seq(Entries) /\ r # <<>> /\ Deliver(Head(r)) /\ unsure' = unsure
    BY <1>19, <1>a DEF DrainOk, TypeInv
  <2>2. IF Tail(r) # <<>> THEN drain'.rest = Tail(r) /\ box' = box
                          ELSE drain'.rest = <<>> /\ box' = <<>>
    BY <1>19, <1>a DEF DrainOk
  <2>3. Head(r) \in Entries /\ \A z : Contains(r, z) <=> Contains(Tail(r), z) \/ z = Head(r)
    BY <2>1, TailContains
  <2>4. y # Head(r)
    BY <2>3 DEF Fresh
  <2>5. delivered'[y] = delivered[y]
    BY <2>1, <2>3, <2>4, DeliveryCounts DEF TypeInv
  <2> QED BY <2>1, <2>2, <2>3, <2>5, EmptyContains DEF Fresh
<1>21. ASSUME NEW p \in Peers, SendLost(p) PROVE Fresh(y)'
  <2> DEFINE x == <<frame.event, p>>
  <2>1. /\ x \in Entries /\ Deliver(x) /\ unsure' = unsure \cup {x} /\ UNCHANGED <<box, drain>>
    BY <1>21, FrameType DEF SendLost, Pushing
  <2> HIDE DEF x
  <2>2. y # x => delivered'[y] = delivered[y]
    BY <2>1, DeliveryCounts DEF TypeInv
  <2> QED BY <2>1, <2>2 DEF Fresh
<1>22. ASSUME DrainLost PROVE Fresh(y)'
  <2> DEFINE x == Head(drain.rest)
  <2>1. /\ drain'.rest = <<>> /\ box' = drain.rest
        /\ x \in Entries /\ Deliver(x) /\ unsure' = unsure \cup {x}
    BY <1>22, <1>a, TailContains DEF DrainLost, DrainStops, TypeInv
  <2> HIDE DEF x
  <2>2. y # x => delivered'[y] = delivered[y]
    BY <2>1, DeliveryCounts DEF TypeInv
  <2> QED BY <2>1, <2>2, EmptyContains DEF Fresh
<1>20. CASE UNCHANGED vars
  BY <1>20, <1>0 DEF vars, serverVars, pushVars, boxVars
<1> QED
  BY <1>1, <1>2, <1>3, <1>4, <1>5, <1>6, <1>7, <1>8, <1>9, <1>10, <1>11, <1>12, <1>13, <1>14,
     <1>15, <1>16, <1>17, <1>18, <1>19, <1>20, <1>21, <1>22
     DEF Next, PushStep, DrainStep

\* No event but the frame's own is touched by a step.
LEMMA TouchedStep ==
  ASSUME TypeInv, OnceDelivered, faults'["crash"] = 0, [Next]_vars,
         NEW e \in Events, ~Touched(e),
         e # frame.event \/ \A p \in Peers : ~SendOk(p) /\ ~Enqueue(p)
  PROVE  ~Touched(e)'
<1> SUFFICES ASSUME NEW q \in Peers PROVE Fresh(<<e, q>>)'
  BY DEF Touched
<1>1. <<e, q>> \in Entries /\ Fresh(<<e, q>>)
  BY DEF Entries, Touched
<1>2. \A p \in Peers : <<e, q>> = <<frame.event, p>> => ~SendOk(p) /\ ~Enqueue(p)
  OBVIOUS
<1> QED BY <1>1, <1>2, FreshStep

\* A step that leaves the frame alone is no send and no enqueue.
LEMMA FrameKept ==
  ASSUME TypeInv, frame' = frame, NEW p \in Peers
  PROVE  ~SendOk(p) /\ ~Enqueue(p)
<1>1. frame \in [event : 0..NumEvents, id : 0..NumEvents,
                 todo : SUBSET Peers, failed : SUBSET Peers, saving : SUBSET Peers]
  BY DEF TypeInv, TypeOK
<1> QED BY <1>1 DEF SendOk, Enqueue

\* Every step keeps the frame's own entries fresh until their turn.
LEMMA OnceFrameStep ==
  ASSUME TypeInv, WireInv, OnceDelivered, OnceFrame, OnceOrder, faults'["crash"] = 0, [Next]_vars
  PROVE  OnceFrame'
<1>a. PushType /\ WireType /\ emitted \in Nat
  BY TypeParts, DeliveryAssumption DEF ServerType
<1>0. ASSUME UNCHANGED <<delivered, unsure, box, drain>> \/ frame' = frame
      PROVE  \A e \in Events : Touched(e)' => Touched(e)
  <2>1. CASE UNCHANGED <<delivered, unsure, box, drain>>
    BY <2>1 DEF Touched, Fresh, Unsent
  <2>2. CASE frame' = frame
    BY <2>2, FrameKept, TouchedStep
  <2> QED BY <1>0, <2>1, <2>2
<1>e. PICK ev : ev = frame.event
  OBVIOUS
<1>d. /\ Pushing => ev \in Events /\ \A q \in Peers : <<ev, q>> \in Entries
      /\ frame.todo \subseteq Peers /\ frame.failed \subseteq Peers
  BY <1>a, <1>e, FrameType DEF PushType
<1>f. Pushing => \A q \in frame.todo \cup frame.failed : Fresh(<<ev, q>>)
  BY <1>e DEF OnceFrame
<1>b. ASSUME UNCHANGED <<frame, bridge, earned>>, emitted' \in Nat, emitted' >= emitted
      PROVE  OnceFrame'
  <2>1. \A e \in Events : Touched(e)' => Touched(e)
    BY <1>0, <1>b
  <2>2. ASSUME Pushing, NEW q \in frame.todo \cup frame.failed PROVE Fresh(<<ev, q>>)'
    BY <1>b, <1>d, <1>f, <2>2, FrameKept, FreshStep
  <2>3. Pushing' = Pushing /\ frame'.event = ev
    BY <1>b, <1>e DEF Pushing
  <2>4. \A e \in Events : Touched(e)' => e <= emitted'
    BY <1>a, <1>b, <2>1 DEF OnceFrame, Events
  <2>5. bridge \in {"sending", "queueing"} /\ ~earned => ~Touched(ev)'
    <3>1. bridge \in {"sending", "queueing"} => Pushing
      BY DEF Pushing
    <3>2. bridge \in {"sending", "queueing"} /\ ~earned => ~Touched(ev)
      BY <1>e DEF OnceFrame
    <3> QED BY <1>d, <2>1, <3>1, <3>2
  <2> QED BY <1>b, <2>2, <2>3, <2>4, <2>5 DEF OnceFrame
<1>c. ASSUME UNCHANGED <<delivered, unsure, box, drain>> \/ frame' = frame, ~Pushing',
             emitted' = emitted
      PROVE  OnceFrame'
  BY <1>0, <1>c DEF OnceFrame, Pushing
<1>1. ASSUME Emit PROVE OnceFrame'
  <2>1. UNCHANGED <<frame, bridge, earned>> /\ emitted' = emitted + 1
    BY <1>1 DEF Emit, pushVars
  <2> QED BY <1>a, <1>b, <2>1
<1>2. ASSUME Drop PROVE OnceFrame'
  BY <1>2, <1>a, <1>b DEF Drop, Fault, serverVars, pushVars, boxVars
<1>3. ASSUME ServerRestart PROVE OnceFrame'
  BY <1>3, <1>a, <1>b DEF ServerRestart, Fault, pushVars, boxVars
<1>4. ASSUME BridgeCrash PROVE OnceFrame'
  <2>1. faults'["crash"] > 0
    BY <1>4, FaultCounts DEF BridgeCrash, FaultKinds, TypeInv
  <2> QED BY <2>1
<1>5. ASSUME BridgeStart PROVE OnceFrame'
  BY <1>5, <1>c DEF BridgeStart, serverVars, Pushing, boxVars
<1>6. ASSUME BridgeReady PROVE OnceFrame'
  BY <1>6, <1>c DEF BridgeReady, serverVars, boxVars, Pushing
<1>7. ASSUME Connect PROVE OnceFrame'
  BY <1>7, <1>c DEF Connect, serverVars, boxVars, Pushing
<1>8. ASSUME ConnectionLost PROVE OnceFrame'
  BY <1>8, <1>c DEF ConnectionLost, serverVars, boxVars, Pushing
<1>9. ASSUME Receive PROVE OnceFrame'
  <2>0. PICK e : e = Head(wire)
    OBVIOUS
  <2>1. /\ wire # <<>> /\ bridge' = "sending"
        /\ UNCHANGED <<emitted, delivered, unsure, box, drain>>
        /\ frame'.event = e /\ frame'.todo = Peers /\ frame'.failed = {}
    BY <1>9, <2>0 DEF Receive, serverVars, boxVars
  <2>2. /\ e \in Events /\ e = wire[1] /\ 1 \in 1..Len(wire)
    <3>1. wire \in Seq(Events) /\ wire # <<>>
      BY <1>a, <2>1 DEF WireType
    <3>2. e \in Events /\ e = wire[1] /\ Len(wire) \in Nat /\ Len(wire) >= 1
      BY <2>0, <3>1, TailContains
    <3> QED BY <3>2
  <2>3. ~Touched(e)
    BY <2>2 DEF OnceOrder, Events
  <2>4. \A f : Touched(f)' <=> Touched(f)
    BY <2>1 DEF Touched, Fresh, Unsent
  <2>5. \A q \in Peers : Fresh(<<e, q>>)'
    BY <2>1, <2>3 DEF Touched, Fresh, Unsent
  <2> QED BY <2>1, <2>3, <2>4, <2>5 DEF OnceFrame
<1>10. ASSUME NEW p \in Peers, SendFail(p) PROVE OnceFrame'
  <2>1. /\ frame' = [frame EXCEPT !.todo = @ \ {p},
                 !.failed = IF Kind[frame.event] = "done" THEN @ \cup {p} ELSE @]
        /\ UNCHANGED <<earned, emitted, bridge>> /\ Pushing /\ p \in frame.todo
        /\ UNCHANGED <<delivered, unsure, box, drain>>
    BY <1>10 DEF SendFail, serverVars, boxVars, Pushing
  <2>2. \A e : Touched(e)' <=> Touched(e)
    BY <2>1 DEF Touched, Fresh, Unsent
  <2>3. /\ frame'.todo = frame.todo \ {p} /\ frame'.event = ev
        /\ frame'.failed = frame.failed \/ frame'.failed = frame.failed \cup {p}
    BY <1>a, <1>e, <2>1 DEF PushType
  <2>4. frame'.todo \cap frame'.failed = {}
    BY <2>1, <2>3 DEF OnceFrame
  <2>5. \A q \in frame'.todo \cup frame'.failed : q \in frame.todo \cup frame.failed
    BY <2>1, <2>3
  <2> QED BY <1>f, <2>1, <2>2, <2>3, <2>4, <2>5 DEF OnceFrame, Fresh, Unsent
<1>11. ASSUME NEW p \in Peers, Enqueue(p) PROVE OnceFrame'
  <2>1. /\ frame' = [frame EXCEPT !.failed = @ \ {p}, !.saving = {p}] /\ bridge' = "saving"
        /\ UNCHANGED <<earned, emitted>> /\ Pushing /\ p \in frame.failed /\ bridge = "queueing"
    BY <1>11 DEF Enqueue, serverVars, Pushing
  <2>2. \A e \in Events : Touched(e)' => Touched(e) \/ e = ev
    BY <1>e, TouchedStep
  <2>3. frame'.todo = frame.todo /\ frame'.event = ev /\ frame'.failed = frame.failed \ {p}
    BY <1>a, <1>e, <2>1 DEF PushType
  <2>4. p \notin frame'.todo \cup frame'.failed /\ frame'.todo \cap frame'.failed = {}
    BY <2>1, <2>3 DEF OnceFrame
  <2>5. ASSUME NEW q \in Peers, q # p, NEW z \in Peers, <<ev, q>> = <<frame.event, z>>
        PROVE  ~SendOk(z) /\ ~Enqueue(z)
    <3>1. z # p
      BY <2>5
    <3> QED BY <1>a, <2>1, <3>1 DEF SendOk, Enqueue, PushType
  <2>6. ASSUME NEW q \in frame'.todo \cup frame'.failed PROVE Fresh(<<ev, q>>)'
    <3>1. q \in Peers /\ q # p /\ Fresh(<<ev, q>>) /\ <<ev, q>> \in Entries
      BY <1>d, <1>f, <2>1, <2>3, <2>4
    <3> QED BY <2>5, <3>1, FreshStep
  <2>7. ev <= emitted
    BY <1>e DEF WireInv
  <2> QED BY <2>1, <2>2, <2>3, <2>4, <2>6, <2>7 DEF OnceFrame
<1>12. ASSUME QueueFailed PROVE OnceFrame'
  <2>1. /\ bridge = "sending" /\ bridge' = "queueing" /\ UNCHANGED <<frame, earned, emitted>>
        /\ Pushing /\ UNCHANGED <<delivered, unsure, box, drain>>
    BY <1>12 DEF QueueFailed, serverVars, boxVars, Pushing
  <2>2. \A e : Touched(e)' <=> Touched(e)
    BY <2>1 DEF Touched, Fresh, Unsent
  <2> QED BY <2>1, <2>2 DEF OnceFrame, Fresh, Unsent
<1>13. ASSUME EnqueueSaved PROVE OnceFrame'
  <2>1. /\ frame' = [frame EXCEPT !.saving = {}] /\ earned' = TRUE /\ UNCHANGED emitted
        /\ Pushing /\ UNCHANGED <<delivered, unsure, box, drain>>
    BY <1>13 DEF EnqueueSaved, serverVars, Pushing
  <2>2. \A e : Touched(e)' <=> Touched(e)
    BY <2>1 DEF Touched, Fresh, Unsent
  <2>3. frame'.todo = frame.todo /\ frame'.failed = frame.failed /\ frame'.event = ev
    BY <1>a, <1>e, <2>1 DEF PushType
  <2> QED BY <1>e, <1>f, <2>1, <2>2, <2>3 DEF OnceFrame, Fresh, Unsent
<1>14. ASSUME Advance PROVE OnceFrame'
  BY <1>14, <1>c DEF Advance, serverVars, boxVars, Pushing
<1>15. ASSUME NEW p \in Peers, SendOk(p) PROVE OnceFrame'
  <2>1. /\ frame' = [frame EXCEPT !.todo = @ \ {p}] /\ bridge = "sending"
        /\ earned' = TRUE /\ UNCHANGED <<emitted, bridge>> /\ Pushing /\ p \in frame.todo
    BY <1>15 DEF SendOk, serverVars, Pushing
  <2>2. \A e \in Events : Touched(e)' => Touched(e) \/ e = ev
    BY <1>e, TouchedStep
  <2>3. frame'.todo = frame.todo \ {p} /\ frame'.event = ev /\ frame'.failed = frame.failed
    BY <1>a, <1>e, <2>1 DEF PushType
  <2>4. p \notin frame'.todo \cup frame'.failed /\ frame'.todo \cap frame'.failed = {}
    BY <2>1, <2>3 DEF OnceFrame
  <2>5. ASSUME NEW q \in Peers, q # p, NEW z \in Peers, <<ev, q>> = <<frame.event, z>>
        PROVE  ~SendOk(z) /\ ~Enqueue(z)
    <3>1. z # p
      BY <2>5
    <3> QED BY <1>a, <2>1, <3>1 DEF SendOk, Enqueue, PushType
  <2>6. ASSUME NEW q \in frame'.todo \cup frame'.failed PROVE Fresh(<<ev, q>>)'
    <3>1. q \in Peers /\ q # p /\ Fresh(<<ev, q>>) /\ <<ev, q>> \in Entries
      BY <1>d, <1>f, <2>1, <2>3, <2>4
    <3> QED BY <2>5, <3>1, FreshStep
  <2>7. ev <= emitted
    BY <1>e DEF WireInv
  <2> QED BY <2>1, <2>2, <2>3, <2>4, <2>6, <2>7 DEF OnceFrame
<1>16. ASSUME DrainStart PROVE OnceFrame'
  BY <1>16, <1>a, <1>b DEF DrainStart, serverVars, pushVars, boxVars
<1>17. ASSUME DrainFail PROVE OnceFrame'
  BY <1>17, <1>a, <1>b DEF DrainFail, DrainStops, Fault, serverVars, pushVars
<1>18. ASSUME DrainSaved PROVE OnceFrame'
  BY <1>18, <1>a, <1>b DEF DrainSaved, serverVars, pushVars
<1>19. ASSUME DrainOk PROVE OnceFrame'
  BY <1>19, <1>a, <1>b DEF DrainOk, Deliver, serverVars, pushVars
<1>21. ASSUME NEW p \in Peers, SendLost(p) PROVE OnceFrame'
  BY <1>21, <1>a, <1>b DEF SendLost, Fault, Deliver, serverVars, pushVars
<1>22. ASSUME DrainLost PROVE OnceFrame'
  BY <1>22, <1>a, <1>b DEF DrainLost, DrainStops, Fault, Deliver, serverVars, pushVars
<1>20. CASE UNCHANGED vars
  BY <1>20, <1>a, <1>b DEF vars, serverVars, pushVars, boxVars
<1> QED
  BY <1>1, <1>2, <1>3, <1>4, <1>5, <1>6, <1>7, <1>8, <1>9, <1>10, <1>11, <1>12, <1>13, <1>14,
     <1>15, <1>16, <1>17, <1>18, <1>19, <1>20, <1>21, <1>22
     DEF Next, PushStep, DrainStep

\* Every step keeps what has been touched before what is still to come.
LEMMA OnceOrderStep ==
  ASSUME TypeInv, NumberedInv, WireInv, OnceDelivered, OnceFrame, OnceOrder,
         faults'["crash"] = 0, [Next]_vars
  PROVE  OnceOrder'
<1>a. /\ PushType /\ WireType /\ ServerType /\ emitted \in Nat
      /\ buffer \in Seq(Events) /\ \A k \in 1..Len(buffer) : buffer[k] \in Events
  BY TypeParts, DeliveryAssumption, ElementOfSeq DEF ServerType
<1>e. PICK ev : ev = frame.event
  OBVIOUS
<1>t. UNCHANGED <<delivered, unsure, box, drain>> \/ frame' = frame
      => \A e \in Events : Touched(e)' => Touched(e)
  <2>1. CASE UNCHANGED <<delivered, unsure, box, drain>>
    BY <2>1 DEF Touched, Fresh, Unsent
  <2>2. CASE frame' = frame
    BY <2>2, FrameKept, TouchedStep
  <2> QED BY <2>1, <2>2
<1>b. ASSUME \A e \in Events : Touched(e)' => Touched(e),
             UNCHANGED <<wire, buffer, ids, lastId>>, frame'.event = frame.event, Ref' = Ref,
             Pushing' = Pushing, Connected' => Connected
      PROVE  OnceOrder'
  BY <1>b DEF OnceOrder, Beyond
<1>1. ASSUME Emit PROVE OnceOrder'
  <2>0. PICK new : new = emitted + 1
    OBVIOUS
  <2>1. /\ new \in Nat /\ emitted < new /\ emitted \in Nat
        /\ UNCHANGED <<frame, bridge, lastId, delivered, unsure, box, drain>>
        /\ wire' = IF online THEN Append(wire, new) ELSE wire
        /\ new \in Events
    BY <1>1, <2>0, EmitBuffer DEF Emit, pushVars, boxVars
  <2>2. Ref' = Ref /\ Connected' = Connected /\ Pushing' = Pushing
    BY <2>1 DEF Ref, Connected, Pushing
  <2>3. /\ \A k \in 1..Len(buffer') : \/ \E j \in 1..Len(buffer) : buffer'[k] = buffer[j]
                                      \/ buffer'[k] = new
        /\ \A j \in 1..Len(buffer) : ids'[buffer[j]] = ids[buffer[j]]
    BY <1>1, <2>0, EmitAdds
  <2>4. ASSUME NEW e \in Nat, e <= emitted, NEW id, Beyond(e, id) PROVE Beyond(e, id)'
    <3> SUFFICES ASSUME id # NoId, NEW k \in 1..Len(buffer'), ids'[buffer'[k]] > id
                 PROVE  e < buffer'[k]
      BY DEF Beyond
    <3>1. CASE buffer'[k] = new
      BY <2>1, <2>4, <3>1
    <3>2. CASE \E j \in 1..Len(buffer) : buffer'[k] = buffer[j]
      BY <2>3, <2>4, <3>2 DEF Beyond
    <3> QED BY <2>3, <3>1, <3>2
  <2>5. \A e \in Events : Touched(e)' => Touched(e) /\ e <= emitted /\ e \in Nat
    BY <1>t, <2>1 DEF OnceFrame, Events
  <2>6. \A i \in 1..Len(wire') : wire'[i] = new \/ (i \in 1..Len(wire) /\ wire'[i] = wire[i])
    <3>1. CASE online
      <4>1. /\ Len(Append(wire, new)) = Len(wire) + 1 /\ Len(wire) \in Nat
            /\ \A i \in 1..Len(wire) : Append(wire, new)[i] = wire[i]
            /\ Append(wire, new)[Len(wire) + 1] = new
        BY <1>a, <2>1, AppendContains, LenProperties DEF WireType
      <4> QED BY <2>1, <3>1, <4>1
    <3>2. CASE ~online
      BY <2>1, <3>2
    <3> QED BY <3>1, <3>2
  <2>7. PICK r, l : r = Ref /\ l = lastId
    OBVIOUS
  <2>8. ASSUME NEW e \in Events, Touched(e)'
        PROVE  /\ \A i \in 1..Len(wire') : e < wire'[i]
               /\ Beyond(e, l)' \/ (Pushing /\ e = ev)
               /\ Connected => Beyond(e, r)'
    <3>1. Touched(e) /\ e <= emitted /\ e \in Nat
      BY <2>5, <2>8
    <3>2. /\ \A i \in 1..Len(wire) : e < wire[i]
          /\ Beyond(e, l) \/ (Pushing /\ e = ev)
          /\ Connected => Beyond(e, r)
      BY <1>e, <2>7, <3>1 DEF OnceOrder
    <3>3. \A i \in 1..Len(wire') : e < wire'[i]
      BY <2>1, <2>6, <3>1, <3>2
    <3> QED BY <2>4, <3>1, <3>2, <3>3
  <2>9. Pushing => Beyond(ev, r)'
    <3>1. ev <= emitted /\ ev \in Nat
      BY <1>a, <1>e, DeliveryAssumption DEF WireInv, PushType
    <3> QED BY <1>e, <2>4, <2>7, <3>1 DEF OnceOrder
  <2>10. Ref' = r /\ lastId' = l /\ frame'.event = ev
    BY <1>e, <2>1, <2>2, <2>7
  <2> QED BY <2>2, <2>8, <2>9, <2>10 DEF OnceOrder, Beyond
<1>2. ASSUME Drop PROVE OnceOrder'
  <2>1. /\ UNCHANGED <<buffer, ids, lastId, frame, bridge, delivered, unsure, box, drain>>
        /\ wire' = <<>>
    BY <1>2 DEF Drop, serverVars, pushVars, boxVars
  <2> QED BY <1>t, <2>1, EmptyContains DEF OnceOrder, Beyond, Ref, Connected, Pushing
<1>3. ASSUME ServerRestart PROVE OnceOrder'
  <2>1. /\ UNCHANGED <<wire, lastId, frame, bridge, delivered, unsure, box, drain>>
        /\ buffer' = <<>>
    BY <1>3 DEF ServerRestart, pushVars, boxVars
  <2> QED BY <1>t, <2>1, EmptyContains DEF OnceOrder, Beyond, Ref, Connected, Pushing
<1>4. ASSUME BridgeCrash PROVE OnceOrder'
  <2>1. faults'["crash"] > 0
    BY <1>4, FaultCounts DEF BridgeCrash, FaultKinds, TypeInv
  <2> QED BY <2>1
<1>5. ASSUME BridgeStart PROVE OnceOrder'
  <2>1. /\ lastId' = NoId /\ wire' = <<>> /\ bridge' = "starting" /\ frame' = frame
    BY <1>5 DEF BridgeStart, OnceDelivered, WireInv, Connected, Pushing
  <2> QED BY <1>t, <2>1, EmptyContains DEF OnceOrder, Beyond, Connected, Pushing
<1>6. ASSUME BridgeReady PROVE OnceOrder'
  BY <1>6, <1>a, <1>b, <1>t
     DEF BridgeReady, serverVars, boxVars, Connected, Pushing, Ref, PushType
<1>7. ASSUME Connect PROVE OnceOrder'
  <2>1. /\ bridge = "offline" /\ bridge' = "reading" /\ frame' = NoFrame
        /\ UNCHANGED <<ids, buffer, lastId, delivered, unsure, box, drain>>
        /\ wire' = IF lastId # NoId THEN ReplayAfter(lastId) ELSE <<>>
    BY <1>7 DEF Connect, serverVars, boxVars
  <2>2. Ref' = lastId /\ ~Pushing /\ ~Pushing' /\ lastId \in Nat
    BY <1>a, <2>1, AtRest DEF Ref, Pushing, PushType
  <2>3. ASSUME NEW e \in Events, Touched(e)'
        PROVE  Beyond(e, lastId) /\ \A i \in 1..Len(wire') : e < wire'[i]
    <3>1. Beyond(e, lastId)
      BY <1>t, <2>1, <2>2, <2>3 DEF OnceOrder
    <3>2. CASE lastId = NoId
      BY <2>1, <3>1, <3>2, EmptyContains
    <3>3. CASE lastId # NoId
      <4> DEFINE r == ReplayAfter(lastId)
      <4>1. PICK d \in 0..Len(buffer) :
                /\ Len(r) = Len(buffer) - d
                /\ \A i \in 1..(Len(buffer) - d) : r[i] = buffer[i + d]
                /\ \A i \in 1..d : ids[buffer[i]] <= lastId
                /\ \A i \in (d + 1)..Len(buffer) : ids[buffer[i]] > lastId
        BY <2>2, ReplayIs
      <4> HIDE DEF r
      <4>2. Len(buffer) \in Nat
        BY <1>a, LenProperties
      <4>3. \A i \in 1..Len(r) : /\ i + d \in 1..Len(buffer) /\ r[i] = buffer[i + d]
                                 /\ ids[buffer[i + d]] > lastId
        <5> SUFFICES ASSUME NEW i \in 1..Len(r)
                     PROVE  /\ i + d \in 1..Len(buffer) /\ r[i] = buffer[i + d]
                            /\ ids[buffer[i + d]] > lastId
          OBVIOUS
        <5>1. i + d \in 1..Len(buffer) /\ i + d \in (d + 1)..Len(buffer)
              /\ i \in 1..(Len(buffer) - d)
          BY <4>1, <4>2
        <5> QED BY <4>1, <5>1
      <4>4. \A i \in 1..Len(r) : e < r[i]
        BY <3>1, <3>3, <4>3 DEF Beyond
      <4> QED BY <2>1, <3>1, <3>3, <4>4 DEF r
    <3> QED BY <3>2, <3>3
  <2>4. \A e, id : Beyond(e, id)' <=> Beyond(e, id)
    BY <2>1 DEF Beyond
  <2> QED BY <2>1, <2>2, <2>3, <2>4 DEF OnceOrder, Beyond
<1>8. ASSUME ConnectionLost PROVE OnceOrder'
  BY <1>8, <1>a, <1>b, <1>t
     DEF ConnectionLost, serverVars, boxVars, Connected, Pushing, Ref, PushType
<1>9. ASSUME Receive PROVE OnceOrder'
  <2>0. PICK e : e = Head(wire)
    OBVIOUS
  <2>1. /\ wire # <<>> /\ bridge = "reading" /\ bridge' = "sending" /\ wire' = Tail(wire)
        /\ UNCHANGED <<emitted, ids, buffer, online, lastId, delivered, unsure, box, drain>>
        /\ frame' = [event |-> e, id |-> IF ids[e] # NoId THEN ids[e] ELSE frame.id,
                     todo |-> Peers, failed |-> {}, saving |-> {}]
    BY <1>9, <2>0 DEF Receive, serverVars, boxVars
  <2>2. /\ Connected /\ ~Pushing /\ frame'.event = e /\ Pushing'
        /\ Ref' = IF ids[e] # NoId THEN ids[e] ELSE Ref
    BY <2>1 DEF Connected, Pushing, Ref
  <2>3. /\ e \in Events /\ e = wire[1] /\ Len(Tail(wire)) = Len(wire) - 1
        /\ Len(wire) >= 1 /\ Len(wire) \in Nat
        /\ \A i \in 1..Len(Tail(wire)) : Tail(wire)[i] = wire[i + 1]
    BY <1>a, <2>0, <2>1, TailContains DEF WireType
  <2>4. /\ 1 \in 1..Len(wire) /\ \A i \in 1..Len(wire') : i + 1 \in 1..Len(wire)
        /\ e \in Nat /\ e \in 1..emitted
    BY <2>1, <2>3 DEF WireInv, Events
  <2>5. \A k \in 1..Len(buffer) : /\ buffer[k] \in Nat /\ ids[buffer[k]] \in Nat
                                  /\ ids[buffer[k]] # NoId
                                  /\ ids[e] # NoId /\ ids[buffer[k]] > ids[e] => buffer[k] > e
    BY <1>a, <2>4 DEF NumberedInv, NoId, Events
  <2>6. Beyond(e, Ref')
    <3> SUFFICES ASSUME Ref' # NoId, NEW k \in 1..Len(buffer), ids[buffer[k]] > Ref'
                 PROVE  e < buffer[k]
      BY DEF Beyond
    <3>1. CASE ids[e] # NoId
      BY <2>2, <2>4, <2>5, <3>1
    <3>2. CASE ids[e] = NoId
      <4>1. Ref' = Ref
        BY <2>2, <3>2
      <4>2. CASE online
        <5>1. Contains(wire, buffer[k])
          BY <1>a, <2>2, <2>5, <4>1, <4>2 DEF WireInv, PushType, Ref
        <5>2. PICK i \in 1..Len(wire) : wire[i] = buffer[k]
          BY <5>1 DEF Contains
        <5>3. i # 1
          BY <2>3, <2>5, <3>2, <5>2
        <5> QED BY <2>3, <2>4, <5>2, <5>3 DEF WireInv, Ascending
      <4>3. CASE ~online
        BY <2>3, <2>4, <4>3 DEF WireInv
      <4> QED BY <4>2, <4>3
    <3> QED BY <3>1, <3>2
  <2>7. ASSUME NEW f \in Events, Touched(f)'
        PROVE  /\ \A i \in 1..Len(wire') : f < wire'[i]
               /\ Beyond(f, lastId) /\ Beyond(f, Ref')
    <3>1. Touched(f)
      BY <1>t, <2>1, <2>7
    <3>2. \A i \in 1..Len(wire') : f < wire'[i]
      BY <2>1, <2>3, <2>4, <3>1 DEF OnceOrder
    <3>3. Beyond(f, lastId) /\ Beyond(f, Ref) /\ f < e /\ f \in Nat
      BY <2>2, <2>3, <2>4, <3>1 DEF OnceOrder, Events
    <3>4. Beyond(f, Ref')
      <4>1. CASE ids[e] # NoId
        <5>1. Beyond(f, ids[e])
          BY <2>4, <2>5, <3>3, <4>1 DEF Beyond
        <5> QED BY <2>2, <4>1, <5>1
      <4>2. CASE ids[e] = NoId
        BY <2>2, <3>3, <4>2
      <4> QED BY <4>1, <4>2
    <3> QED BY <3>2, <3>3, <3>4
  <2> QED BY <2>1, <2>2, <2>6, <2>7 DEF OnceOrder, Beyond
<1>10. ASSUME NEW p \in Peers, SendFail(p) PROVE OnceOrder'
  BY <1>10, <1>a, <1>b, <1>t
     DEF SendFail, Fault, serverVars, boxVars, Connected, Pushing, Ref, PushType
<1>11. ASSUME NEW p \in Peers, Enqueue(p) PROVE OnceOrder'
  <2>1. /\ Pushing /\ UNCHANGED <<wire, lastId, buffer, ids>> /\ bridge' = "saving"
        /\ frame' = [frame EXCEPT !.failed = @ \ {p}, !.saving = {p}]
    BY <1>11 DEF Enqueue, serverVars, Pushing
  <2>2. frame'.event = ev /\ Ref' = Ref /\ Pushing' /\ Connected'
    BY <1>a, <1>e, <2>1 DEF Ref, Connected, Pushing, PushType
  <2>3. \A e \in Events : Touched(e)' => Touched(e) \/ e = ev
    BY <1>e, TouchedStep
  <2>4. /\ \A i \in 1..Len(wire) : ev < wire[i]
        /\ Beyond(ev, Ref)
    BY <1>e, <2>1 DEF WireInv, OnceOrder
  <2>5. \A e, id : Beyond(e, id)' <=> Beyond(e, id)
    BY <2>1 DEF Beyond
  <2>6. \A e \in Events : Touched(e) => /\ \A i \in 1..Len(wire) : e < wire[i]
                                        /\ Beyond(e, lastId) \/ e = ev
                                        /\ Beyond(e, Ref)
    BY <1>e, <2>1 DEF OnceOrder, Connected
  <2> QED BY <2>1, <2>2, <2>3, <2>4, <2>5, <2>6 DEF OnceOrder, Beyond
<1>12. ASSUME QueueFailed PROVE OnceOrder'
  BY <1>12, <1>a, <1>b, <1>t
     DEF QueueFailed, serverVars, boxVars, Connected, Pushing, Ref, PushType
<1>13. ASSUME EnqueueSaved PROVE OnceOrder'
  BY <1>13, <1>a, <1>b, <1>t
     DEF EnqueueSaved, SavingEntries, serverVars, Connected, Pushing, Ref, PushType, boxVars
<1>14. ASSUME Advance PROVE OnceOrder'
  <2>1. /\ bridge = "sending" /\ bridge' = "reading"
        /\ UNCHANGED <<wire, ids, buffer, frame, delivered, unsure, box, drain>>
        /\ lastId' = IF frame.id # NoId /\ earned THEN frame.id ELSE lastId
    BY <1>14 DEF Advance, serverVars, boxVars
  <2>2. Ref' = Ref /\ Pushing /\ Connected /\ ~Pushing'
    BY <2>1 DEF Ref, Pushing, Connected
  <2>3. ASSUME NEW e \in Events, Touched(e)'
        PROVE  /\ \A i \in 1..Len(wire) : e < wire[i]
               /\ Beyond(e, lastId') /\ Beyond(e, Ref)
    <3>1. /\ \A i \in 1..Len(wire) : e < wire[i]
          /\ Beyond(e, lastId) \/ e = frame.event
          /\ Beyond(e, Ref) /\ Touched(e)
      BY <1>t, <2>1, <2>2, <2>3 DEF OnceOrder
    <3>2. CASE frame.id # NoId /\ earned
      BY <2>1, <3>1, <3>2 DEF Ref
    <3>3. CASE frame.id = NoId
      BY <2>1, <3>1, <3>3 DEF Ref
    <3>4. CASE frame.id # NoId /\ ~earned
      <4>1. ~Touched(frame.event)
        BY <2>1, <3>4 DEF OnceFrame
      <4> QED BY <2>1, <3>1, <3>4, <4>1
    <3> QED BY <3>2, <3>3, <3>4
  <2> QED BY <2>1, <2>2, <2>3 DEF OnceOrder, Beyond
<1>15. ASSUME NEW p \in Peers, SendOk(p) PROVE OnceOrder'
  <2>1. /\ Pushing /\ UNCHANGED <<wire, bridge, lastId, buffer, ids>>
        /\ frame' = [frame EXCEPT !.todo = @ \ {p}]
    BY <1>15 DEF SendOk, serverVars, Pushing
  <2>2. frame'.event = ev /\ Ref' = Ref /\ Pushing' /\ Connected'
    BY <1>a, <1>e, <2>1 DEF Ref, Connected, Pushing, PushType
  <2>3. \A e \in Events : Touched(e)' => Touched(e) \/ e = ev
    BY <1>e, TouchedStep
  <2>4. /\ \A i \in 1..Len(wire) : ev < wire[i]
        /\ Beyond(ev, Ref)
    BY <1>e, <2>1 DEF WireInv, OnceOrder
  <2>5. \A e, id : Beyond(e, id)' <=> Beyond(e, id)
    BY <2>1 DEF Beyond
  <2>6. \A e \in Events : Touched(e) => /\ \A i \in 1..Len(wire) : e < wire[i]
                                        /\ Beyond(e, lastId) \/ e = ev
                                        /\ Beyond(e, Ref)
    BY <1>e, <2>1 DEF OnceOrder, Connected
  <2> QED BY <2>1, <2>2, <2>3, <2>4, <2>5, <2>6 DEF OnceOrder, Beyond
<1>16. ASSUME DrainStart PROVE OnceOrder'
  BY <1>16, <1>b, <1>t DEF DrainStart, serverVars, pushVars, boxVars, Connected, Pushing, Ref
<1>17. ASSUME DrainFail PROVE OnceOrder'
  BY <1>17, <1>b, <1>t
     DEF DrainFail, DrainStops, Fault, serverVars, pushVars, Connected, Pushing, Ref
<1>18. ASSUME DrainSaved PROVE OnceOrder'
  BY <1>18, <1>b, <1>t DEF DrainSaved, serverVars, pushVars, Connected, Pushing, Ref
<1>19. ASSUME DrainOk PROVE OnceOrder'
  BY <1>19, <1>b, <1>t DEF DrainOk, Deliver, serverVars, pushVars, Connected, Pushing, Ref
<1>21. ASSUME NEW p \in Peers, SendLost(p) PROVE OnceOrder'
  BY <1>21, <1>b, <1>t DEF SendLost, Fault, Deliver, serverVars, pushVars, Connected, Pushing, Ref
<1>22. ASSUME DrainLost PROVE OnceOrder'
  BY <1>22, <1>b, <1>t
     DEF DrainLost, DrainStops, Fault, Deliver, serverVars, pushVars, Connected, Pushing, Ref
<1>20. CASE UNCHANGED vars
  BY <1>20, <1>b, <1>t DEF vars, serverVars, pushVars, boxVars, Ref, Connected, Pushing
<1> QED
  BY <1>1, <1>2, <1>3, <1>4, <1>5, <1>6, <1>7, <1>8, <1>9, <1>10, <1>11, <1>12, <1>13, <1>14,
     <1>15, <1>16, <1>17, <1>18, <1>19, <1>20, <1>21, <1>22
     DEF Next, PushStep, DrainStep


(***************************************************************************)
(* Last-Event-ID passes nothing                                            *)
(***************************************************************************)
\* A completion that has been sent or queued stays so.
LEMMA HandledKept ==
  ASSUME TypeInv, [Next]_vars, NEW e \in Events, Handled(e)
  PROVE  Handled(e)'
<1>0. ASSUME UNCHANGED delivered, queued \subseteq queued' PROVE Handled(e)'
  BY <1>0 DEF Handled
<1>a. /\ drain.rest \in Seq(Entries) /\ \A p \in Peers : <<e, p>> \in Entries
  BY DEF TypeInv, TypeOK, Queues, Entries
<1>1. ASSUME Emit PROVE Handled(e)'
  BY <1>1, <1>0 DEF Emit, pushVars, boxVars
<1>2. ASSUME Drop PROVE Handled(e)'
  BY <1>2, <1>0 DEF Drop, Fault, serverVars, pushVars, boxVars
<1>3. ASSUME ServerRestart PROVE Handled(e)'
  BY <1>3, <1>0 DEF ServerRestart, Fault, pushVars, boxVars
<1>4. ASSUME BridgeCrash PROVE Handled(e)'
  BY <1>4, <1>0 DEF BridgeCrash, Fault, serverVars, pushVars, boxVars
<1>5. ASSUME BridgeStart PROVE Handled(e)'
  BY <1>5, <1>0 DEF BridgeStart, serverVars, pushVars, boxVars
<1>6. ASSUME BridgeReady PROVE Handled(e)'
  BY <1>6, <1>0 DEF BridgeReady, serverVars, boxVars, pushVars
<1>7. ASSUME Connect PROVE Handled(e)'
  BY <1>7, <1>0 DEF Connect, serverVars, boxVars, pushVars
<1>8. ASSUME ConnectionLost PROVE Handled(e)'
  BY <1>8, <1>0 DEF ConnectionLost, serverVars, boxVars, pushVars
<1>9. ASSUME Receive PROVE Handled(e)'
  BY <1>9, <1>0 DEF Receive, serverVars, boxVars, pushVars
<1>10. ASSUME NEW p \in Peers, SendFail(p) PROVE Handled(e)'
  BY <1>10, <1>0 DEF SendFail, Fault, serverVars, boxVars, pushVars
<1>11. ASSUME NEW p \in Peers, Enqueue(p) PROVE Handled(e)'
  BY <1>11, <1>0 DEF Enqueue, serverVars, pushVars, boxVars
<1>12. ASSUME QueueFailed PROVE Handled(e)'
  BY <1>12, <1>0 DEF QueueFailed, serverVars, boxVars, pushVars
<1>13. ASSUME EnqueueSaved PROVE Handled(e)'
  BY <1>13, <1>0 DEF EnqueueSaved, SavingEntries, serverVars, boxVars
<1>14. ASSUME Advance PROVE Handled(e)'
  BY <1>14, <1>0 DEF Advance, serverVars, boxVars, pushVars
<1>15. ASSUME NEW p \in Peers, SendOk(p) PROVE Handled(e)'
  <2>1. <<frame.event, p>> \in Entries /\ Deliver(<<frame.event, p>>) /\ queued' = queued
    BY <1>15, FrameType DEF SendOk, Pushing, boxVars
  <2> QED BY <1>a, <2>1, DeliveryCounts DEF Handled, TypeInv
<1>16. ASSUME DrainStart PROVE Handled(e)'
  BY <1>16, <1>0 DEF DrainStart, serverVars, pushVars, boxVars
<1>17. ASSUME DrainFail PROVE Handled(e)'
  BY <1>17, <1>0 DEF DrainFail, DrainStops, Fault, serverVars, pushVars, boxVars
<1>18. ASSUME DrainSaved PROVE Handled(e)'
  BY <1>18, <1>0 DEF DrainSaved, serverVars, pushVars, boxVars
<1>19. ASSUME DrainOk PROVE Handled(e)'
  <2>1. drain.rest \in Seq(Entries) /\ drain.rest # <<>>
    BY <1>19, <1>a DEF DrainOk, TypeInv
  <2>2. Head(drain.rest) \in Entries /\ Deliver(Head(drain.rest)) /\ queued' = queued
    BY <1>19, <2>1, TailContains DEF DrainOk
  <2> QED BY <1>a, <2>2, DeliveryCounts DEF Handled, TypeInv
<1>21. ASSUME NEW p \in Peers, SendLost(p) PROVE Handled(e)'
  <2>1. <<frame.event, p>> \in Entries /\ Deliver(<<frame.event, p>>) /\ queued' = queued
    BY <1>21, FrameType DEF SendLost, Pushing
  <2> QED BY <1>a, <2>1, DeliveryCounts DEF Handled, TypeInv
<1>22. ASSUME DrainLost PROVE Handled(e)'
  <2>1. drain.rest \in Seq(Entries) /\ drain.rest # <<>>
    BY <1>22, <1>a DEF DrainLost, DrainStops, TypeInv
  <2>2. Head(drain.rest) \in Entries /\ Deliver(Head(drain.rest)) /\ queued' = queued
    BY <1>22, <2>1, TailContains DEF DrainLost, DrainStops
  <2> QED BY <1>a, <2>2, DeliveryCounts DEF Handled, TypeInv
<1>20. CASE UNCHANGED vars
  BY <1>20, <1>0 DEF vars, serverVars, pushVars, boxVars
<1> QED
  BY <1>1, <1>2, <1>3, <1>4, <1>5, <1>6, <1>7, <1>8, <1>9, <1>10, <1>11, <1>12, <1>13, <1>14,
     <1>15, <1>16, <1>17, <1>18, <1>19, <1>20, <1>21, <1>22
     DEF Next, PushStep, DrainStep

\* Within one life of the server, ids ascend and are below the next.
LEMMA LifeIdsStep ==
  ASSUME TypeInv, NumberedInv, WireInv, LifeIds, faults'["restart"] = 0, [Next]_vars
  PROVE  LifeIds'
<1>a. /\ ServerType /\ PushType /\ WireType /\ NoId = 0
      /\ emitted \in Nat /\ nextId \in Nat /\ nextId > 0 /\ savedId \in Nat /\ frame.id \in Nat
      /\ \A e \in Events : ids[e] \in Nat
  <2>1. ServerType /\ PushType /\ WireType
    BY TypeParts
  <2> QED BY <2>1, DeliveryAssumption DEF ServerType, PushType, NoId
<1>0. ASSUME UNCHANGED <<emitted, ids, nextId>>, savedId' \in {savedId, frame.id},
             frame'.id \in {frame.id, NoId}
      PROVE  LifeIds'
  BY <1>0, <1>a DEF LifeIds
<1>1. ASSUME Emit PROVE LifeIds'
  <2> DEFINE new == emitted + 1
  <2>1. /\ emitted' = new /\ new \in Events /\ new \in Nat /\ UNCHANGED <<savedId, frame>>
        /\ \A f \in 1..new : f \in 1..emitted \/ f = new
        /\ \A f \in 1..emitted : f \in Events /\ f # new /\ f < new
    BY <1>1, <1>a, EmitBuffer, DeliveryAssumption DEF Emit, pushVars, Events
  <2>2. CASE Kind[new] = "progress"
    <3>1. UNCHANGED <<ids, nextId>> /\ ids[new] = NoId
      BY <1>1, <1>a, <2>1, <2>2, EmitBuffer DEF NumberedInv
    <3> HIDE DEF new
    <3>2. \A f \in 1..new : ids[f] < nextId
      BY <1>a, <2>1, <3>1 DEF LifeIds, NoId
    <3>3. \A f, g \in 1..new : ids[f] # NoId /\ ids[g] # NoId /\ f < g => ids[f] < ids[g]
      BY <2>1, <3>1 DEF LifeIds
    <3> QED BY <2>1, <3>1, <3>2, <3>3 DEF LifeIds
  <2>3. CASE Kind[new] # "progress"
    <3>1. ids' = [ids EXCEPT ![new] = nextId] /\ nextId' = nextId + 1
      BY <1>1, <2>3, EmitBuffer
    <3> HIDE DEF new
    <3>2. /\ ids'[new] = nextId
          /\ \A f \in 1..emitted : ids'[f] = ids[f] /\ ids[f] < nextId /\ ids[f] \in Nat
      <4>1. ids \in [Events -> 0..NumEvents] /\ new \in Events
        BY <1>a, <2>1 DEF ServerType
      <4> QED BY <1>a, <2>1, <3>1, <4>1 DEF LifeIds
    <3>3. \A f \in 1..new : ids'[f] < nextId'
      BY <1>a, <2>1, <3>1, <3>2
    <3>4. ASSUME NEW f \in 1..new, NEW g \in 1..new, ids'[f] # NoId, ids'[g] # NoId, f < g
          PROVE  ids'[f] < ids'[g]
      <4>1. f \in 1..emitted
        BY <1>a, <2>1, <3>4
      <4>2. CASE g = new
        BY <3>2, <4>1, <4>2
      <4>3. CASE g \in 1..emitted
        BY <3>2, <3>4, <4>1, <4>3 DEF LifeIds
      <4> QED BY <2>1, <4>2, <4>3
    <3>5. savedId < nextId' /\ frame.id < nextId'
      BY <1>a, <3>1 DEF LifeIds
    <3> QED BY <2>1, <3>3, <3>4, <3>5 DEF LifeIds
  <2> QED BY <2>2, <2>3
<1>2. ASSUME Drop PROVE LifeIds'
  BY <1>2, <1>0, <1>a DEF Drop, Fault, serverVars, pushVars, boxVars
<1>3. ASSUME ServerRestart PROVE LifeIds'
  <2>1. faults'["restart"] > 0
    BY <1>3, FaultCounts DEF ServerRestart, FaultKinds, TypeInv
  <2> QED BY <2>1
<1>4. ASSUME BridgeCrash PROVE LifeIds'
  BY <1>4, <1>0, <1>a, AtRest DEF BridgeCrash, Fault, serverVars
<1>5. ASSUME BridgeStart PROVE LifeIds'
  BY <1>5, <1>0, <1>a DEF BridgeStart, serverVars, pushVars
<1>6. ASSUME BridgeReady PROVE LifeIds'
  BY <1>6, <1>0, <1>a DEF BridgeReady, serverVars, boxVars, pushVars
<1>7. ASSUME Connect PROVE LifeIds'
  BY <1>7, <1>0, <1>a, AtRest DEF Connect, serverVars, boxVars
<1>8. ASSUME ConnectionLost PROVE LifeIds'
  BY <1>8, <1>0, <1>a DEF ConnectionLost, serverVars, boxVars, pushVars
<1>9. ASSUME Receive PROVE LifeIds'
  <2>1. /\ wire # <<>> /\ UNCHANGED <<emitted, ids, nextId, savedId>>
        /\ frame'.id = IF ids[Head(wire)] # NoId THEN ids[Head(wire)] ELSE frame.id
    BY <1>9 DEF Receive, serverVars
  <2>2. Head(wire) \in Events /\ Head(wire) <= emitted
    <3>1. /\ Head(wire) \in Events /\ Head(wire) = wire[1] /\ Len(wire) \in Nat /\ Len(wire) >= 1
      BY <1>a, <2>1, TailContains DEF WireType
    <3> QED BY <3>1 DEF WireInv
  <2>3. Head(wire) \in 1..emitted
    BY <1>a, <2>2 DEF Events
  <2> QED BY <2>1, <2>3 DEF LifeIds
<1>10. ASSUME NEW p \in Peers, SendFail(p) PROVE LifeIds'
  BY <1>10, <1>0, <1>a DEF SendFail, Fault, serverVars, boxVars, PushType
<1>11. ASSUME NEW p \in Peers, Enqueue(p) PROVE LifeIds'
  BY <1>11, <1>0, <1>a DEF Enqueue, serverVars, PushType
<1>12. ASSUME QueueFailed PROVE LifeIds'
  BY <1>12, <1>0, <1>a DEF QueueFailed, serverVars, boxVars, pushVars
<1>13. ASSUME EnqueueSaved PROVE LifeIds'
  BY <1>13, <1>0, <1>a DEF EnqueueSaved, SavingEntries, serverVars, PushType
<1>14. ASSUME Advance PROVE LifeIds'
  BY <1>14, <1>0, <1>a DEF Advance, serverVars, boxVars, pushVars
<1>15. ASSUME NEW p \in Peers, SendOk(p) PROVE LifeIds'
  BY <1>15, <1>0, <1>a DEF SendOk, Deliver, serverVars, boxVars, PushType
<1>16. ASSUME DrainStart PROVE LifeIds'
  BY <1>16, <1>0, <1>a DEF DrainStart, serverVars, pushVars, boxVars
<1>17. ASSUME DrainFail PROVE LifeIds'
  BY <1>17, <1>0, <1>a DEF DrainFail, DrainStops, Fault, serverVars, pushVars
<1>18. ASSUME DrainSaved PROVE LifeIds'
  BY <1>18, <1>0, <1>a DEF DrainSaved, serverVars, pushVars
<1>19. ASSUME DrainOk PROVE LifeIds'
  BY <1>19, <1>0, <1>a DEF DrainOk, Deliver, serverVars, pushVars
<1>21. ASSUME NEW p \in Peers, SendLost(p) PROVE LifeIds'
  BY <1>21, <1>0, <1>a DEF SendLost, Fault, Deliver, serverVars, pushVars
<1>22. ASSUME DrainLost PROVE LifeIds'
  BY <1>22, <1>0, <1>a DEF DrainLost, DrainStops, Fault, Deliver, serverVars, pushVars
<1>20. CASE UNCHANGED vars
  BY <1>20, <1>0 DEF vars, serverVars, pushVars, boxVars
<1> QED
  BY <1>1, <1>2, <1>3, <1>4, <1>5, <1>6, <1>7, <1>8, <1>9, <1>10, <1>11, <1>12, <1>13, <1>14,
     <1>15, <1>16, <1>17, <1>18, <1>19, <1>20, <1>21, <1>22
     DEF Next, PushStep, DrainStep

\* The state file and the memory agree, and nothing is covered before there is an id.
LEMMA LifeSavedStep ==
  ASSUME TypeInv, WireInv, LifeSaved, LifeFrame, faults'["restart"] = 0, [Next]_vars
  PROVE  LifeSaved'
<1>a. PushType
  BY TypeParts
<1> USE DEF LifeSaved
<1>1. ASSUME Emit PROVE LifeSaved'
  <2>1. /\ UNCHANGED <<savedId, lastId, bridge, earned, online>>
        /\ wire' = IF online THEN Append(wire, emitted + 1) ELSE wire
        /\ savedId = NoId => covered' = covered
    BY <1>1 DEF Emit, pushVars
  <2> QED BY <2>1 DEF LifeSaved
<1>2. ASSUME Drop PROVE LifeSaved'
  BY <1>2, <1>a DEF Drop, Fault, serverVars, pushVars, boxVars
<1>3. ASSUME ServerRestart PROVE LifeSaved'
  <2>1. faults'["restart"] > 0
    BY <1>3, FaultCounts DEF ServerRestart, FaultKinds, TypeInv
  <2> QED BY <2>1
<1>4. ASSUME BridgeCrash PROVE LifeSaved'
  BY <1>4, <1>a DEF BridgeCrash, Fault, serverVars, pushVars
<1>5. ASSUME BridgeStart PROVE LifeSaved'
  BY <1>5, <1>a DEF BridgeStart, serverVars, pushVars
<1>6. ASSUME BridgeReady PROVE LifeSaved'
  BY <1>6, <1>a DEF BridgeReady, serverVars, boxVars, pushVars
<1>7. ASSUME Connect PROVE LifeSaved'
  BY <1>7, <1>a DEF Connect, serverVars, boxVars, pushVars
<1>8. ASSUME ConnectionLost PROVE LifeSaved'
  BY <1>8, <1>a DEF ConnectionLost, serverVars, boxVars, pushVars
<1>9. ASSUME Receive PROVE LifeSaved'
  BY <1>9, <1>a DEF Receive, serverVars, boxVars, pushVars
<1>10. ASSUME NEW p \in Peers, SendFail(p) PROVE LifeSaved'
  BY <1>10, <1>a DEF SendFail, Fault, serverVars, boxVars, pushVars
<1>11. ASSUME NEW p \in Peers, Enqueue(p) PROVE LifeSaved'
  BY <1>11, <1>a DEF Enqueue, serverVars, pushVars
<1>12. ASSUME QueueFailed PROVE LifeSaved'
  BY <1>12, <1>a DEF QueueFailed, serverVars, boxVars, pushVars
<1>13. ASSUME EnqueueSaved PROVE LifeSaved'
  BY <1>13, <1>a DEF EnqueueSaved, SavingEntries, serverVars, PushType, LifeFrame
<1>14. ASSUME Advance PROVE LifeSaved'
  BY <1>14, <1>a DEF Advance, serverVars, boxVars, pushVars
<1>15. ASSUME NEW p \in Peers, SendOk(p) PROVE LifeSaved'
  BY <1>15, <1>a DEF SendOk, Deliver, serverVars, boxVars, pushVars
<1>16. ASSUME DrainStart PROVE LifeSaved'
  BY <1>16, <1>a DEF DrainStart, serverVars, pushVars, boxVars
<1>17. ASSUME DrainFail PROVE LifeSaved'
  BY <1>17, <1>a DEF DrainFail, DrainStops, Fault, serverVars, pushVars
<1>18. ASSUME DrainSaved PROVE LifeSaved'
  BY <1>18, <1>a DEF DrainSaved, serverVars, pushVars
<1>19. ASSUME DrainOk PROVE LifeSaved'
  BY <1>19, <1>a DEF DrainOk, Deliver, serverVars, pushVars
<1>21. ASSUME NEW p \in Peers, SendLost(p) PROVE LifeSaved'
  BY <1>21, <1>a DEF SendLost, Fault, Deliver, serverVars, pushVars
<1>22. ASSUME DrainLost PROVE LifeSaved'
  BY <1>22, <1>a DEF DrainLost, DrainStops, Fault, Deliver, serverVars, pushVars
<1>20. CASE UNCHANGED vars
  BY <1>20 DEF vars, serverVars, pushVars, boxVars
<1> QED
  BY <1>1, <1>2, <1>3, <1>4, <1>5, <1>6, <1>7, <1>8, <1>9, <1>10, <1>11, <1>12, <1>13, <1>14,
     <1>15, <1>16, <1>17, <1>18, <1>19, <1>20, <1>21, <1>22
     DEF Next, PushStep, DrainStep

\* A completion's frame has its peers to send to, or it has been handled.
LEMMA LifeFrameStep ==
  ASSUME TypeInv, LifeFrame, faults'["restart"] = 0, [Next]_vars
  PROVE  LifeFrame'
<1>a. PushType
  BY TypeParts
<1>e. PICK ev : ev = frame.event
  OBVIOUS
<1>h. Pushing => ev \in Events /\ (Handled(ev) => Handled(ev)')
  BY <1>e, FrameType, HandledKept
<1>f. Pushing /\ Kind[ev] = "done" =>
        /\ earned => Handled(ev)
        /\ Handled(ev) \/ frame.saving # {} \/ Peers = frame.todo \cup frame.failed
  BY <1>e DEF LifeFrame
<1>i. /\ bridge = "saving" => frame.saving # {}
      /\ bridge \in {"sending", "queueing"} => frame.saving = {}
  BY DEF LifeFrame
<1>b. ASSUME UNCHANGED <<frame, bridge, earned>> PROVE LifeFrame'
  BY <1>b, <1>e, <1>f, <1>h, <1>i DEF LifeFrame, Pushing
<1>1. ASSUME Emit PROVE LifeFrame'
  BY <1>1, <1>b DEF Emit, pushVars, boxVars
<1>2. ASSUME Drop PROVE LifeFrame'
  BY <1>2, <1>b DEF Drop, Fault, serverVars, pushVars, boxVars
<1>3. ASSUME ServerRestart PROVE LifeFrame'
  <2>1. faults'["restart"] > 0
    BY <1>3, FaultCounts DEF ServerRestart, FaultKinds, TypeInv
  <2> QED BY <2>1
<1>4. ASSUME BridgeCrash PROVE LifeFrame'
  BY <1>4 DEF BridgeCrash, Fault, serverVars, LifeFrame, Pushing
<1>5. ASSUME BridgeStart PROVE LifeFrame'
  BY <1>5 DEF BridgeStart, serverVars, LifeFrame, Pushing
<1>6. ASSUME BridgeReady PROVE LifeFrame'
  BY <1>6 DEF BridgeReady, serverVars, boxVars, LifeFrame, Pushing
<1>7. ASSUME Connect PROVE LifeFrame'
  BY <1>7 DEF Connect, serverVars, boxVars, LifeFrame, Pushing
<1>8. ASSUME ConnectionLost PROVE LifeFrame'
  BY <1>8 DEF ConnectionLost, serverVars, boxVars, LifeFrame, Pushing
<1>9. ASSUME Receive PROVE LifeFrame'
  <2>1. bridge' = "sending" /\ frame'.saving = {} /\ frame'.todo = Peers /\ frame'.failed = {}
        /\ ~earned'
    BY <1>9 DEF Receive
  <2> QED BY <2>1 DEF LifeFrame
<1>10. ASSUME NEW p \in Peers, SendFail(p) PROVE LifeFrame'
  <2>1. /\ frame' = [frame EXCEPT !.todo = @ \ {p},
                 !.failed = IF Kind[frame.event] = "done" THEN @ \cup {p} ELSE @]
        /\ UNCHANGED <<earned, bridge>> /\ Pushing /\ p \in frame.todo
    BY <1>10 DEF SendFail, Pushing
  <2>2. /\ frame'.todo = frame.todo \ {p} /\ frame'.event = ev /\ frame'.saving = frame.saving
        /\ Kind[ev] = "done" => frame'.failed = frame.failed \cup {p}
    BY <1>a, <1>e, <2>1 DEF PushType
  <2>3. Kind[ev] = "done" => frame'.todo \cup frame'.failed = frame.todo \cup frame.failed
    BY <2>1, <2>2
  <2> QED BY <1>f, <1>h, <1>i, <2>1, <2>2, <2>3 DEF LifeFrame, Pushing
<1>11. ASSUME NEW p \in Peers, Enqueue(p) PROVE LifeFrame'
  <2>1. /\ frame' = [frame EXCEPT !.failed = @ \ {p}, !.saving = {p}] /\ bridge' = "saving"
        /\ UNCHANGED earned /\ Pushing
    BY <1>11 DEF Enqueue, Pushing
  <2>2. frame'.event = ev /\ frame'.saving = {p} /\ p \in frame'.saving
    BY <1>a, <1>e, <2>1 DEF PushType
  <2> QED BY <1>f, <1>h, <1>i, <2>1, <2>2 DEF LifeFrame
<1>12. ASSUME QueueFailed PROVE LifeFrame'
  <2>1. /\ UNCHANGED <<earned, frame>> /\ bridge = "sending" /\ bridge' = "queueing" /\ Pushing
    BY <1>12 DEF QueueFailed, Pushing
  <2> QED BY <1>e, <1>f, <1>h, <1>i, <2>1 DEF LifeFrame, Pushing
<1>13. ASSUME EnqueueSaved PROVE LifeFrame'
  <2>1. /\ frame' = [frame EXCEPT !.saving = {}] /\ Pushing /\ bridge' \in {"queueing", "sending"}
        /\ bridge = "saving" /\ queued' = queued \cup SavingEntries /\ UNCHANGED delivered
    BY <1>13 DEF EnqueueSaved, Pushing
  <2>2. frame'.event = ev /\ frame'.saving = {}
    BY <1>a, <1>e, <2>1 DEF PushType
  <2>3. PICK p \in frame.saving : TRUE
    BY <2>1 DEF LifeFrame
  <2>4. p \in Peers /\ <<ev, p>> \in queued'
    BY <1>a, <1>e, <2>1, <2>3 DEF PushType, SavingEntries
  <2>5. Handled(ev)'
    BY <2>4 DEF Handled
  <2> QED BY <2>1, <2>2, <2>5 DEF LifeFrame
<1>14. ASSUME Advance PROVE LifeFrame'
  BY <1>14 DEF Advance, serverVars, boxVars, LifeFrame, Pushing
<1>15. ASSUME NEW p \in Peers, SendOk(p) PROVE LifeFrame'
  <2>1. /\ frame' = [frame EXCEPT !.todo = @ \ {p}] /\ UNCHANGED bridge /\ Pushing
        /\ bridge = "sending" /\ Deliver(<<frame.event, p>>)
    BY <1>15 DEF SendOk, Pushing
  <2>2. frame'.event = ev /\ frame'.saving = frame.saving
    BY <1>a, <1>e, <2>1 DEF PushType
  <2>3. <<ev, p>> \in Entries /\ Deliver(<<ev, p>>)
    BY <1>e, <2>1, FrameType
  <2>4. delivered'[<<ev, p>>] > 0
    BY <2>3, DeliveryCounts DEF TypeInv
  <2>5. Handled(ev)'
    BY <2>4 DEF Handled
  <2> QED BY <2>1, <2>2, <2>5 DEF LifeFrame
<1>16. ASSUME DrainStart PROVE LifeFrame'
  BY <1>16, <1>b DEF DrainStart, serverVars, pushVars, boxVars
<1>17. ASSUME DrainFail PROVE LifeFrame'
  BY <1>17, <1>b DEF DrainFail, DrainStops, Fault, serverVars, pushVars
<1>18. ASSUME DrainSaved PROVE LifeFrame'
  BY <1>18, <1>b DEF DrainSaved, serverVars, pushVars
<1>19. ASSUME DrainOk PROVE LifeFrame'
  BY <1>19, <1>b DEF DrainOk, Deliver, serverVars, pushVars
<1>21. ASSUME NEW p \in Peers, SendLost(p) PROVE LifeFrame'
  BY <1>21, <1>b DEF SendLost, Fault, Deliver, serverVars, pushVars
<1>22. ASSUME DrainLost PROVE LifeFrame'
  BY <1>22, <1>b DEF DrainLost, DrainStops, Fault, Deliver, serverVars, pushVars
<1>20. CASE UNCHANGED vars
  BY <1>20, <1>b DEF vars, serverVars, pushVars, boxVars
<1> QED
  BY <1>1, <1>2, <1>3, <1>4, <1>5, <1>6, <1>7, <1>8, <1>9, <1>10, <1>11, <1>12, <1>13, <1>14,
     <1>15, <1>16, <1>17, <1>18, <1>19, <1>20, <1>21, <1>22
     DEF Next, PushStep, DrainStep

\* What the id to resume from has passed is handled.
LEMMA LifeCoveredStep ==
  ASSUME TypeInv, NumberedInv, WireInv, LifeIds, LifeSaved, LifeFrame, LifeCovered,
         faults'["restart"] = 0, [Next]_vars
  PROVE  LifeCovered'
<1>a. /\ ServerType /\ PushType /\ WireType /\ emitted \in Nat
      /\ ids \in [Events -> 0..NumEvents] /\ covered \subseteq Events
  <2>1. ServerType /\ PushType /\ WireType
    BY TypeParts
  <2> QED BY <2>1, DeliveryAssumption DEF ServerType
<1>h. \A e \in covered \ evicted : Handled(e) => Handled(e)'
  BY <1>a, HandledKept
<1>n. \A e \in covered \ evicted :
        /\ e \in Events /\ e \in 1..emitted /\ ids[e] \in Nat
        /\ Kind[e] = "done" => ids[e] # NoId
  <2> SUFFICES ASSUME NEW e \in covered \ evicted
               PROVE  /\ e \in Events /\ e \in 1..emitted /\ ids[e] \in Nat
                      /\ Kind[e] = "done" => ids[e] # NoId
    OBVIOUS
  <2>1. e \in Events /\ e <= emitted /\ ids[e] \in Nat /\ e \in 1..NumEvents
    BY <1>a DEF LifeCovered, Events
  <2>2. e \in 1..emitted /\ ~(e > emitted)
    BY <1>a, <2>1
  <2> QED BY <2>1, <2>2 DEF NumberedInv
<1>b. ASSUME UNCHANGED <<covered, evicted, emitted, ids, buffer, savedId>>,
             frame'.id = frame.id, frame'.event = frame.event,
             Connected' => Connected, Pushing' = Pushing
      PROVE  LifeCovered'
  BY <1>b, <1>h DEF LifeCovered
<1>c. ASSUME UNCHANGED <<covered, evicted, emitted, ids, buffer, savedId>>, ~Connected'
      PROVE  LifeCovered'
  BY <1>c, <1>h DEF LifeCovered
<1>1. ASSUME Emit PROVE LifeCovered'
  <2>0. PICK new : new = emitted + 1
    OBVIOUS
  <2>1. /\ emitted' = new /\ new \in Events /\ emitted < new /\ new \in Nat
        /\ UNCHANGED <<bridge, frame, savedId, delivered, queued>>
        /\ covered' \subseteq covered \cup {new}
    BY <1>1, <1>a, <2>0, EmitBuffer DEF Emit, pushVars, boxVars
  <2>2. Connected' = Connected /\ Pushing' = Pushing /\ \A e : Handled(e)' <=> Handled(e)
    BY <2>1 DEF Connected, Pushing, Handled
  <2>3. /\ evicted \subseteq evicted'
        /\ \A f \in Events : f # new => ids'[f] = ids[f]
        /\ Kind[new] # "progress" => ids'[new] = nextId /\ Contains(buffer', new)
        /\ Kind[new] = "progress" => ids'[new] = NoId
        /\ \A f \in Events : Contains(buffer, f) /\ f \notin evicted' => Contains(buffer', f)
    <3>1. CASE Kind[new] = "progress"
      BY <1>1, <2>0, <2>1, <3>1, EmitBuffer DEF NumberedInv
    <3>2. CASE Kind[new] # "progress"
      <4>1. /\ ids' = [ids EXCEPT ![emitted + 1] = nextId]
            /\ \E d \in 0..1 :
                 /\ Len(buffer') = Len(buffer) - d + 1 /\ Len(buffer) >= d
                 /\ \A k \in 1..(Len(buffer) - d) : buffer'[k] = buffer[k + d]
                 /\ buffer'[Len(buffer) - d + 1] = emitted + 1
                 /\ evicted' = IF d = 1 THEN evicted \cup {buffer[1]} ELSE evicted
        BY <1>1, <2>0, <3>2, EmitBuffer
      <4>2. PICK d \in 0..1 :
                 /\ Len(buffer') = Len(buffer) - d + 1 /\ Len(buffer) >= d
                 /\ \A k \in 1..(Len(buffer) - d) : buffer'[k] = buffer[k + d]
                 /\ buffer'[Len(buffer) - d + 1] = new
                 /\ evicted' = IF d = 1 THEN evicted \cup {buffer[1]} ELSE evicted
        BY <2>0, <4>1
      <4>3. Len(buffer) \in Nat
        BY <1>1, EmitBuffer
      <4>4. Len(buffer) - d + 1 \in 1..Len(buffer')
        BY <4>2, <4>3
      <4>5. Contains(buffer', new)
        BY <4>2, <4>4 DEF Contains
      <4>6. ASSUME NEW f \in Events, Contains(buffer, f), f \notin evicted'
            PROVE  Contains(buffer', f)
        <5>1. PICK k \in 1..Len(buffer) : buffer[k] = f
          BY <4>6 DEF Contains
        <5>2. k - d \in 1..(Len(buffer) - d)
          BY <4>2, <4>3, <4>6, <5>1
        <5>3. k - d \in 1..Len(buffer') /\ buffer'[k - d] = f
          BY <4>2, <4>3, <5>1, <5>2
        <5> QED BY <5>3 DEF Contains
      <4> QED BY <1>a, <2>0, <2>1, <3>2, <4>1, <4>2, <4>5, <4>6
    <3> QED BY <3>1, <3>2
  <2>4. ASSUME NEW e \in covered' \ evicted'
        PROVE  /\ e <= new
               /\ ids'[e] # NoId => Contains(buffer', e)
               /\ Kind[e] = "done" =>
                    /\ ids'[e] <= savedId => Handled(e)
                    /\ Connected /\ ids'[e] <= frame.id =>
                         Handled(e) \/ Peers = {} \/ (Pushing /\ e = frame.event)
    <3>1. CASE e = new
      <4>1. Kind[e] = "done" => ids'[e] = nextId
        BY <2>3, <3>1
      <4>2. savedId < nextId /\ frame.id < nextId
        BY DEF LifeIds
      <4>3. savedId \in Nat /\ frame.id \in Nat /\ nextId \in Nat
        BY <1>a, DeliveryAssumption DEF PushType, ServerType
      <4>4. Kind[e] = "done" => ~(ids'[e] <= savedId) /\ ~(ids'[e] <= frame.id)
        BY <4>1, <4>2, <4>3
      <4> QED BY <2>1, <2>3, <3>1, <4>4
    <3>2. CASE e # new
      <4>1. e \in covered \ evicted /\ e \in Events /\ e \in Nat
        BY <1>a, <2>1, <2>3, <2>4, <3>2 DEF ServerType, Events
      <4>2. /\ e <= emitted
            /\ ids[e] # NoId => Contains(buffer, e)
            /\ Kind[e] = "done" =>
                 /\ ids[e] <= savedId => Handled(e)
                 /\ Connected /\ ids[e] <= frame.id =>
                      Handled(e) \/ Peers = {} \/ (Pushing /\ e = frame.event)
        BY <4>1 DEF LifeCovered
      <4>3. ids'[e] = ids[e] /\ e <= new
        BY <1>a, <2>1, <2>3, <3>2, <4>1, <4>2
      <4> QED BY <2>3, <2>4, <4>1, <4>2, <4>3
    <3> QED BY <3>1, <3>2
  <2> QED BY <2>1, <2>2, <2>4 DEF LifeCovered
<1>2. ASSUME Drop PROVE LifeCovered'
  BY <1>2, <1>b, <1>a DEF Drop, Fault, serverVars, pushVars, boxVars, Connected, Pushing
<1>3. ASSUME ServerRestart PROVE LifeCovered'
  <2>1. faults'["restart"] > 0
    BY <1>3, FaultCounts DEF ServerRestart, FaultKinds, TypeInv
  <2> QED BY <2>1
<1>4. ASSUME BridgeCrash PROVE LifeCovered'
  <2>1. UNCHANGED <<covered, evicted, emitted, ids, buffer, savedId>> /\ bridge' = "down"
    BY <1>4 DEF BridgeCrash, serverVars
  <2> QED BY <1>c, <2>1 DEF Connected, Pushing
<1>5. ASSUME BridgeStart PROVE LifeCovered'
  <2>1. UNCHANGED <<covered, evicted, emitted, ids, buffer, savedId>> /\ bridge' = "starting"
    BY <1>5 DEF BridgeStart, serverVars
  <2> QED BY <1>c, <2>1 DEF Connected, Pushing
<1>6. ASSUME BridgeReady PROVE LifeCovered'
  BY <1>6, <1>b, <1>a DEF BridgeReady, serverVars, boxVars, pushVars, Connected, Pushing
<1>7. ASSUME Connect PROVE LifeCovered'
  <2>1. /\ UNCHANGED <<covered, evicted, emitted, ids, buffer, savedId>> /\ frame'.id = NoId
    BY <1>7, AtRest DEF Connect, serverVars
  <2>2. ASSUME NEW e \in covered \ evicted, Kind[e] = "done" PROVE ~(ids[e] <= frame'.id)
    BY <1>n, <2>1, <2>2 DEF NoId
  <2> QED BY <1>h, <1>n, <2>1, <2>2 DEF LifeCovered
<1>8. ASSUME ConnectionLost PROVE LifeCovered'
  BY <1>8, <1>b, <1>a DEF ConnectionLost, serverVars, boxVars, pushVars, Connected, Pushing
<1>9. ASSUME Receive PROVE LifeCovered'
  <2>0. PICK h : h = Head(wire)
    OBVIOUS
  <2>1. /\ wire # <<>> /\ bridge = "reading" /\ bridge' = "sending"
        /\ UNCHANGED <<covered, evicted, emitted, ids, buffer, savedId, delivered, queued>>
        /\ frame'.event = h /\ frame'.id = IF ids[h] # NoId THEN ids[h] ELSE frame.id
    BY <1>9, <2>0 DEF Receive, serverVars, boxVars
  <2>2. /\ Connected /\ ~Pushing /\ online /\ Pushing' /\ bridge # "down"
    BY <2>1 DEF Connected, Pushing, LifeSaved
  <2>3. h \in Events /\ h = wire[1] /\ Len(wire) \in Nat /\ 1 \in 1..Len(wire)
    <3>1. h \in Events /\ h = wire[1] /\ Len(wire) \in Nat /\ Len(wire) >= 1
      BY <1>a, <2>0, <2>1, TailContains DEF WireType
    <3> QED BY <3>1
  <2>4. h \in 1..emitted
    BY <1>a, <2>3 DEF WireInv, Events
  <2>5. ASSUME NEW e \in covered \ evicted, Kind[e] = "done", ids[e] <= frame'.id
        PROVE  Handled(e) \/ Peers = {} \/ e = h
    <3>1. e \in 1..emitted /\ ids[e] # NoId /\ ids[e] \in Nat /\ Contains(buffer, e)
      BY <1>n, <2>5 DEF LifeCovered
    <3>2. ids[e] <= frame.id => Handled(e) \/ Peers = {}
      BY <2>2, <2>5 DEF LifeCovered
    <3>3. CASE ids[h] = NoId
      BY <2>1, <2>5, <3>2, <3>3
    <3>4. CASE ids[h] # NoId /\ e # h
      <4>1. e < h
        <5>1. ~(h < e)
          BY <1>a, <2>1, <2>3, <2>4, <2>5, <3>1, <3>4 DEF LifeIds
        <5> QED BY <1>a, <2>4, <3>1, <3>4, <5>1
      <4>2. PICK k \in 1..Len(buffer) : buffer[k] = e
        BY <3>1 DEF Contains
      <4>3. ~Contains(wire, e)
        <5> SUFFICES ASSUME NEW i \in 1..Len(wire), wire[i] = e PROVE FALSE
          BY DEF Contains
        <5>1. i # 1
          BY <2>3, <3>4
        <5>2. wire[1] < wire[i]
          BY <2>3, <5>1 DEF WireInv, Ascending
        <5> QED BY <1>a, <2>3, <2>4, <3>1, <4>1, <5>2
      <4>4. Ref = NoId \/ ids[e] <= Ref
        BY <2>2, <4>2, <4>3 DEF WireInv
      <4>5. CASE frame.id # NoId
        BY <3>2, <4>4, <4>5 DEF Ref
      <4>6. CASE frame.id = NoId
        <5>1. Ref = savedId
          BY <2>2, <4>6 DEF Ref, LifeSaved
        <5>2. savedId # NoId
          BY DEF LifeSaved
        <5> QED BY <2>5, <4>4, <5>1, <5>2 DEF LifeCovered
      <4> QED BY <4>5, <4>6
    <3> QED BY <3>3, <3>4
  <2>6. \A e : Handled(e)' <=> Handled(e)
    BY <2>1 DEF Handled
  <2> QED BY <2>1, <2>2, <2>5, <2>6 DEF LifeCovered
<1>10. ASSUME NEW p \in Peers, SendFail(p) PROVE LifeCovered'
  BY <1>10, <1>b, <1>a DEF SendFail, Fault, serverVars, boxVars, PushType, Connected, Pushing
<1>11. ASSUME NEW p \in Peers, Enqueue(p) PROVE LifeCovered'
  BY <1>11, <1>b, <1>a DEF Enqueue, serverVars, PushType, Connected, Pushing
<1>12. ASSUME QueueFailed PROVE LifeCovered'
  BY <1>12, <1>b, <1>a DEF QueueFailed, serverVars, boxVars, pushVars, Connected, Pushing
<1>13. ASSUME EnqueueSaved PROVE LifeCovered'
  BY <1>13, <1>b, <1>a
     DEF EnqueueSaved, SavingEntries, serverVars, PushType, Connected, Pushing
<1>14. ASSUME Advance PROVE LifeCovered'
  <2>1. /\ UNCHANGED <<covered, evicted, emitted, ids, buffer, frame, queued, delivered>>
        /\ bridge = "sending" /\ bridge' = "reading"
        /\ savedId' = IF frame.id # NoId /\ earned THEN frame.id ELSE savedId
        /\ frame.todo = {} /\ frame.failed = {}
    BY <1>14 DEF Advance, serverVars, boxVars
  <2>2. Pushing /\ Connected /\ ~Pushing'
    BY <2>1 DEF Pushing, Connected
  <2>3. ASSUME NEW e \in covered \ evicted, Kind[e] = "done"
        PROVE  /\ ids[e] <= savedId' => Handled(e)
               /\ ids[e] <= frame.id => Handled(e) \/ Peers = {}
    <3>1. /\ ids[e] <= savedId => Handled(e)
          /\ ids[e] <= frame.id => Handled(e) \/ Peers = {} \/ e = frame.event
      BY <2>2, <2>3 DEF LifeCovered
    <3>2. e = frame.event => Handled(e) \/ Peers = {}
      BY <2>1, <2>2, <2>3 DEF LifeFrame
    <3>3. earned => Peers # {}
      BY DEF LifeSaved
    <3> QED BY <2>1, <3>1, <3>2, <3>3
  <2>4. \A e : Handled(e)' <=> Handled(e)
    BY <2>1 DEF Handled
  <2> QED BY <2>1, <2>2, <2>3, <2>4 DEF LifeCovered
<1>15. ASSUME NEW p \in Peers, SendOk(p) PROVE LifeCovered'
  BY <1>15, <1>b, <1>a DEF SendOk, Deliver, serverVars, boxVars, PushType, Connected, Pushing
<1>16. ASSUME DrainStart PROVE LifeCovered'
  BY <1>16, <1>b, <1>a DEF DrainStart, serverVars, pushVars, boxVars, Connected, Pushing
<1>17. ASSUME DrainFail PROVE LifeCovered'
  BY <1>17, <1>b, <1>a DEF DrainFail, DrainStops, Fault, serverVars, pushVars, Connected, Pushing
<1>18. ASSUME DrainSaved PROVE LifeCovered'
  BY <1>18, <1>b, <1>a DEF DrainSaved, serverVars, pushVars, Connected, Pushing
<1>19. ASSUME DrainOk PROVE LifeCovered'
  BY <1>19, <1>b, <1>a DEF DrainOk, Deliver, serverVars, pushVars, Connected, Pushing
<1>21. ASSUME NEW p \in Peers, SendLost(p) PROVE LifeCovered'
  BY <1>21, <1>b, <1>a DEF SendLost, Fault, Deliver, serverVars, pushVars, Connected, Pushing
<1>22. ASSUME DrainLost PROVE LifeCovered'
  BY <1>22, <1>b, <1>a
     DEF DrainLost, DrainStops, Fault, Deliver, serverVars, pushVars, Connected, Pushing
<1>20. CASE UNCHANGED vars
  BY <1>20, <1>b DEF vars, serverVars, pushVars, boxVars, Ref, Connected, Pushing
<1> QED
  BY <1>1, <1>2, <1>3, <1>4, <1>5, <1>6, <1>7, <1>8, <1>9, <1>10, <1>11, <1>12, <1>13, <1>14,
     <1>15, <1>16, <1>17, <1>18, <1>19, <1>20, <1>21, <1>22
     DEF Next, PushStep, DrainStep

\* A fault is counted for good.
LEMMA FaultsCounted ==
  ASSUME TypeInv, [Next]_vars
  PROVE  /\ faults'["crash"] = 0 => faults["crash"] = 0
         /\ faults'["restart"] = 0 => faults["restart"] = 0
<1>1. "crash" \in FaultKinds /\ "restart" \in FaultKinds
  BY DEF FaultKinds
<1>2. ASSUME NEW kind \in FaultKinds, Fault(kind)
      PROVE  /\ faults'["crash"] = 0 => faults["crash"] = 0
             /\ faults'["restart"] = 0 => faults["restart"] = 0
  BY <1>1, <1>2, FaultCounts DEF TypeInv
<1>3. faults' = faults \/ \E kind \in FaultKinds : Fault(kind)
  <2>1. Drop => Fault("drop")
    BY DEF Drop
  <2>2. ServerRestart => Fault("restart")
    BY DEF ServerRestart
  <2>3. BridgeCrash => Fault("crash")
    BY DEF BridgeCrash
  <2>4. \A p \in Peers : SendFail(p) \/ SendLost(p) => Fault("fail")
    BY DEF SendFail, SendLost
  <2>5. DrainFail \/ DrainLost => Fault("fail")
    BY DEF DrainFail, DrainLost, DrainStops
  <2>6. \/ Drop \/ ServerRestart \/ BridgeCrash \/ DrainFail \/ DrainLost
        \/ \E p \in Peers : SendFail(p) \/ SendLost(p)
        \/ faults' = faults
    BY DEF Next, vars, PushStep, DrainStep, Emit, BridgeStart, BridgeReady, Connect,
           ConnectionLost, Receive, Enqueue, QueueFailed, EnqueueSaved, Advance, SendOk,
           DrainStart, DrainSaved, DrainOk
  <2> QED BY <2>1, <2>2, <2>3, <2>4, <2>5, <2>6 DEF FaultKinds
<1> QED BY <1>2, <1>3

(***************************************************************************)
(* The theorems                                                            *)
(***************************************************************************)
DeliveryInv == TypeInv /\ KeptInv /\ NumberedInv /\ WireInv /\ OnceInv /\ LifeInv

\* At the start nothing has been emitted.
LEMMA DeliveryInit == Init => DeliveryInv
<1> SUFFICES ASSUME Init PROVE DeliveryInv
  OBVIOUS
<1> USE DeliveryAssumption, AtRest, EmptyContains DEF Init
<1>1. TypeInv
  <2>1. faults \in [FaultKinds -> 0..MaxFaults] /\ delivered \in [Entries -> 0..2]
        /\ ids \in [Events -> 0..NumEvents]
    BY DEF NoId
  <2>2. PushType
    BY DEF PushType, Pushing, NoId
  <2>3. ServerType
    BY <2>1 DEF ServerType
  <2>4. BoxType
    BY DEF BoxType
  <2>5. DrainType
    BY DEF DrainType
  <2>6. WireType /\ CountType
    BY <2>1 DEF WireType, CountType
  <2> QED BY <2>2, <2>3, <2>4, <2>5, <2>6, TypeParts
<1>2. KeptInv
  BY DEF KeptInv, Held
<1>3. NumberedInv
  BY DEF NumberedInv, Ascending, NoId, Events
<1>4. WireInv
  BY DEF WireInv, Ascending, Connected, Pushing
<1>5. OnceInv
  <2>1. \A e \in Events : ~Touched(e)
    BY DEF Touched, Fresh, Unsent, Entries
  <2>2. OnceDelivered
    BY DEF OnceDelivered, Distinct
  <2>3. OnceFrame /\ OnceOrder
    BY <2>1 DEF OnceFrame, OnceOrder, Pushing
  <2> QED BY <2>2, <2>3 DEF OnceInv
<1>6. LifeInv
  <2>1. LifeIds
    BY DEF LifeIds, NoId
  <2>2. LifeSaved
    BY DEF LifeSaved
  <2>3. LifeFrame /\ LifeCovered
    BY DEF LifeFrame, LifeCovered, Pushing
  <2> QED BY <2>1, <2>2, <2>3 DEF LifeInv
<1> QED BY <1>1, <1>2, <1>3, <1>4, <1>5, <1>6 DEF DeliveryInv

\* Every step keeps the whole invariant.
LEMMA DeliveryStep ==
  ASSUME DeliveryInv, [Next]_vars
  PROVE  DeliveryInv'
<1> USE DEF DeliveryInv
<1>1. TypeInv' /\ KeptInv' /\ NumberedInv' /\ WireInv'
  BY TypeStep, KeptStep, NumberedStep, WireStep
<1>2. OnceInv'
  <2>1. ASSUME faults'["crash"] = 0 PROVE OnceDelivered /\ OnceFrame /\ OnceOrder
    BY <2>1, FaultsCounted DEF OnceInv
  <2>2. ASSUME faults'["crash"] = 0 PROVE OnceDelivered' /\ OnceFrame' /\ OnceOrder'
    BY <2>1, <2>2, OnceDeliveredStep, OnceFrameStep, OnceOrderStep
  <2> QED BY <2>2 DEF OnceInv
<1>3. LifeInv'
  <2>1. ASSUME faults'["restart"] = 0
        PROVE  LifeIds /\ LifeSaved /\ LifeFrame /\ LifeCovered
    BY <2>1, FaultsCounted DEF LifeInv
  <2>2. ASSUME faults'["restart"] = 0
        PROVE  LifeIds' /\ LifeSaved' /\ LifeFrame' /\ LifeCovered'
    BY <2>1, <2>2, LifeIdsStep, LifeSavedStep, LifeFrameStep, LifeCoveredStep
  <2> QED BY <2>2 DEF LifeInv
<1> QED BY <1>1, <1>2, <1>3

\* In every reachable state the invariant holds.
LEMMA DeliveryInvariant == Spec => []DeliveryInv
<1> QED BY DeliveryInit, DeliveryStep, PTL DEF Spec

\* Every variable keeps to its domain, the replay buffer and the outbox to their caps.
THEOREM DeliveryTypeCorrect == Spec => []TypeOK
<1>1. DeliveryInv => TypeOK
  BY DEF DeliveryInv, TypeInv
<1> QED BY <1>1, DeliveryInvariant, PTL

\* A completion whose enqueue has returned stays on file until its peer has it.
THEOREM QueuedStaysOnFile == Spec => []QueuedIsKept
<1>1. DeliveryInv => QueuedIsKept
  BY KeptIsKept DEF DeliveryInv
<1> QED BY <1>1, DeliveryInvariant, PTL

\* While the bridge lives no peer gets a notice twice, but one that arrived with its answer
\* lost.
THEOREM NoticesArriveOnce == Spec => []DeliveredOnce
<1>1. DeliveryInv => DeliveredOnce
  BY DEF DeliveryInv, OnceInv, OnceDelivered, DeliveredOnce
<1> QED BY <1>1, DeliveryInvariant, PTL

\* Within one life of the server, a completion the pusher's stream covered, still in the
\* buffer, that the id to resume from has passed, is had by some peer or was queued for one.
THEOREM ResumeSkipsNothing == Spec => []IdPassesNothing
<1>1. DeliveryInv => IdPassesNothing
  <2> SUFFICES ASSUME DeliveryInv, faults["restart"] = 0, NEW e \in covered \ evicted,
                      Kind[e] = "done", ids[e] <= lastId
               PROVE  Handled(e)
    BY DEF IdPassesNothing
  <2>1. LifeSaved /\ LifeCovered /\ TypeInv /\ NumberedInv
    BY DEF DeliveryInv, LifeInv
  <2>2. e \in Events /\ e <= emitted /\ emitted \in Nat /\ e \in Nat /\ ids[e] \in Nat
    BY <2>1, DeliveryAssumption DEF TypeInv, TypeOK, LifeCovered, Events
  <2>3. ids[e] # NoId
    BY <2>1, <2>2 DEF NumberedInv
  <2>4. lastId = savedId
    BY <2>1, <2>2, <2>3 DEF LifeSaved, NoId
  <2> QED BY <2>1, <2>4 DEF LifeCovered
<1> QED BY <1>1, DeliveryInvariant, PTL
===================================================================================
