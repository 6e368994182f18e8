----------------------------- MODULE UserProfile -----------------------------
(***************************************************************************)
(* The user's profile and its history (memory/src/profile.ts), written by  *)
(* the agent's tools, by what is extracted from each message and by        *)
(* compaction (services/profile-ingestor.ts).  The entries are one row,    *)
(* read and written back whole; the events follow one by one, in no        *)
(* transaction.  The store's calls for a user run one after the other.     *)
(*                                                                         *)
(* A value stands for an entry's value and category; what the language     *)
(* model extracts, or makes of the profile, is any choice of facts.        *)
(***************************************************************************)
EXTENDS Naturals, Sequences, FiniteSets

CONSTANTS
  ProfileKeys, ProfileValues,
  Writers,          \* tool calls and the ingestor
  MaxWrites,        \* calls of the store: bounds a behaviour
  MaxProfileFaults,
  CompactMin        \* COMPACT_MIN_ENTRIES; also stands for COMPACT_TARGET

Absent == "absent"
Profiles == [ProfileKeys -> ProfileValues \cup {Absent}]
Nobody == [k \in ProfileKeys |-> Absent]
Count(f) == Cardinality({k \in ProfileKeys : f[k] # Absent})

ASSUME ProfileAssumption ==
  /\ Absent \notin ProfileValues
  /\ MaxWrites \in Nat /\ MaxProfileFaults \in Nat /\ CompactMin \in Nat

VARIABLES
  entries,        \* the row
  events,         \* key -> its events, oldest first, each with its old and new value
  queue,          \* #userQueues: the calls in turn
  writer,         \* writer -> where its call is
  calls,          \* writer -> its calls of the store, the first one under way
  seen,           \* writer -> the row its call has read
  owed,           \* writer -> the keys whose event it has yet to insert
  writes, profileFaults,
  unrecorded,     \* keys changed without an event, for an error or a restart (history)
  before,         \* key -> its value before its last change since the last clear (history)
  misrolled       \* a rollback wrote something else (history)

profileVars == <<entries, events, queue, writer, calls, seen, owed, writes, profileFaults,
                 unrecorded, before, misrolled>>

Facts == [kind : {"set"}, key : ProfileKeys, value : ProfileValues]
         \cup [kind : {"remove", "rollback"}, key : ProfileKeys, value : {Absent}]
         \cup [kind : {"restore"}, key : ProfileKeys, at : 0..MaxWrites]
Clear == [kind |-> "clear"]

ProfileInit ==
  /\ entries = Nobody /\ before = Nobody
  /\ events = [k \in ProfileKeys |-> <<>>]
  /\ queue = <<>>
  /\ writer = [w \in Writers |-> "idle"] /\ calls = [w \in Writers |-> <<>>]
  /\ seen = [w \in Writers |-> Nobody] /\ owed = [w \in Writers |-> {}]
  /\ writes = 0 /\ profileFaults = 0 /\ unrecorded = {} /\ misrolled = FALSE

\* w calls the store: #runExclusive queues it.
StoreCalls(w, list) ==
  /\ writes + Len(list) <= MaxWrites
  /\ writes' = writes + Len(list)
  /\ calls' = [calls EXCEPT ![w] = list]
  /\ queue' = Append(queue, w)
  /\ writer' = [writer EXCEPT ![w] = "queued"]
  /\ UNCHANGED <<entries, events, seen, owed, profileFaults, unrecorded, before, misrolled>>

\* profile.update, .forget, .rollback and clear.  "restore" is the rollback to an event that
\* the caller has seen in the history and names, by its place in it; 0 is an id of none.
\* (After a clear another event may have come to the place, where the code's id is gone.)
ToolCall(w, call) ==
  /\ writer[w] = "idle"
  /\ call.kind = "restore" => call.at <= Len(events[call.key])
  /\ StoreCalls(w, <<call>>)

\* ingest: the facts of a message are applied one after the other.
IngestCall(w, fact1, fact2) ==
  /\ writer[w] = "idle" /\ {fact1.kind, fact2.kind} \subseteq {"set", "remove"}
  /\ StoreCalls(w, <<fact1, fact2>>)

\* compactProfile has read the profile and asked the model; what it answers
\* replaces everything, also what was written meanwhile.
CompactBegins(w) ==
  /\ writer[w] = "idle" /\ Count(entries) > CompactMin
  /\ writer' = [writer EXCEPT ![w] = "compacting"]
  /\ UNCHANGED <<entries, events, queue, calls, seen, owed, writes, profileFaults, unrecorded,
                 before, misrolled>>

CompactAnswers(w, facts) ==
  /\ writer[w] = "compacting"
  /\ Count(facts) \in 1..CompactMin
  /\ StoreCalls(w, <<[kind |-> "replace", with |-> facts]>>)

(***************************************************************************)
(* A call of the store                                                     *)
(***************************************************************************)
\* Mutant: nobody waits.
HasTurn_Always(w) == TRUE

HasTurn(w) == Head(queue) = w

ReadsRow(w) ==
  /\ writer[w] = "queued" /\ HasTurn(w)
  /\ seen' = [seen EXCEPT ![w] = entries]
  /\ writer' = [writer EXCEPT ![w] = "read"]
  /\ UNCHANGED <<entries, events, queue, calls, owed, writes, profileFaults, unrecorded, before,
                 misrolled>>

\* listHistory of a key, the oldest event first.
ListHistory(k) == events[k]

\* Mutant: the state the last event left, not the one before.
RollbackTarget_Last(k, old) ==
  IF events[k] = <<>> THEN old ELSE events[k][Len(events[k])].new

\* resolveRollbackTarget with no event named: what the last but one left.
RollbackTarget(k, old) ==
  LET history == ListHistory(k)
      n == Len(history)
  IN  CASE n >= 2 -> history[n - 1].new
        [] n = 1 /\ history[1].old = Absent -> Absent
        [] OTHER -> old

\* resolveRollbackTarget with an event named: what that event left.
RestoreTarget(k, at, old) ==
  IF at \in DOMAIN ListHistory(k) THEN ListHistory(k)[at].new ELSE old

\* rollbackEntry: the entry is set or removed, or the row is left as it is.
RolledBack(k, row) == [row EXCEPT ![k] = RollbackTarget(k, @)]
Restored(k, at, row) == [row EXCEPT ![k] = RestoreTarget(k, at, @)]

\* The row a call writes back.
Result(call, row) ==
  CASE call.kind = "set"      -> [row EXCEPT ![call.key] = call.value]
    [] call.kind = "remove"   -> [row EXCEPT ![call.key] = Absent]
    [] call.kind = "rollback" -> RolledBack(call.key, row)
    [] call.kind = "restore"  -> Restored(call.key, call.at, row)
    [] call.kind = "replace"  -> call.with
    [] OTHER                  -> Nobody

\* The end of a call, which was the first of the queue; failed drops what w meant to do
\* next.
Leaves(w, failed) ==
  LET rest == IF failed THEN <<>> ELSE Tail(calls[w])
      others == Tail(queue)
  IN  /\ calls' = [calls EXCEPT ![w] = rest]
      /\ queue' = IF rest = <<>> THEN others ELSE Append(others, w)
      /\ writer' = [writer EXCEPT ![w] = IF rest = <<>> THEN "idle" ELSE "queued"]

\* clear deletes the events first.
ClearsEvents(w) ==
  /\ writer[w] = "read" /\ Head(calls[w]).kind = "clear"
  /\ events' = [k \in ProfileKeys |-> <<>>]
  /\ before' = entries
  /\ writer' = [writer EXCEPT ![w] = "clearing"]
  /\ UNCHANGED <<entries, queue, calls, seen, owed, writes, profileFaults, unrecorded, misrolled>>

ClearsRow(w) ==
  /\ writer[w] = "clearing"
  /\ entries' = Nobody /\ before' = Nobody
  /\ unrecorded' = {}
  /\ Leaves(w, FALSE)
  /\ UNCHANGED <<events, seen, owed, writes, profileFaults, misrolled>>

WritesRow(w) ==
  LET call == Head(calls[w])
      row == Result(call, seen[w])
      changed == {k \in ProfileKeys : row[k] # seen[w][k]}
  IN  /\ writer[w] = "read" /\ call.kind # "clear"
      /\ entries' = row
      /\ before' = [k \in ProfileKeys |-> IF row[k] # entries[k] THEN entries[k] ELSE before[k]]
      /\ misrolled' = (misrolled \/ /\ call.kind = "rollback" /\ call.key \notin unrecorded
                                    /\ row[call.key] # before[call.key])
      /\ IF changed = {}
         THEN Leaves(w, FALSE) /\ UNCHANGED owed
         ELSE /\ owed' = [owed EXCEPT ![w] = changed]
              /\ writer' = [writer EXCEPT ![w] = "recording"]
              /\ UNCHANGED <<calls, queue>>
      /\ UNCHANGED <<events, seen, writes, profileFaults, unrecorded>>

\* #record: one event; the order over the keys does not matter.
Records(w, k) ==
  /\ writer[w] = "recording" /\ k \in owed[w]
  /\ events' = [events EXCEPT ![k] =
       Append(@, [old |-> seen[w][k], new |-> Result(Head(calls[w]), seen[w])[k]])]
  /\ owed' = [owed EXCEPT ![w] = @ \ {k}]
  /\ IF owed[w] = {k} THEN Leaves(w, FALSE) ELSE UNCHANGED <<calls, queue, writer>>
  /\ UNCHANGED <<entries, seen, writes, profileFaults, unrecorded, before, misrolled>>

\* What the row has and the events will not tell.
Untold(w) == owed[w] \cup IF writer[w] = "clearing" THEN {k \in ProfileKeys : entries[k] # Absent}
                          ELSE {}

\* A statement fails: the finally passes the turn on, nothing is taken back.
CallFails(w) ==
  /\ writer[w] \in {"queued", "read", "clearing", "recording"} /\ HasTurn(w)
  /\ profileFaults < MaxProfileFaults
  /\ profileFaults' = profileFaults + 1
  /\ unrecorded' = unrecorded \cup Untold(w)
  /\ owed' = [owed EXCEPT ![w] = {}]
  /\ Leaves(w, TRUE)
  /\ UNCHANGED <<entries, events, seen, writes, before, misrolled>>

\* The server restarts.
ProfileRestart ==
  /\ queue # <<>> /\ profileFaults < MaxProfileFaults
  /\ profileFaults' = profileFaults + 1
  /\ unrecorded' = unrecorded \cup UNION {Untold(w) : w \in Writers}
  /\ owed' = [w \in Writers |-> {}]
  /\ queue' = <<>>
  /\ writer' = [w \in Writers |-> "idle"] /\ calls' = [w \in Writers |-> <<>>]
  /\ UNCHANGED <<entries, events, seen, writes, before, misrolled>>

ProfileNext ==
  \/ \E w \in Writers :
       \/ \E call \in Facts \cup {Clear} : ToolCall(w, call)
       \/ \E fact1, fact2 \in Facts : IngestCall(w, fact1, fact2)
       \/ CompactBegins(w) \/ \E facts \in Profiles : CompactAnswers(w, facts)
       \/ ReadsRow(w) \/ WritesRow(w) \/ ClearsEvents(w) \/ ClearsRow(w) \/ CallFails(w)
       \/ \E k \in ProfileKeys : Records(w, k)
  \/ ProfileRestart

ProfileSpec == ProfileInit /\ [][ProfileNext]_profileVars

(***************************************************************************)
(* Properties                                                              *)
(***************************************************************************)
\* Every variable keeps to its domain.
ProfileTypeOK ==
  /\ entries \in Profiles /\ before \in Profiles
  /\ \A k \in ProfileKeys : \A i \in DOMAIN events[k] :
       {events[k][i].old, events[k][i].new} \subseteq ProfileValues \cup {Absent}
  /\ queue \in Seq(Writers)
  /\ writer \in [Writers -> {"idle", "compacting", "queued", "read", "clearing", "recording"}]
  /\ seen \in [Writers -> Profiles] /\ owed \in [Writers -> SUBSET ProfileKeys]
  /\ writes \in 0..MaxWrites /\ profileFaults \in 0..MaxProfileFaults
  /\ unrecorded \subseteq ProfileKeys /\ misrolled \in BOOLEAN

\* The history tells how each entry came about: an event begins where the last
\* one ended, the last one where the entry is ("a later write builds on the
\* result of the one before", #userQueues), up to the events the call under way
\* has yet to insert.  And a rollback takes back the last change, no other.
\* Except for keys whose event was lost to an error or a restart.
HistoryReplays ==
  \A k \in ProfileKeys \ unrecorded :
    LET told == events[k]
        end == IF told = <<>> THEN Absent ELSE told[Len(told)].new
        owing == {w \in Writers : k \in owed[w]}
    IN  /\ \A i \in DOMAIN told : told[i].old = IF i = 1 THEN Absent ELSE told[i - 1].new
        /\ owing = {} /\ (\A w \in Writers : writer[w] # "clearing") => end = entries[k]
        /\ \A w \in owing : end = seen[w][k]
        /\ ~misrolled
=============================================================================
