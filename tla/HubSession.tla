----------------------------- MODULE HubSession -----------------------------
(***************************************************************************)
(* One session of the hub: the chats that ConversationService objects run  *)
(* on it (conversation.ts), the rows they and others append to it          *)
(* (postgres-sessions.ts), its compaction, the approval of its calls       *)
(* (ApprovalGate), and what a restart makes of it (restart-recovery.ts).   *)
(*                                                                         *)
(* A row is its role, what it is of (the chat that wrote it, the call it   *)
(* answers, or Nobody) and the calls it makes; texts are left out.  Two    *)
(* roles are told apart that the table does not: "summary", the user row   *)
(* that a compaction writes, and "missing", the tool row that              *)
(* repairToolResultPairing makes up for a call without a result.           *)
(***************************************************************************)
EXTENDS ApprovalGate

CONSTANTS
  Nobody,
  Services,      \* the ConversationService objects that share the store
  Server,        \* chat -> the service it is posted to
  WrapUps,       \* the chats that #wrapUpOnHub posts, headless
  Allowlist,     \* chat -> the tools it may use
  Budget,        \* chat -> toolBudget
  Dispatching,   \* the *.delegate tools
  MaxTurns,      \* MAX_TOOL_TURNS
  RepeatLimit,   \* TOOL_REPEAT_LIMIT
  Threshold,     \* COMPACTION_THRESHOLD
  Keep,          \* KEEP_RECENT_MESSAGES
  MaxCalls,      \* how many calls the model asks for: bounds a behaviour
  MaxRound,      \* how many calls one answer holds: bounds a behaviour
  MaxFaults      \* how many faults of all kinds happen: bounds a behaviour

ASSUME SessionAssumption ==
  /\ Nobody \notin Chats
  /\ Server \in [Chats -> Services] /\ WrapUps \subseteq Chats
  /\ Allowlist \in [Chats -> SUBSET Tools] /\ Budget \in [Chats -> Nat]
  /\ Dispatching \subseteq Tools
  /\ MaxTurns \in Nat \ {0} /\ RepeatLimit \in Nat \ {0}
  /\ Keep \in Nat \ {0} /\ Threshold \in Nat /\ Threshold >= Keep
  /\ MaxCalls \in Nat /\ MaxRound \in Nat /\ MaxFaults \in Nat

VARIABLES
  history,    \* the session's rows
  cooling,    \* the last compaction is less than COMPACTION_COOLDOWN_MS ago
  queue,      \* service -> the chats behind its #sessionQueues entry; the head is served
  chat,       \* chat -> where it is in #runChatInner, and its locals
  asked,      \* how many calls the model has asked for
  up,         \* the server is up
  faults      \* how many faults there were

sessionVars == <<history, cooling>>
vars == <<sessionVars, queue, chat, asked, up, faults, gateVars>>

Row(role, of, calls) == [role |-> role, of |-> of, calls |-> calls]
User(c) == Row("user", c, <<>>)
Text(c) == Row("assistant", c, <<>>)
Asking(c, calls) == Row("assistant", c, calls)
Result(call) == Row("tool", call, <<>>)
Missing(call) == Row("missing", call, <<>>)
Summary == Row("summary", Nobody, <<>>)
RecoveryNote == Row("system", Nobody, <<>>)

NoChat == [pc |-> "idle", snap |-> <<>>, more |-> <<>>, turn |-> 0, left |-> <<>>,
           round |-> 1, used |-> 0, last |-> Nobody, repeats |-> 0, stop |-> FALSE,
           sent |-> FALSE, hired |-> FALSE, ok |-> FALSE, prefixed |-> FALSE]

At(c, pc) == up /\ chat[c].pc = pc
Becomes(c, locals) == chat' = [chat EXCEPT ![c] = locals]
Over(pc) == [NoChat EXCEPT !.pc = pc]
Call(c) == Head(chat[c].left)
Headless(c) == c \in WrapUps

\* A crash of the server, a failing LLM stream, a failing statement, a row of
\* another writer (a voice route), an approval that evicts this session's.
Fault ==
  /\ faults < MaxFaults
  /\ faults' = faults + 1

Init ==
  /\ history = <<>> /\ cooling = FALSE
  /\ queue = [s \in Services |-> <<>>]
  /\ chat = [c \in Chats |-> NoChat]
  /\ asked = 0 /\ up = TRUE
  /\ faults = 0
  /\ GateInit

(***************************************************************************)
(* What the model is sent: toLLMMessages, and repairToolResultPairing, row *)
(* by row.  open are the calls of the last round without a result, held    *)
(* the rows that wait for them.                                            *)
(***************************************************************************)
Told(m) == m.role # "system"

Flush(s) ==
  [out  |-> s.out \o [i \in DOMAIN s.open |-> Missing(s.open[i])] \o s.held,
   open |-> <<>>, held |-> <<>>]

\* Mutant: any other row closes the round.
RepairStep_ClosesEarly(s, m) ==
  CASE ~Told(m) -> s
    [] m.calls # <<>> -> [out |-> Append(Flush(s).out, m), open |-> m.calls, held |-> <<>>]
    [] m.role = "tool" ->
         IF Contains(s.open, m.of)
         THEN [s EXCEPT !.out = Append(@, m), !.open = RemoveFirst(@, m.of)]
         ELSE s
    [] OTHER -> [Flush(s) EXCEPT !.out = Append(@, m)]

RepairStep(s, m) ==
  CASE ~Told(m) -> s
    [] m.calls # <<>> -> [out |-> Append(Flush(s).out, m), open |-> m.calls, held |-> <<>>]
    [] m.role = "tool" ->
         IF Contains(s.open, m.of)
         THEN LET open == RemoveFirst(s.open, m.of)
                  out == Append(s.out, m)
              IN  IF open = <<>> THEN [out |-> out \o s.held, open |-> <<>>, held |-> <<>>]
                  ELSE [out |-> out, open |-> open, held |-> s.held]
         ELSE s
    [] OTHER -> IF s.open # <<>> THEN [s EXCEPT !.held = Append(@, m)]
                ELSE [s EXCEPT !.out = Append(@, m)]

\* Where the repair stands after the first n rows.
Repaired(rows) ==
  LET state[n \in 0..Len(rows)] ==
        IF n = 0 THEN [out |-> <<>>, open |-> <<>>, held |-> <<>>]
        ELSE RepairStep(state[n - 1], rows[n])
  IN  state

\* Mutant: nothing is closed at the end of the rows.
Repair_LeavesOpen(rows) == Repaired(rows)[Len(rows)].out

Repair(rows) == Flush(Repaired(rows)[Len(rows)]).out

\* messages: what was built from the session when the chat read it, and what the
\* chat has pushed since.
Prompt(c) == Repair(chat[c].snap) \o chat[c].more

(***************************************************************************)
(* The store.  An append is one statement; updateSession replaces the rows *)
(* only if their number is the expected one.                               *)
(***************************************************************************)
AddMessage(m) == history' = Append(history, m)

Old(rows) == SubSeq(rows, 1, Len(rows) - Keep)
Recent(rows) == SubSeq(rows, Len(rows) - Keep + 1, Len(rows))

Cool ==
  /\ cooling
  /\ cooling' = FALSE
  /\ UNCHANGED <<history, queue, chat, asked, up, faults, gateVars>>

\* A row of another writer, which no queue holds back.
OtherRow ==
  /\ up /\ Fault
  /\ AddMessage(Text(Nobody))
  /\ UNCHANGED <<cooling, queue, chat, asked, up, gateVars>>

(***************************************************************************)
(* runChat: a chat waits for those before it at its service.  A wrap-up is *)
(* not even posted to a busy session.                                      *)
(***************************************************************************)
Busy(s) == queue[s] # <<>>

Post(c) ==
  /\ At(c, "idle")
  /\ Headless(c) => ~Busy(Server[c])
  /\ queue' = [queue EXCEPT ![Server[c]] = Append(@, c)]
  /\ Becomes(c, [NoChat EXCEPT !.pc = "queued"])
  /\ UNCHANGED <<sessionVars, asked, up, faults, gateVars>>

SkipWrapUp(c) ==
  /\ At(c, "idle") /\ Headless(c) /\ Busy(Server[c])
  /\ Becomes(c, Over("skipped"))
  /\ UNCHANGED <<sessionVars, queue, asked, up, faults, gateVars>>

\* The finally clause.
Leave(c) ==
  /\ At(c, "leaving")
  /\ queue' = [queue EXCEPT ![Server[c]] = Tail(@)]
  /\ Becomes(c, Over("ended"))
  /\ ClearForRequest(c)
  /\ UNCHANGED <<sessionVars, asked, up, faults>>

Served(c) == queue[Server[c]] # <<>> /\ Head(queue[Server[c]]) = c

(***************************************************************************)
(* #runChatInner: getSession and #compactIfNeeded, whose summary takes one *)
(* answer of the model.                                                    *)
(***************************************************************************)
\* Mutant: a chat does not wait for those before it.
Begin_Unqueued(c) ==
  /\ At(c, "queued")
  /\ Becomes(c, [chat[c] EXCEPT !.snap = history, !.pc =
                   IF Len(history) > Threshold /\ ~cooling THEN "compacting" ELSE "ready"])
  /\ UNCHANGED <<sessionVars, queue, asked, up, faults, gateVars>>

Begin(c) ==
  /\ At(c, "queued") /\ Served(c)
  /\ Becomes(c, [chat[c] EXCEPT !.snap = history, !.pc =
                   IF Len(history) > Threshold /\ ~cooling THEN "compacting" ELSE "ready"])
  /\ UNCHANGED <<sessionVars, queue, asked, up, faults, gateVars>>

\* Mutant: no expectedMessageCount.
CompactWrite_Unconditional(c) ==
  /\ At(c, "compacting")
  /\ history' = <<Summary>> \o Recent(chat[c].snap)
  /\ cooling' = TRUE
  /\ Becomes(c, [chat[c] EXCEPT !.pc = "rereading"])
  /\ UNCHANGED <<queue, asked, up, faults, gateVars>>

CompactWrite(c) ==
  /\ At(c, "compacting")
  /\ IF Len(history) = Len(chat[c].snap)
     THEN history' = <<Summary>> \o Recent(chat[c].snap) /\ cooling' = TRUE
     ELSE UNCHANGED sessionVars
  /\ Becomes(c, [chat[c] EXCEPT !.pc = "rereading"])
  /\ UNCHANGED <<queue, asked, up, faults, gateVars>>

\* The model fails, or the store after the write: the chat goes on with what it
\* had read.
CompactFail(c) ==
  /\ At(c, "compacting") \/ At(c, "rereading")
  /\ Fault
  /\ Becomes(c, [chat[c] EXCEPT !.pc = "ready"])
  /\ UNCHANGED <<sessionVars, queue, asked, up, gateVars>>

Reread(c) ==
  /\ At(c, "rereading")
  /\ Becomes(c, [chat[c] EXCEPT !.snap = history, !.pc = "ready"])
  /\ UNCHANGED <<sessionVars, queue, asked, up, faults, gateVars>>

\* buildMessages (Prompt), and the user's row.
Open(c) ==
  /\ At(c, "ready")
  /\ AddMessage(User(c))
  /\ Becomes(c, [chat[c] EXCEPT !.more = <<User(c)>>, !.pc = "asking"])
  /\ UNCHANGED <<cooling, queue, asked, up, faults, gateVars>>

(***************************************************************************)
(* The answer of a turn                                                    *)
(***************************************************************************)
Close(c) ==
  /\ AddMessage(Text(c))
  /\ Becomes(c, Over("leaving"))
  /\ UNCHANGED <<cooling, queue, asked, up, gateVars>>

LLMText(c) == At(c, "asking") /\ Close(c) /\ UNCHANGED faults

LLMFail(c) == At(c, "asking") /\ Fault /\ Close(c)

\* Calls written as prose: what stands before them is kept, and the model is
\* asked once more, without tools.
LLMGarbage(c) ==
  /\ At(c, "asking")
  /\ \E prefixed \in BOOLEAN :
       /\ IF prefixed THEN AddMessage(Text(c)) ELSE UNCHANGED history
       /\ Becomes(c, [chat[c] EXCEPT !.more = @ \o <<Text(c), User(c)>>,
                                     !.prefixed = prefixed, !.pc = "recovering"])
  /\ UNCHANGED <<cooling, queue, asked, up, faults, gateVars>>

Recovered(c) == At(c, "recovering") /\ Close(c) /\ UNCHANGED faults

\* No better answer than the prefix, which is stored already.
PrefixStands(c) ==
  /\ At(c, "recovering") /\ chat[c].prefixed
  /\ Becomes(c, Over("leaving"))
  /\ UNCHANGED <<sessionVars, queue, asked, up, faults, gateVars>>

\* "I have passed it on", though nothing was: the claim is questioned, and
\* neither it nor its calls are stored.
LLMClaim(c) ==
  /\ At(c, "asking")
  /\ ~Headless(c) /\ ~chat[c].sent /\ chat[c].turn < MaxTurns - 1
  /\ Becomes(c, [chat[c] EXCEPT !.more = @ \o <<Text(c), User(c)>>, !.turn = @ + 1])
  /\ UNCHANGED <<sessionVars, queue, asked, up, faults, gateVars>>

LLMCalls(c) ==
  /\ At(c, "asking")
  /\ \E n \in 1..MaxRound : \E tools \in [1..n -> Tools] :
       LET calls == [i \in 1..n |-> [n |-> asked + i, tool |-> tools[i]]]
       IN  /\ asked + n <= MaxCalls
           /\ asked' = asked + n
           /\ AddMessage(Asking(c, calls))
           /\ Becomes(c, [chat[c] EXCEPT !.more = Append(@, Asking(c, calls)),
                            !.left = calls, !.hired = FALSE, !.pc = "tools",
                            !.sent = @ \/ \E i \in 1..n : tools[i] \in Dispatching])
  /\ UNCHANGED <<cooling, queue, up, faults, gateVars>>

(***************************************************************************)
(* A call of the round: refused, run, or run once the user allows it.      *)
(***************************************************************************)
Listed(c) == Call(c).tool \in Allowlist[c]

\* The locals once the call is counted.
Counted(c) ==
  LET same == chat[c].last = Call(c).tool
  IN  [chat[c] EXCEPT !.last = Call(c).tool,
                      !.repeats = IF same THEN @ + 1 ELSE 1,
                      !.used = IF Listed(c) THEN @ + 1 ELSE @]

Spent(c) == Counted(c).used > Budget[c] \/ Counted(c).repeats >= RepeatLimit

\* Any call may name no tool or have arguments that do not fit.
CallRefused(c) ==
  /\ At(c, "tools")
  /\ Becomes(c, [Counted(c) EXCEPT !.stop = @ \/ (Listed(c) /\ Spent(c)), !.pc = "recording"])
  /\ UNCHANGED <<sessionVars, queue, asked, up, faults, gateVars>>

\* A headless chat has no user to ask, nor what the user has allowed before.
CallBegins(c) ==
  /\ At(c, "tools")
  /\ Listed(c) /\ ~Spent(c)
  /\ Headless(c) => Harmless(Call(c).tool)
  /\ Becomes(c, [Counted(c) EXCEPT !.pc =
                   IF RunsUnasked(c, Call(c).tool) THEN "running" ELSE "confirming"])
  /\ UNCHANGED <<sessionVars, queue, asked, up, faults, gateVars>>

AskOf(c) == [by |-> c, call |-> Call(c), round |-> chat[c].round]

AskUser(c) ==
  /\ At(c, "confirming")
  /\ Ask(AskOf(c))
  /\ Becomes(c, [chat[c] EXCEPT !.pc = "consulting"])
  /\ UNCHANGED <<sessionVars, queue, asked, up, faults>>

UserAllows(c) ==
  /\ At(c, "consulting")
  /\ Allow(AskOf(c))
  /\ Becomes(c, IF chat[c].round = Confirmations(Call(c).tool)
                THEN [chat[c] EXCEPT !.pc = "running"]
                ELSE [chat[c] EXCEPT !.round = @ + 1, !.pc = "confirming"])
  /\ UNCHANGED <<sessionVars, queue, asked, up, faults>>

\* The user says no, or the minute is over.
NotAllowed(c) ==
  /\ At(c, "consulting")
  /\ Refuse(AskOf(c))
  /\ Becomes(c, [chat[c] EXCEPT !.pc = "recording"])
  /\ UNCHANGED <<sessionVars, queue, asked, up, faults>>

\* The tool returns, throws, or its timer cuts it off.
CallEnds(c) ==
  /\ At(c, "running")
  /\ \E ok \in BOOLEAN : Becomes(c, [chat[c] EXCEPT !.ok = ok, !.pc = "recording"])
  /\ UNCHANGED <<sessionVars, queue, asked, up, faults, gateVars>>

Record(c) ==
  LET locals == chat[c]
      rest == Tail(locals.left)
  IN  /\ At(c, "recording")
      /\ AddMessage(Result(Call(c)))
      /\ Becomes(c, [locals EXCEPT !.more = Append(@, Result(Call(c))), !.left = rest,
                       !.hired = @ \/ (locals.ok /\ Call(c).tool \in Dispatching),
                       !.ok = FALSE, !.round = 1,
                       !.pc = IF rest # <<>> THEN "tools" ELSE "rounded"])
      /\ UNCHANGED <<cooling, queue, asked, up, faults, gateVars>>

\* After the last call of the round: a user's chat that has dispatched ends with
\* what was said or one sentence more, a stopped one with a summary.
RoundEnds(c) ==
  LET locals == chat[c]
      hired == ~Headless(c) /\ locals.hired
      Nudged(pc) == [locals EXCEPT !.more = Append(@, User(c)), !.pc = pc]
  IN  /\ At(c, "rounded")
      /\ \/ hired /\ \/ Becomes(c, Over("leaving"))
                     \/ Becomes(c, Nudged("closing"))
         \/ ~hired /\ locals.stop /\ Becomes(c, Nudged("closing"))
         \/ ~hired /\ ~locals.stop /\
            Becomes(c, [locals EXCEPT !.turn = @ + 1, !.pc =
                          IF locals.turn + 1 = MaxTurns THEN "closing" ELSE "asking"])
      /\ UNCHANGED <<sessionVars, queue, asked, up, faults, gateVars>>

\* The answer without tools, or the text in its place if that fails.
LastWords(c) == At(c, "closing") /\ Close(c) /\ UNCHANGED faults

\* Mutant: the exception passes the queue by.
Throw_NoFinally(c) ==
  /\ chat[c].pc \in {"queued", "rereading", "ready", "asking", "recovering", "recording",
                   "closing"}
  /\ up /\ Served(c) /\ Fault
  /\ Becomes(c, Over("ended"))
  /\ UNCHANGED <<sessionVars, queue, asked, up, gateVars>>

\* A statement of the store fails.
Throw(c) ==
  /\ chat[c].pc \in {"queued", "rereading", "ready", "asking", "recovering", "recording",
                   "closing"}
  /\ up /\ Served(c) /\ Fault
  /\ Becomes(c, Over("leaving"))
  /\ UNCHANGED <<sessionVars, queue, asked, up, gateVars>>

(***************************************************************************)
(* Crash, and recoverInterruptedSessions at the next start                 *)
(***************************************************************************)
CallsOf(rows) == UNION {Range(rows[i].calls) : i \in DOMAIN rows}

Dangling(rows) == {call \in CallsOf(rows) : ~Contains(rows, Result(call))}

Crash ==
  /\ up /\ Fault
  /\ up' = FALSE
  /\ queue' = [s \in Services |-> <<>>]
  /\ chat' = [c \in Chats |-> IF chat[c].pc \in {"idle", "ended", "skipped"} THEN chat[c]
                              ELSE Over("lost")]
  /\ GateLost
  /\ UNCHANGED <<sessionVars, asked>>

\* No note if the scan fails, or if the session has not changed for a day.
Boot ==
  /\ ~up
  /\ up' = TRUE
  /\ \/ UNCHANGED history
     \/ /\ Dangling(history) # {} /\ ~Contains(history, RecoveryNote)
        /\ AddMessage(RecoveryNote)
  /\ UNCHANGED <<cooling, queue, chat, asked, faults, gateVars>>

Forget ==
  /\ up /\ Fault /\ Evict
  /\ UNCHANGED <<sessionVars, queue, chat, asked, up>>

TurnStep(c) ==
  \/ LLMText(c) \/ LLMGarbage(c) \/ Recovered(c) \/ PrefixStands(c) \/ LLMClaim(c)
  \/ LLMCalls(c) \/ CallRefused(c) \/ CallBegins(c) \/ AskUser(c) \/ NotAllowed(c)
  \/ CallEnds(c) \/ Record(c) \/ RoundEnds(c) \/ LastWords(c)

\* What a chat does by itself.
ChatStep(c) ==
  \/ Begin(c) \/ CompactWrite(c) \/ Reread(c) \/ Open(c) \/ TurnStep(c) \/ Leave(c)

Next ==
  \/ Cool \/ OtherRow \/ Crash \/ Boot \/ Forget
  \/ \E c \in Chats :
       \/ Post(c) \/ SkipWrapUp(c) \/ ChatStep(c)
       \/ CompactFail(c) \/ LLMFail(c) \/ Throw(c) \/ UserAllows(c)

Spec == Init /\ [][Next]_vars

\* A stream ends or its idle timer cuts it off, a tool ends or its timer does,
\* an approval is answered or expires.  Nobody has to post or to allow.
FairSpec == Spec /\ \A c \in Chats : WF_vars(ChatStep(c))

(***************************************************************************)
(* Properties                                                              *)
(***************************************************************************)
Rows == [role : {"user", "assistant", "tool", "missing", "summary", "system"},
         of : Chats \cup Calls \cup {Nobody}, calls : Seq(Calls)]

\* Every variable keeps to its domain, and the memories of the gate to their caps.
TypeOK ==
  /\ history \in Seq(Rows) /\ cooling \in BOOLEAN /\ up \in BOOLEAN
  /\ queue \in [Services -> Seq(Chats)]
  /\ asked \in 0..MaxCalls
  /\ faults \in 0..MaxFaults
  /\ \A c \in Chats :
       /\ chat[c].pc \in {"idle", "queued", "compacting", "rereading", "ready", "asking",
                          "recovering", "tools", "confirming", "consulting", "running",
                          "recording", "rounded", "closing", "leaving", "ended", "skipped",
                          "lost"}
       /\ chat[c].snap \in Seq(Rows) /\ chat[c].more \in Seq(Rows)
       /\ chat[c].left \in Seq(Calls) /\ chat[c].turn \in 0..MaxTurns
       /\ chat[c].round \in 1..2 /\ chat[c].last \in Tools \cup {Nobody}
       /\ chat[c].used \in Nat /\ chat[c].repeats \in Nat
       /\ \A flag \in {"stop", "sent", "hired", "ok", "prefixed"} : chat[c][flag] \in BOOLEAN
  /\ GateTypeOK

\* A row leaves the history only into the summary that was made of it: what
\* another writer appends while the model summarises is not overwritten
\* (expectedMessageCount).
NothingLost ==
  [][\A i \in DOMAIN history :
       \/ Contains(history', history[i])
       \/ \E c \in Chats : /\ chat[c].pc = "compacting"
                            /\ Contains(Old(chat[c].snap), history[i])]_vars

IsResult(m) == m.role \in {"tool", "missing"}

\* Each round is followed at once by one result for each of its calls, and there
\* are no other results.
Paired(rows) ==
  \A i \in DOMAIN rows :
    LET n == Len(rows[i].calls)
        round == (i + 1)..(i + n)
    IN  /\ i + n <= Len(rows)
        /\ \A k \in round : IsResult(rows[k])
        /\ {rows[k].of : k \in round} = Range(rows[i].calls)
        /\ IsResult(rows[i]) =>
             \E j \in 1..(i - 1) : i - j <= Len(rows[j].calls)
                                  /\ Contains(rows[j].calls, rows[i].of)

\* What the model is sent, for an answer or for a summary, is well paired, whatever
\* crashes, compactions and other writers have left in the history ("or else the
\* API refuses it", conversation.ts).
PromptPaired ==
  \A c \in Chats :
    /\ chat[c].pc \in {"asking", "recovering", "closing"} => Paired(Prompt(c))
    /\ chat[c].pc = "compacting" => Paired(Repair(Old(chat[c].snap)))

\* A call that the model has been told was interrupted has no result and gets
\* none: neither an interleaved row nor a chat still at work makes a call that
\* ran look like one that did not.
InterruptedIsOver ==
  \A c \in Chats : \A m \in Range(Prompt(c)) :
    m.role = "missing" => ~Contains(history, Result(m.of))

\* No user's message comes between a round and its results ("chats of one session
\* run one after the other, so that no user message separates the calls from
\* their results", conversation.ts).
RoundsUnbroken ==
  \A i, j \in DOMAIN history :
    (history[j].role = "tool" /\ Contains(history[i].calls, history[j].of)) =>
      \A k \in i..j : history[k].role # "user"

\* Both: what goes to the model is in order, as stored and as sent.
PromptWellFormed == PromptPaired /\ RoundsUnbroken

\* A call runs unasked only below level 2 or in full-access mode; one of level 2
\* after a yes to the same tool and arguments in this life of the server, and only
\* for a chat with its user there; one of level 3 after two, both to this very
\* call.  A late answer opens nothing.
ApprovedBeforeRun ==
  \A c \in Chats : chat[c].pc = "running" =>
    LET call == Call(c)
    IN  \/ Harmless(call.tool)
        \/ Level[call.tool] = 2 /\ ~Headless(c) /\ \E a \in allowed : a.call.tool = call.tool
        \/ \A round \in 1..2 : [by |-> c, call |-> call, round |-> round] \in allowed

\* A chat that is posted ends and lets the next one in, whatever fails, unless
\* the server dies.
ChatEnds == \A c \in Chats : chat[c].pc = "queued" ~> chat[c].pc \in {"ended", "lost"}

=============================================================================
