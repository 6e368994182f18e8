# A TLA+ model of promise-ai

promise-ai is a personal assistant that lives on one server. A hub agent (小夜) talks to the
user over the web and WeChat, delegates work to colleagues that run as forked child processes,
runs scheduled tasks, and pushes what happens to the user's WeChat. These modules model the parts
of it whose correctness depends on the order of things: processes that share a file, timers that
overlap, connections and processes that die.

Paths below are relative to `services/agent-server/src/` (agent server) and
`services/weixin-bridge/src/` (WeChat bridge) unless they say otherwise.

- [The system](#the-system) — parts, state, operations, interactions, and what makes each correct
- [Modules and code](#modules-and-code) — how state and actions correspond to the source
- [Runs](#runs) — what each TLC run checks, its bounds, and why they are enough
- [Fairness](#fairness)
- [Findings](#findings)
- [Proofs](#proofs)
- [What is not modelled](#what-is-not-modelled)
- [Plan](#plan)

To check: `tlc -config <cfg> <MC module>` for the runs that PROJECT.json lists, and `tlapm` on each
of the modules whose name ends in `Proofs`.

## The system

| Part | Source | State | Operations | Correct when |
|---|---|---|---|---|
| Colleague mailbox | `services/colleague-office.ts` and the fork, worker and internal-route files | one JSON file of mails per colleague; in every process a `#mail` map, a persist chain, the parent's `#wrappedMailIds` | delegate, ask, send; persist and merge under a file lock; worker loop; settle; watcher; ingest of POSTs; wrap-up on the hub; hydrate and reconcile | no mail and no outcome is lost, none runs twice, the user is told of each completion exactly once and only of durable ones, a question's answer stays between colleagues |
| File lock | `services/file-lock.ts` | a lock file | flock or spin lock, stale after 120 s, waits 60 s | one holder; a dead holder blocks nobody for ever |
| Task scheduler | `services/task-service.ts`, `packages/memory/src/tasks.ts` | the task table, `#running`, overlapping ticks with their lists | tick, mark, stamp, run, record; create and delete | each cron moment is run for once, the global limit holds, no slot leaks, a long run starves nobody |
| Event delivery | `routes/events.ts`; `event-pusher.ts`, `outbox.ts`, `state.ts` of the bridge | ids and ring buffer of the server, its connections; Last-Event-ID, the outbox and its file | broadcast, replay, push with retry, queue, drain, reconnect | a completion arrives at every peer, once, across broken connections and dead bridges |
| Conversation service | `services/conversation.ts`, `tool-execution.ts` | a queue per session, the message history, tool budgets | chat, tool rounds, compaction, abort | one chat per session at a time, tool calls paired with results, compaction loses no concurrent message |
| Approval gate | `services/approval.ts` | pending requests with a 60 s timer, remembered fingerprints | request, answer, expire, second confirmation | nothing dangerous runs without a live answer to that very request |
| Hooks | `services/hook-service.ts` | run slots, the queue, a session per hook | arrive, drop, run, release, resolve a session | two runs at most, no lost waiter, no slot leaks, a hook keeps its session |
| Heartbeat | `services/heartbeat-service.ts` | a running flag, its session, the last report | collect signals, ask the model, report | one check at a time, what needs attention is not called fine |
| Reminders | `services/reminder-service.ts`, `packages/memory/src/reminders.ts` | the table, overlapping scans | list, mark, announce | each is announced once |
| Request to the model | `services/conversation.ts`, `packages/llm`, `packages/openrouter` | one stream, its attempts, primary and spare model | stream, time out, retry, degrade, replace | no piece of an answer twice, text and calls of one author, no calls dropped |
| Colleague task runner | `services/colleague-task-runner.ts` | running and pending runs, the record file | delegate, exit, timeout kill, restart | at most N runs, each end is told once |
| Shell tool | `services/server-shell.ts` | a queue of commands per session | queue, run, time out, abort | one command at a time, an abort reaches the process |
| Repository | `services/git-delivery.ts`, `self-tools.ts` | working copy, index and history | a mail's delivery, self.commit, self.rollback | a commit holds a mail's work, all of it and no other |
| WeChat relay | `relay.ts` of the bridge | sync cursor, in-flight sessions, pending approvals, the reply's buffer | poll, handle under a guard, chat, approve, send segments | no message is lost or answered twice, one chat per session, the reply arrives whole |
| WeChat sending | `send-gate.ts`, `ilink.ts`, `jobs.ts` of the bridge | the line of senders, uploads, file jobs and their queue | upload, send, queue, evict | one message in flight, told as it arrived, a file once |
| WeChat login | `login.ts`, `index.ts` of the bridge | QR codes, the account, the relay's flags | start, wait, confirm, log out | the account's relay runs, alone, and the status says so |
| Voice by recognition and synthesis | `routes/qwen-voice.ts`, `routes/voice.ts` | the turn under way, sentences spoken, the recogniser's connection | transcript, barge-in, speak, store | history in the order of speech, what was spoken once |
| Voice by a speech model | `routes/qwen-voice-s2s.ts`, `packages/qwen-realtime` | the turn, the call under way, both connections | respond, call, hand back, close | a turn outlives its tool call, no connection is left behind |
| Profile | `packages/memory/src/profile.ts`, `services/profile-ingestor.ts` | entries, their history, a queue per user | put, delete, roll back, ingest, compact | the history tells how each entry came about |
| Other stores | `packages/memory` | sessions, timeline, tasks | SQL statements, in-memory twins | each statement is atomic; `replaceMessages` checks the expected count |
| Tools without state, configuration, web pages | `packages/tools`, `team-site` | per-request | I/O | — |

How they interact: the WeChat relay and the web page post messages to the conversation service;
its tools delegate to the colleague office, which writes the mail into the colleague's mailbox
file. The forked child polls that file, works the mail off with a conversation service of its
own, settles it in the file, and POSTs a completion to the parent, best effort. The parent's
watcher reads the file every 200 ms as well. Whichever notices the settled mail first has the
hub put it into words and emits an `engineer.task.done` event. Event routes number and buffer
that event and send it to the bridge's pusher, which sends it to WeChat or queues it in the
outbox. Scheduler, reminders and hooks emit events of their own along the same way.

Hard behaviours: several processes merge copies of one file; a child or the whole container dies
at any step; timers start a tick while the last is still under way; state is read before an
`await` and used after it; a completion is noticed twice, or only by the slower path; a
connection breaks between the send and the bookkeeping. PROJECT.json lists each hazard at its
line, with the property that would catch it or the reason why none does yet.

## Modules and code

### ColleagueMailbox

One colleague's mailbox in fork mode. A mail is its number in creation order, a mailbox maps
mails to statuses; bodies, replies and session ids are left out because no property tells them
apart.

| State | Code |
|---|---|
| `disk`, `lock` | the mailbox file and its lock (`free`, held, or `orphan`: left by a dead spin-lock holder) |
| `mem[p]` | the `#mail` entry of process p: the parent, the mailbox's own child, another colleague's child |
| `chain[p]`, `persist[p]` | `#persistChain` and the task in flight. The task captures the `#mail` array before it waits for the lock. `live` says that the array is still the entry, so later pushes are seen by the merge; once someone replaces the entry (`SetMail`) the captured array is a copy of its own |
| `owner`, `cur` | the child's place in hydrate and `#workerLoop` |
| `scan`, `posted`, `ingest`, `wrapped`, `wrapping` | the watcher, the POSTs under way, `ingestChildEvent`, `#wrappedMailIds`, wrap-ups on the hub session |
| `asks`, `awaiting` | nested mails, and peers waiting in `#waitForMailSettled` |
| `failed`, `accepted`, `runs`, `reported` | histories for the properties |

`PersistBegin`, `PersistMerge`, `PersistWrite` cut `#persist` at its awaits: the capture, the
merge under the lock, the write. `PersistFail` is the lock timeout, which the code logs and
swallows. A lock is orphaned only by a death in the middle of a write; after 60 s a waiter gives
up, after 120 s the lock file counts as stale and is taken over: so a process gives up at most
once per orphaned lock. `Die` takes a process' memory; the parent is the container's first
process and its children die with it. `OwnerBoot` and `OfficeBoot` are hydrate with `#reconcile`.

### MailLedger

What the mailbox promises without processes, copies and locks: statuses only move on, outcomes are final, a
completion is told once, after it was filed, and never for a question. ColleagueMailbox
implements it with `ledger <- disk, told <- reported, private <- asks`.

### TaskScheduler

`TickList` is the await of `listTasks`; `TickRun` is the synchronous rest of `checkNow` up to
the first await of its workers, so the first tasks of the list are marked in one step; the rest
of the list waits unmarked. `JobMark` is the `updateTask` with `lastRunAt` and the start of the
chat, `JobFail` an error of the store before or after that stamp, `JobEnd` the end of the chat
and of the run's record, `Release` the worker's `finally` and its next task. A task's cron
expression is the set of moments it names.

### EventDelivery

`Emit` is `broadcast` with the buffer's push; `Connect` the endpoint with its replay. The bridge's
pusher handles one frame at a time: sends to the peers (`SendOk`; `SendLost`, an attempt that
arrived while its answer was lost and that is tried again; `SendFail`, the attempts are used up), then `Enqueue`/`EnqueueSaved` for each failed completion, then `Advance`, which moves
Last-Event-ID. `currentId` outlives its frame within a connection, as in the code. A drain
(`DrainStart` … `DrainSaved`) runs beside the pusher and works on a copy of the queue; it stops at
the first send that fails, arrived (`DrainLost`) or not (`DrainFail`). The two
files (`savedId`, `file`) survive a crash.

### HubSession and ApprovalGate

One session of the hub and the chats that run on it. A row is its role, what it is of, and the
calls it makes; a call is a number and a tool, and a tool stands for a tool with its arguments
(its approval fingerprint).

| State | Code |
|---|---|
| `history`, `cooling` | the session's `messages`; `metadata.compactedAt` is less than five minutes ago |
| `queue[s]` | `#sessionQueues` of service s: the chats of this session behind one another |
| `chat[c]` | where the chat is in `#runChatInner`, and its locals: `snap` and `more` make up `messages` (what was built from the session, what the chat pushed since); `left` are the calls of the round still to do; `turn`, `used`, `last`, `repeats`, `stop`, `sent`, `hired` are the counters and flags of the same purpose |
| `pending`, `remembered`, `granted` | `#pending`, `#approved` of the session, `#requestApproved` |
| `allowed` | history: the asks that the user has said yes to |
| `up`, `faults`, `asked` | the server's life; how many faults have happened, how many calls were made (bounds) |

A chat's actions cut `#runChatInner` at its awaits. `Post`, `Begin`, `Leave` are `runChat` around
it; `Begin`, `CompactWrite`, `Reread` are `getSession` and `#compactIfNeeded`; `Open` appends the
user's row. A turn's answer is text (`LLMText`), a failure (`LLMFail`), calls written as prose
(`LLMGarbage`, `Recovered`, `PrefixStands`), a false claim of having dispatched (`LLMClaim`) or calls
(`LLMCalls`). Each call is refused, run, or run after one or two confirmations (`CallRefused` …
`CallEnds`), and `Record` appends its result. `RoundEnds` decides between another turn, a closing
sentence, a summary and the end. `Throw` is a failing statement of the store at any await, `Crash`
and `Boot` a restart with its recovery note. `OtherRow` is the voice route, which appends without any
queue. `Repair` is `repairToolResultPairing`, row by row as a recursive function (`Repaired`) that passes over
the rows that `toLLMMessages` leaves out (`Told`); the model evaluates it where the prompt is looked at (`Prompt`).

`Services` are the ConversationService objects over the same store: the program makes one in
`agent-core.ts`, for the office, the scheduler, hooks and heartbeat, and one in `app.ts`, for the
routes. `session` checks what one service guarantees, `session_overlap` what two do.

### The small modules

Each of these is one component with its own variables, initial state, next-state relation and
properties, all with names of their own, so that `MCForeground` and `MCBackground` can extend many of
them at once.

| Module | State | Actions |
|---|---|---|
| MailChains (`colleague-office.ts`) | letters with sender, addressee, status; `mailChain`, what a letter carries, beside `trueChain`, what it came through; `awaits` | `Delegate`, `SendFrom`, `AskColleague` with `#assertSendChain`; `WorkerTakes`, `MailSettles`, `AskReturns`, `AskGivesUp`, `ChatTimesOut`. `CallerMail` is `#callerMail`, the newest open letter |
| SpinLock (`file-lock.ts`) | numbered lock files, which of them have a time written and an old one; where each process is | make, stamp, open, read and judge, remove, leave; ages and deaths. A waiter reads the file that it opened but unlinks what has its name by then |
| LlmStream (`chatWithTimeoutAndRetry`) | attempt, `choosing` (tool_choice is sent), chunk, `gotChunk`, what was passed on | a chunk comes and is dealt with, the idle timer, the user's abort, a failure and its retry or degradation |
| ModelAnswer (`packages/llm`, `packages/openrouter`) | the model that streams, pieces of calls, who wrote the text and the calls that the chat keeps | text, piece, yield, the mark that calls are whole, `[DONE]`, a stream cut short, the spare model |
| WeixinRelay (`relay.ts`) | two loops with their cursors, handlers with their place and session, `inflight`, `pending`, the server's open asks | poll, take, guard, route, open a chat, read an ask, resolve it, windows of both timers, end; login, restart |
| ReplyStream (`chatOnceInner`) | `text`, `buffer`, `preflushed`, what the user got | read, cut, send, fail with or without the text having come, end with or without a recap, pieces |
| Outgoing (`send-gate.ts`, `ilink.ts`) | each send, the gate's line, its rest, what arrived and what callers were told | text, medium with its upload attempts, pass the gate, return with or without an answer |
| FileJobs (`jobs.ts`) | requests, jobs, the waiting list | ask, find and read, run or wait, upload, finish, evict, release |
| BridgeLogin (`login.ts`, `index.ts`) | codes, pages, the account, relays with tokens, `relayRunning`, `relayStale` | start, poll, confirm, save or fail, log out, a token goes stale, a relay ends, a restart |
| VoiceCascade (`qwen-voice.ts`, `voice.ts`) | turns with their stage, `waitsFor`, rows of the history, the recogniser's connection | final transcript, barge-in, question stored, rounds of the model (all of it in, their tool calls stored, a delegation made or only claimed), a sentence begun and spoken, reply or its beginning or its failure stored, close. The recogniser starts before the route listens, as in `qwen-voice.ts`; `voice.ts` listens first |
| VoiceS2S (`qwen-voice-s2s.ts`, `qwen-realtime`) | both sockets, the active response, calls with their turns, `toolPending`, the queue of writes | handshake, responses, calls and their ends, close from either side |
| UserProfile (`profile.ts`, `profile-ingestor.ts`) | the row of entries, events per key, the per-user queue, each writer's place | calls of tools, extraction and compaction; read, write, record one event at a time; errors, restarts |
| HookService | each event's place, `hookActive`, the queue, sessions per hook | arrive, wake, look a session up, make it, chat, release |
| ReminderService | the table, overlapping scans with their lists | add, come due, list, take, mark with a lost answer, end, restart |
| Heartbeat | each check, `beating`, its session, verdict and report | start, collect, make a session, resolve, answer, break, throw, lose a session, restart |
| ShellRuns (`server-shell.ts`) | commands in order, whom each waits for, the tail | arrive, start, give up waiting, time out, abort, end |
| TaskRunner (`colleague-task-runner.ts`, `coding-tool.ts`) | records, pool and line, the file and the chain of writes, what was told | order, end, pass on the place, write, die, load, tell |
| Repository (`git-delivery.ts`, `self-tools.ts`, `colleague-office.ts`) | files modified, in the index, in a commit; each mail's snapshot | write, list, add, commit; the tools' add, commit, rollback; failures of git |

They share no state, and are checked one beside the other: in `MCForeground` and `MCBackground`
`part` is chosen in the initial state, only that part moves, and the rest keeps its initial values. The
state graph is the sum of the parts' graphs, not their product; a property of one part is
checked in all of that part's states. Fairness is asked of the part that moves only. MCForeground holds what a
person's request goes through, MCBackground what goes on without one.

## Runs

| Run | Question | Bounds |
|---|---|---|
| `mailbox_safety` | Do durability, at-most-once and the ledger hold under every interleaving and one death? | 2 mails, one peer, capacity 2, one death of the child or of the container. Two mails make copies that differ in one and agree in the other; one peer makes three writers; one death hits every step of every process |
| `mailbox_liveness` | Is every filed mail worked off and every completion reported, though any POST may be lost? | the same without deaths |
| `mailbox_lost_mail` | Is every accepted mail on file? | no peer, no death: the parent alone loses one |
| `mailbox_restart` | Is a mail that a child's death interrupted worked off? | one death of the child |
| `scheduler_safety` | Slots, limit, double runs | 3 tasks over 2 slots, so that one waits, the third created at any time; two overlapping ticks; two moments for two of the tasks; one store error or restart |
| `scheduler_double_fire` | Is each moment run for once? | listings take no time (`MCQuickListing`), so the cause is the waiting list alone |
| `delivery` | Replay, outbox, ids; does every completion arrive? | 4 events (a note, two completions, a progress event), 2 peers, buffer of 2 and outbox of 1 so that both overflow, 3 faults of any kind, lost answers among them |
| `delivery_lost_notice` | Is every undelivered completion kept? | one peer, nothing overflows |
| `session` | Pairing, approvals, compaction, the queue, and the end of every chat | one service, a user's chat and a wrap-up; 3 calls, at most 2 in a round; 2 turns, so that the last-turn summary happens; compaction above 3 rows, keeping 2; four tools: two harmless ones (one dispatches), one of level 2, one of level 3; memories of one fingerprint, so that the cap evicts; one fault of any kind |
| `session_overlap` | Do a wrap-up and a user's chat keep out of each other's rounds? | two services, 2 calls, no fault |
| `foreground` | What a person's request goes through: thirteen parts, see below | see below |
| `background` | What goes on without the user: six parts, with liveness for two | see below |

The parts of `foreground` and why their bounds are enough:

- relay: 2 messages of one user, 1 approval in each chat, one mishap (a guard that expires, a login, a restart,
  a failed save, a lost answer). Two messages are what it takes to overtake each other.
- reply: up to 5 tokens with thresholds of 2, 2 and 4 and pieces of 3, so that a text holds several segments
  and a rest in more than one piece.
- sending: 3 sends, one of them a medium with 3 attempts: a holder, a next one and one behind it.
- file jobs: 4 requests under 3 names, two of which are the same file; 1 slot and 1 finished job kept, so that queue
  and eviction happen.
- login: 2 pages, 2 codes, 3 relays, one fault: a relay, its successor and one more.
- voice: 3 utterances by recognition, so that one can be dropped while another waits; no question behind 3 messages (a
  further utterance only while messages and utterances are 3 at most), so that an answered turn has a whole one behind
  it; one round of tool calls in a turn, begun behind the first question; one turn with an error; 4 responses and 2 calls by the speech model.
- profile: 2 keys, 2 values, 2 writers, 3 writes, one error or restart; compaction from one entry on.
- hooks: 4 events of 2 hooks, 2 slots, 1 waiting, one lost session: the fourth is dropped.
- model: one retry, 2 pieces of calls. Shell: 4 commands, so that one gives up between others. Runner: 3
  orders, 2 at once, 2 records kept, 2 deaths. Repository: 2 mails, 2 files, one failure of git.

The parts of `background`: the scheduler with 2 tasks, of which task 1 may run for ever and task 2 is created at any time; 2 reminders under
2 scans with 2 faults; 3 checks of the heartbeat with 2 faults or restarts; 3 processes at the lock with 2 files
and a fault (a lock that changes hands, beside a third that judges the first file); 4 letters between 3
colleagues with chains of 3 (a circle of three and one more letter); 3 attempts of 3 chunks.

The properties and the hazard each one is for:

- `ImplementsLedger`: the watcher and the POST handler race for each completion, each with its own copy
  of the file, across restarts; the user is told once, after the outcome is durable, and never of a question's answer.
- `FileNeverRegresses`: every process merges a copy of any age; none may take a mail back.
- `ChatIsOnFile`: while a chat runs, everybody who reads the file sees its mail running, not queued or settled,
  whatever old copies the other processes merge. The exception is stated: a child that lost a persist to the lock
  timeout. Whether an interrupted mail is run again is another question, see the findings.
- `FiledIsSettled`, `SettledIsReported`: liveness of the worker loop and of the watcher, which must
  make up for a lost POST.
- `SlotsKept` (`MarkHasRun`, `RunsBounded`): a slot is counted from marks that an overlapping tick can share and
  delete. Both halves hold until a task has been marked twice (`doubled`), which is what
  `OneRunPerMoment`'s counterexample leads to; that every mark has a run holds always.
- `OneRunWithoutOverlap`, `DueIsRun`: while ticks do not overlap, each moment is
  run for once; a slow task holds its own slot only.
- `IdPassesNothing`: Last-Event-ID passes no completion of the buffer that no peer has got and that was not queued.
- `DeliveredOnce`: replay and outbox do not both send a notice while the bridge lives. A notice that arrived with its
  answer lost (`unsure`) is excepted: the next attempt, the outbox or the replay sends it again under a new client_id.
- `QueuedIsKept`, `DoneArrives`: what is queued survives crashes; what the bridge can resume from
  arrives. Both exclude, by name, what the caps drop (`trimmed`, `evicted`), what was queued
  while a drain was sending (`overran`, see the findings) and, for arrival, a restart of the
  server, whose ids begin at 1 again.
- `PromptWellFormed` (`PromptPaired`, `RoundsUnbroken`): whatever crashes, compactions and other
  writers leave in the history, what is sent has each round followed by its results and no other
  results, and on one service no user row stands between them.
- `InterruptedIsOver`: the repair tells the model that a call was interrupted only if no result of it
  exists or will exist; the queue is what makes that true while chats follow each other.
- `ApprovedBeforeRun`: no call runs without the yes its level needs, given to the same tool and
  arguments, in this life of the server, and for level 3 to this very call, twice.
- `NothingLost`: compaction replaces rows that it read before an LLM call, beside writers that no
  queue holds back; only what was summarised may go.
- `ChatEnds`: the queue of a session moves on only through `finally`.
- `RelayInOrder`: a message is handled once, except after a failed save or beside a second loop;
  a session is in one chat at a time, except after a guard that expired or beside a second loop;
  an approval that the relay has read and the server waits for is registered, and a registration dies with
  its chat, so that no later message is taken for an answer.
- `HandedOverOnce`: the user has a prefix of the reply at any time and the whole in the end, whatever was cut off early or
  failed, except that an early segment whose answer was lost comes again with the rest; one send is in flight,
  arrivals keep the order of the gate, and callers are told so, except when the answer was lost.
- `SentInTurnOnce`: the slots and the queue of file jobs, and one job per file, except the jobs
  made while a request was reading or under another name.
- `LoginIsFollowed`: only the last relay goes on, none after a logout, it has the account's token, and the
  status tells it, except after the late end of a relay that was replaced.
- `SpeechIsKept`: no question of another turn between a question and its answer, except the partial reply of a
  turn that the other one did not wait for (after a barge-in); what was spoken is stored, and a partial reply stands alone,
  except when the interruption came after a round with words was stored or had all come in, when model, write or
  synthesis failed, a claimed delegation was refused or the socket closed; the recogniser's connection is closed with
  the client's, except when the route did not listen yet.
- `TurnOutlivesItsCall`, `NoOrphanConnection`: a turn is not over before its call is answered, unless another
  response overtook it; the model's connection is closed with the client's, unless the client left early.
- `HistoryReplays`: events of a key are a chain that ends at the entry, across writers, errors and rollbacks, to a
  named event or of the last change.
- `HookLimitsKept`: no slot leaks, no waiter is forgotten, the limit holds but for the microtask of a
  hand-over; a hook has one session unless it was lost or sought twice at once.
- `AnswerIsWhole`: text and calls of one model, except behind a primary that yielded calls and failed; calls
  are not dropped, except when the stream's end does not come.
- `ToolsAreFollowed`: one shell command at a time, except across one that gave up waiting; an abort reaches its process; the
  runner's pool is full while someone waits, and who delegated hears of the end once, with the deaths that
  prevent it named.
- `DeliveriesAreExact`: a mail's commit holds what was written since it started and all of it, except for
  what others left in the index and a failed second `git status`.
- `TimersSpeakOnce`: a reminder is announced once, except for lost marks and overlapping scans; one
  heartbeat at a time, in the session it remembers, beside which none stands in the store, except those that a restart
  of the server or a throw out of `createSession` made it forget; trouble is not reported as fine, except when the chat
  failed.
- `SpinExclusive`: one holder, until a living holder's file is removed in one of three named ways.
- `NoPingPong`, `AskAnswered`: work does not come back to who passed it on, except where a newer letter was taken
  for the one being worked on; a question is answered unless those asked wait in a circle.
- `NothingRepeated`: the caller gets the chunks of one attempt in order, except after a late refusal
  of tool_choice.

An exception above is a state bit or a set that records the one event it names, and each one that is a fault of
the code is a finding below: the property says what holds beside it.

Runs without a deadlock check: HubSession, because all its chats may have ended; EventDelivery, whose behaviours
are finite and may end with everything delivered; foreground and background, whose parts end when
their bounded messages, sends, turns or faults are used up.

## Fairness

Only what the code's timers and promises guarantee is fair: a persist under way goes on, the worker
loop, the watcher, ticks, drains and reconnections are re-armed by timers that the code sets
again after every round, and WeChat takes a message in the end (`SendOk`, `DrainOk`; the number
of failures is bounded by `MaxFaults`). A chat ends because tool rounds and model calls have
budgets and timeouts; TaskScheduler exempts the tasks in `Stuck`. Nobody has to dispatch, emit or
connect; no POST has to arrive; no fault has to happen. All fairness is weak.

In `background` the scheduler's fairness is the same, asked while it is the part that moves. `MailFairness` lets
a worker take the next letter, a chat end and a waiter see the answer (it polls every 50 ms);
the timeouts of a chat and of a question need not come, so that `AskAnswered` does not rest on them.

In HubSession each chat's own steps are weakly fair: a stream ends or its idle timer (90 s) cuts
it off, a tool ends or its timer does, an ask is answered or denied by its timer (60 s), a
statement returns or throws. Nobody has to post a chat or to allow a call, and the user's yes
is not fair.

## Findings

The first five are runs that TLC finds violated. The others were met while modelling; where a property excepts
the case, its name is given: without the exception TLC finds it violated. PROJECT.json quotes the comment that each
one contradicts.

1. `mailbox_lost_mail`: `#persist` captures the `#mail` array and later sets the entry to the
   merge. If the watcher replaces the entry in between and a second delegation pushes onto the
   replacement, that mail is overwritten and never filed, though `delegate` has returned.
2. `mailbox_restart`: hydrate resets `running` to `queued`, but the reset is written through a
   merge in which the file's `running` outranks `queued`. The restarted child never takes
   the mail again, against hydrate's comment.
3. `scheduler_double_fire`: a task that waits for its turn in `runWithConcurrency` is neither
   marked nor stamped; the next tick runs it too, and the waiting entry is not checked again.
4. `delivery_lost_notice`: `drainOutbox` replaces the queue by what is left of its copy, so a
   completion queued while its sends were under way is lost from memory and file.
5. `session_overlap`: `app.ts` makes a ConversationService of its own for the routes. The queue and
   `isSessionBusy` are per object, so the office's wrap-up starts in the middle of the user's
   chat on the same session, and its user row separates calls from their results. The heartbeat's
   busy check asks the office's object and is blind to the user's chats in the same way.
   The repair of the next prompt reorders such rows; a wrap-up that begins in the middle is told that
   the running call was interrupted.
6. The recovery note is a system row, and `toLLMMessages` skips system rows: the model sees the
   made-up result of the interrupted call, never the note.
7. `inflightSessions` of the relay is asked and set two awaits apart (`RelayInOrder`).
8. `activeFor` is asked before the file is found and with the name as typed (`SentInTurnOnce`).
9. A relay that was replaced writes its late end into its successor's flags (`LoginIsFollowed`); one cause
   is that `getUpdates` does not use its abort signal (10).
11. `setLastEventId` stores smaller ids too, against its comment.
12. A barge-in is not waited for. An interruption during the store's write leaves a reply twice; one in a later
    round stores the words of the earlier rounds again, which were stored with their tool calls; a round that
    claims a delegation it did not make is spoken and not stored; an abort while the model streams leaves a row
    that says the reply failed, beside the partial reply (`SpeechIsKept`).
13. The recogniser's connection stays open when its start fails or the client leaves early (`SpeechIsKept`);
    the same of the speech model's connection (15, `NoOrphanConnection`).
14. Any new response takes `toolPending` back while the tool runs (`TurnOutlivesItsCall`).
16. A lock file whose time is not written yet counts as stale (`SpinExclusive`).
17. `#callerMail` returns the newest open mail, not the running one (`NoPingPong`).
18. The retry without tool_choice does not look at `gotChunk`, and counts (`NothingRepeated`).
19. The calls of a primary model that fails are run with the text of the spare one, and a stream
    without `[DONE]` loses its calls (20, both `AnswerIsWhole`).
21. The spare model is asked with an aborted signal after a timeout.
22. A shell command that gives up waiting lets the next one start beside its predecessor (`ToolsAreFollowed`).
23. `git commit` without a pathspec takes what others have added, and a failed `git status` is reported as nothing
    to commit (`DeliveriesAreExact`).
24. The records of a runner are written as failed before the failures are told (`ToolsAreFollowed`).
25. A chat that fails is silence to the heartbeat, and success to scheduler and hooks (`TimersSpeakOnce`).
26. `lastSelfCheckPassed` outlives later edits.
27. Each new child begins with an empty list of restarts, so that the cap of restarts is never reached.
28. An early segment that arrived though its answer was lost is sent again with the rest (`HandedOverOnce`).
29. The heartbeat knows its session in memory only: each restart of the server, and a throw after `createSession`'s
    insert, leaves a session in the store and makes another (`TimersSpeakOnce`).

## Proofs

Eight modules hold proofs; each theorem is for every value of the constants, under the module's named
assumption, which says no more than that the parameters are what their names say.

`ColleagueMailboxProofs`, for any number of mails, peers and deaths, under `MailboxAssumption` (besides,
the processes differ from each other and from the lock's two special values):

- `TypeCorrect`: `Spec => []TypeOK`.
- `LockDiscipline`: `Spec => []PersistDiscipline`. A persist under way is the head of its chain,
  only the lock's holder has merged and not yet written, and the child's loop leaves no persist
  behind where the code awaits it.
- `FileOnlyMovesOn`: with `NumMails <= MaxMail`, `Spec => FileNeverRegresses`. At the capacity the theorem
  is false, and rightly so: the merge then drops the oldest mails.

The argument. `TypeOK` alone is not inductive: the end of a persist takes the tail of its chain,
which is a sequence only when the chain is not empty, and `Settle` and `Publish` act on `cur`,
which must be a mail. `PersistInv` adds `PersistDiscipline` and `WorkerHasMail` for that. For
the file, `MergedIsOnward` says that what waits to be written is nowhere behind the file: the
merge establishes it (`MergeIsOnward`, from the ranks; `TrimKeepsAll` says that the cap is idle
below the capacity), and no other process writes while the lock is held, which is the part of
`PersistDiscipline` that `merged <=> lock = p` states. `OnlyWriteTouchesFile` then gives the
action property. Each invariant has one lemma with one step per action.

`MailLedgerProofs`, also with `NumMails <= MaxMail`:

- `MailboxImplementsLedger`: `Spec => ImplementsLedger`, step by step: a dispatch, a write that marks a
  mail running or settles it, a chat's start and a report are steps of the ledger, all else leaves its
  variables alone.
- `ChatsRunOnFile`: `Spec => []ChatIsOnFile`.

`MailInv` is what both need beyond `PersistInv` and `MergedIsOnward`. A write is a ledger step only if the copy it writes agrees with
the file on all that is settled there (`OutcomesAgree`), holds no mail before its dispatch (`NotYetWritten`), and is
the child's memory as it is now (`WritesItsMemory`); the child works on a mail without an outcome (`WorksOnOpenMail`);
a report is of a mail on the file (`PostsAreFiled`), and only a dead parent forgets what it reported (`ToldOnce`).
A chat's mail is running on file because the child persists that before it goes on, as long as it gets the lock
(`ChatPersisted`), and no merge of another process takes a rank back.

`EventDeliveryProofs`, for any peers, notices, capacities and faults, under `DeliveryAssumption`:

- `DeliveryTypeCorrect`, `QueuedStaysOnFile`: `Spec => []TypeOK` and `Spec => []QueuedIsKept`.
- `NoticesArriveOnce`: `Spec => []DeliveredOnce`; only a crash of the bridge or a lost answer shows a notice twice.
- `ResumeSkipsNothing`: `Spec => []IdPassesNothing`: only a restart of the server, which begins the ids anew, lets
  the id pass a covered completion of the buffer that no peer has and nobody queued. Other notices, and a second
  peer's copy of a note, may be passed: the code moves the id when one peer has them.

`DeliveryInv` has a part per promise. `KeptInv`: an entry owed to a peer is in the file, in memory, and in the copy of a
drain, each as far as that exists. `NumberedInv` and `WireInv`: ids and events ascend along buffer and wire, and a
buffered event is on the wire, or passed, or came after the connection was lost. From these, `OnceInv` (without crash)
and `LifeInv` (without restart). `replayAfter` is written as a `SubSeq` of the buffer, about which the provers know enough.

`TaskSchedulerProofs` (`SchedulerTypeCorrect`, `SlotsAreKept`, `MomentsRunOnce`): `SlotsKept` needs that a tick that is not at work has
no entries (`TickJobs`), that marks are just the runs under way (`MarksAreRuns`) and that they are at most
MaxConcurrent (`SlotsBounded`); a tick adds at most what is free, which rests on `FirstOfBounded`: the first n of a
set are at most n. Both bounds hold until a task was marked twice. `OneRunWithoutOverlap` rests on one tick at a time
(`OneTick`): then what it listed of a task is still what the table says (`ListedIsCurrent`), so that
a task whose turn comes is still due (`PendingIsDue`), while the moments it was run for lie behind its
stamp (`FiredIsPast`).

`HubSessionProofs`, for any chats, services, tools, limits and faults, under `SessionAssumption` and `GateAssumption`:

- `RepairIsPaired` and `MadeUpDangles`: of any rows in which each assistant row's calls are its own, the repair makes
  a prompt in which each call is followed by its result and nothing else is a result; and what it makes up
  is the result of a call that has none.
- `PromptsArePaired`: `Spec => []PromptPaired`, whatever is overlapped: with several services too.
- `CallsAreAllowed`: `Spec => []ApprovedBeforeRun`, likewise.
- `CompactionKeepsRows`, `RoundsStayTogether`, `PromptsAreWellFormed` and `WhatIsToldIsOver`: `Spec => NothingLost`,
  `Spec => []RoundsUnbroken`, `Spec => []PromptWellFormed` and `Spec => []InterruptedIsOver`, if the chats
  of the session are all at one service. The user's text chats are (`app.ts` makes one ConversationService for the
  routes); the office's wrap-ups, and chats of a voice route on the same session, come from services of their own, and
  with two services the rounds' property is false, as the run `session_overlap` shows. The theorems say
  that sharing the service is all that is missing.
- `SessionIsTyped`: `Spec => []TypeOK`, the bounds of its counters included.

`SessionInv` is below all of them: the domains, a chat at a call has one left (`RoundKept`), whoever is at work is the
head of its service's queue (`OnesTurn`), a call is asked about no more often than its level wants (`AskedEnough`),
and a compaction reads more than it keeps (`LongEnough`). For the approvals, `MemoryIsAllowed` ties every remembered
fingerprint to a yes of this life of the server, and `AsksInOrder` a second question to the first yes. For the
compaction, `SnapStands`: the history still begins with what the compaction has read, so that a history of the same
length is the same. For the rounds, `RoundStands`: where a chat has a call of a round left to do, no user's row was
written since the round; `CallsAreAsked` tells a new round's calls from all before it.

The repair is proved without induction over sequences: if its states went wrong at some row, there would be
a first such row (`LeastOf`), and the step from the row before it keeps `RepairStands`. What it needs of its input is
what the program writes (`Written`): only assistant rows make calls, each once, and nobody writes a result called missing.
`MoreStands` is the same of what a chat has pushed since it read the session. That nothing is made up about a call
that somebody still does takes the order of rows (`OrderInv`: a result is of a call that was asked for and comes after
its round, and no round begins while calls are left) and `SnapSettled`: a call without a result in what a chat has read
has none to come. For the types, `TurnsLeft` bounds the turns, `GateCaps` what the gate remembers, `Counts` the faults and asks.

`BackgroundProofs` has five parts, which share no state, and puts them together with the scheduler.

- SpinLock (`SpinTypeCorrect`, `SpinIsExclusive`): for any number of processes, files and faults.
  `SpinExclusive` follows from `SpinInv`: files are of different makers (`OwnFiles`), and until an excuse is recorded
  the file of each holder stands at the lock's path (`HoldersFileStands`), of which there is one.
  `UnlinkIsExcused` is the step that matters: whoever unlinks takes no holder's file but its own, or
  an excuse is recorded.
- LlmStream (`StreamTypeCorrect`, `StreamNeverRepeats`): `NothingRepeated` is not inductive, as it
  forgets which attempt a chunk is of. `ThisAttemptOnly` says that what was passed on is this attempt's
  chunks so far, and that a pause has passed on nothing; `AttemptsCounted` bounds the attempts for the types.
- MailChains (`MailNeverGoesRound`): the chain a letter carries is the one it came through where no
  newer letter was taken for its parent (`ChainsAreTrue`), and `MayPassOn` checks it before the hand-over. What
  the workers do makes no difference: `EnvelopeKept`.
- ReminderService and Heartbeat (`TimersAreHeard`): `AnnouncedOnce` rests on `OneScan`: until two scans overlap, what the one
  has listed and not come to is not done, and what it marks is off its list, so that nothing is marked twice. For the
  heartbeat, that a check has found nothing before it has looked and reports only at its end (`FoundInTime`); and that a
  session is made when the remembered one is gone (`MadeForWant`), so that none is left standing unseen (`OneStands`).
- All of it (`BackgroundIsTyped`): `BackgroundSpec => []BackgroundTypeOK`, the scheduler's domains from `TypeStep` of
  TaskSchedulerProofs. The bounds are counts: a scan has a reminder in hand once and each announcement takes it out of
  hand (`InHandOnce`), a check makes one session at most (`SessionsCounted`). That scans and checks are finite sets, as
  those of one run of the program are, is assumed for that. A colleague that writes works on a letter, so that
  `#callerMail` finds one (`CallerHasMail`).

`BridgeProofs` (`BridgeTypeCorrect`, `LoginsAreFollowed`): `LoginIsFollowed` is inductive together with the
domains and `PollsACode`: each start aborts the relay before it and takes the account's token. One lemma
(`StartsKeeps`) serves confirmation and restart, one (`RelaysUntouched`) all that touches no relay.

And of FileJobs (`FilesGoOutInTurn`): the jobs are numbered, each is of a request that is over (`JobsAreNumbered`), so
that there is a number left for the next one; a job that ends hands on as many slots as there are, the first of the queue
being at most so many (`FirstAreFew`), and who still waits then has a running job before it. `ReadersSawAll` says
what the check of a request is good for: as long as no job of its file was made meanwhile, there is none.

And of WeixinRelay (`ChatsInTurn`): until a guard expires a loop waits for the one handler that has not returned
(`AwaitedInv`), and before the second login the second loop has none (`LoopsInv`); so no other handler gets between the check
of `inflightSessions` and the entry (`OneOnItsWay`, `QuietInv`). As long as two chats of a session have not overlapped, each
session has one and counts as busy, and what is open is registered (`OverlapInv`): a registration goes with its answer, which
closed the request (`AnswerOk`), with its window or with its chat. What was begun is behind the cursor that the state file
has, which is where a restart goes on (`StartedInv`).

And of what is sent (`HandedOver`). ReplyStream: the buffer is what of the reply is not sent, from `preflushed` to the
end, as the comment in `chatOnceInner` says (`ReplyStands`), and the user has the first tokens of the reply but for gaps
(`SentUpTo`). A segment whose sending failed may have come all the same, and the rest brings it again: that is the one
text the user may read twice, and no second one, since the early sending ends there (`DoubledOnce`). That each cut and
each piece is a part of what it is cut from, with only gaps around it, are lemmas about the operators (`TrimIs`,
`TrimStartIs`, `SegmentIs`, `PieceEndIs`); one lemma (`SendingKeeps`) serves all that send. Outgoing: who waits at the
gate is the end of the line of those who entered, all before it are over (`LineInv`), and what arrived has its places in
that line, in order (`ArrivalsInv`).

`RequestProofs` has eight.

- VoiceS2S (`TurnsOutliveCalls`, `ConnectionsAreClosed`): one call runs at a time (`OneCallRuns`), and
  until a response overtakes a call that is due, `toolPending` is set (`DueIsPending`): that is what the end of
  a response looks at. The connection's property is inductive with the domains of its flags.
- HookService (`HookLimitsAreKept`): `HookLimitsKept` counts the runs, and a slot handed over is
  counted by the one who wakes and not by the one who leaves; that this is one event's slot needs that an event
  waits once (`QueuedOnce`). For the sessions, the books of a hook whose session no two events sought at once
  tell where its session came from (`SessionsFollowed`).
- ModelAnswer (`AnswersAreWhole`): the property looks at an answer that ended; `OneAuthor` says of a stream
  under way whose pieces were kept, `WholeAnswer` the same at its end.
- Repository (`DeliveriesHoldTheirWork`): the deliveries are serialised (`OneDelivery`), so that what the index holds
  was added by the one under way or left by somebody else (`IndexIsKnown`), the first being new since the mail began
  (`NewIsWritten`, `OnlyNewWork`); and a mail's work is dirty or in a commit until it ends (`WorkIsTracked`).
- UserProfile (`HistoryIsComplete`): `HistoryReplays` is inductive together with whose turn it is (`OneUnderWay`): the
  call that has begun is the first of the queue, so that what it read is still there (`RowIsRead`). `HistoryTold`
  adds where the last event began, which is what a rollback goes back to (`RollbackTakesBack`).
- VoiceCascade (`SpeechKept`): `SpeechIsKept` needs the session's queue, in which a turn that began is the first
  (`QueueInv`), so that the last question is its own while it answers (`RowsInv`); that whoever waits for an interrupted
  turn has no question in the history until the partial reply is written (`ActiveInv`); and for each turn what is stored of
  it at which stage (`ReplyKept`): a partial reply beside a whole one or a round only if the interruption came too late.
- ShellRuns and TaskRunner (`ToolsFollowed`): the commands stand in a queue of which each knows the one before it
  (`QueueOfCommands`), so that of two the later has not begun, or one between them gave up (`BegunInTurn`). For the tasks, each
  has one place in the pool (`PoolInv`), the file lags behind only with news that a task runs (`FileLags`), and
  nobody was told of a task that runs or that the file of a dead process has as running, but for a lost end (`ToldSoFar`),
  while each task that was delegated is accounted for also when the process is down (`Accounted`).
- All of it (`ForegroundIsTyped`): `ForegroundSpec => []ForegroundTypeOK`, the domains of the thirteen parts. Most are in the
  invariants above, and each part has a lemma for the rest (`RelayIsTyped`, `ReplyIsTyped`, `SendsAreTyped`,
  `FileJobsAreTyped` in `BridgeProofs`, which this module extends; `S2SIsTyped`, `HooksAreTyped`, `AnswerIsTyped`,
  `RepoIsTyped`, `ProfileIsTyped`, `RunnerIsTyped` here). The bounds are counts once more: a hook makes a session for each
  event that came to one at most (`HookCounted`), `response.create` is sent once for a call that was answered (`S2STyped`),
  a batch has no message twice, a job is of a request that is over, who still uploads has an attempt left (`OutRest`), and
  what was sent early is a part of the text (`ReplyRest`). For the jobs it is assumed that there is a name to ask for.

Only model-checked: liveness (`ChatEnds`, `FiledIsSettled`, `SettledIsReported`, `DoneArrives`, `AskAnswered`, `DueIsRun`),
since the provers do not treat fairness and ENABLED here. Every other property of the passing runs is stated by a theorem.

## What is not modelled

- Of the mailbox: the backoff of crashed children, the in-process fallback without forks, nudges, and mails
  beyond the capacity in the passing runs; the runner's path through the office (`#delegateViaRunner`, `#applyDone`), which
  `agent-core.ts` never takes since it always attaches a conversation. Another colleague's child
  dies only with the container. MailChains has letters instead of files: the two are not composed.
- Of the lock: flock, which Node's FileHandle does not have, and the path on which the lock file
  cannot be opened for another reason and the work is done unlocked.
- Of the scheduler: a task that is deleted while listed, whose `addRun` then fails on its foreign key.
- Of event delivery: `system.boot`, events that `formatEvent` silences, notices longer than one
  chunk, an empty list of peers. An answer that comes back and the memory of it are one step;
  a lost one is in the model (`SendLost`, `DrainLost`). That ids begin at 1 again with the server
  is in the model, as an exception of `DoneArrives`.
- Of a session: the side effects on the timeline, `coding.run` as a dispatching tool, chats
  whose reader goes away in the middle of the generator, other sessions
  (only the eviction of this one's approvals), `clearForSession`, which nothing calls, and the
  cap on the number of requests. The `session` run has two chats, so that a history never holds two
  interrupted rounds; the repair's flush between rounds is left to a check of the algorithm alone.
  Tools are let run on after their timer in the code; what they do then is not a step of the
  chat.
- Of the bridge: what media in a message become (downloads, decryption), Markdown to text, typing tickets, the routes that
  only read.
- Of voice: audio and its clients, synthesis as more than a sentence spoken, the start order of `voice.ts`; of the turn
  beneath it, tool results and the asking again after tool markup, and the closing round's fallback texts, for which
  the row of a failure stands.
- Of the tools: those without state between calls (files, cloud, validation), `self.check` and `self.apply`.
- Of the model clients: `generate` and the formatting of requests; configuration and environment.
- The timeline (appended to and listed), the sessions API and its token, the audit log, the
  supervisor script (a death is followed by a start at any time), types and prompts, the team site: no state
  whose order matters, or pure I/O.

## Plan

Done: the mailbox with its ledger and proofs, scheduler, delivery, session with approvals, and the
small modules above with their proofs. What is left, in order of importance:

1. An abstract specification of a session, a serial log in which each chat's rounds stand whole, with
   `HubSession` on one service as its implementation; several sessions over one registry.
2. That the history of HubSession alone, without the repair, has a result or a crash for each call.
3. The lock of ColleagueMailbox as the abstraction of SpinLock, with SpinLock's excuses as the
   faults of the mailbox; a run of the mailbox at its capacity, and one with the parent's death.
4. The supervisor of the children with backoff and fallback.
5. Algorithms against reference definitions: that `repairToolResultPairing` keeps each row in its order,
   `mergeMailboxItems` at the capacity, `splitLongText`, `replayAfter`.
