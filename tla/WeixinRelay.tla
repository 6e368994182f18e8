----------------------------- MODULE WeixinRelay -----------------------------
(***************************************************************************)
(* The Weixin relay (weixin-bridge/src/relay.ts, started by index.ts): a   *)
(* loop long-polls for messages and handles them one after the other, each *)
(* under a guard of 90 s; the chat a message opens goes on behind the      *)
(* loop, so that the user's answer to an approval prompt can come in.      *)
(*                                                                         *)
(* One user, whose messages are numbered as sent; a handler is a pair of   *)
(* the loop that started it and its message.  A new login starts a second  *)
(* loop while the first may still have a poll or a batch to finish.        *)
(***************************************************************************)
EXTENDS Naturals, Sequences, FiniteSets

CONSTANTS
  NumMsgs,       \* messages the user sends
  MaxAsks,       \* approvals one chat asks for
  MaxMishaps     \* guards expired, logins, restarts, lost saves and posts: bounds a behaviour

ASSUME RelayAssumption == NumMsgs \in Nat /\ MaxAsks \in Nat /\ MaxMishaps \in Nat

Msgs == 1..NumMsgs
Loops == {1, 2}
Handlers == Loops \X Msgs
Sessions == 1..NumMsgs
None == <<>>     \* no request registered

VARIABLES
  said,        \* how many messages the user has sent
  loop,        \* loop -> "none", "polling", "handling" or "over"
  newest,      \* the loop of the present login
  cursor,      \* loop -> syncBuf: how many messages it has been given
  batch,       \* loop -> the messages of its last poll still to handle
  current,     \* loop -> the message it waits for, or 0
  pc,          \* handler -> where handleInboundMessage is
  inSession,   \* handler -> its sessionId, or 0
  target,      \* handler -> the request it answers
  peerSession, \* state.peerSessions of the user, or 0
  stored,      \* the state file: cursor and session
  pending,     \* pendingApprovals: session -> request or None
  inflight,    \* inflightSessions
  chat,        \* handler -> its chat on the server: "none", "queued", "running" or "over"
  asked,       \* handler -> approvals its chat has asked for
  open,        \* the chats whose last request is open on the server
  heard,       \* handler -> approvals the relay has read
  mishaps,     \* how many there were of what MaxMishaps bounds
  starts,      \* message -> how often its handling was begun (history)
  unanswered,  \* requests whose answer was lost on its way (history)
  odd          \* what happened of it, and "overlap" (history)

loopVars == <<said, loop, newest, cursor, batch, stored, mishaps, starts>>
chatVars == <<chat, asked, open>>
relayVars == <<said, loop, newest, cursor, batch, current, pc, inSession, target, peerSession,
               stored, pending, inflight, chat, asked, open, heard, mishaps, starts,
               unanswered, odd>>

RelayInit ==
  /\ said = 0
  /\ loop = [l \in Loops |-> IF l = 1 THEN "polling" ELSE "none"]
  /\ newest = 1
  /\ cursor = [l \in Loops |-> 0]
  /\ batch = [l \in Loops |-> <<>>]
  /\ current = [l \in Loops |-> 0]
  /\ pc = [h \in Handlers |-> "idle"]
  /\ inSession = [h \in Handlers |-> 0]
  /\ target = [h \in Handlers |-> None]
  /\ peerSession = 0
  /\ stored = [cursor |-> 0, session |-> 0]
  /\ pending = [s \in Sessions |-> None]
  /\ inflight = {}
  /\ chat = [h \in Handlers |-> "none"]
  /\ asked = [h \in Handlers |-> 0]
  /\ open = {}
  /\ heard = [h \in Handlers |-> 0]
  /\ mishaps = 0
  /\ starts = [m \in Msgs |-> 0]
  /\ unanswered = {}
  /\ odd = {}

Mishap(kind) ==
  /\ mishaps < MaxMishaps
  /\ mishaps' = mishaps + 1
  /\ odd' = odd \cup {kind}

UserSends ==
  /\ said < NumMsgs
  /\ said' = said + 1
  /\ UNCHANGED <<loop, newest, cursor, batch, stored, mishaps, starts, current, pc, inSession,
                 target, peerSession, pending, inflight, chatVars, heard, unanswered, odd>>

(***************************************************************************)
(* runWeixinRelay                                                          *)
(***************************************************************************)
\* Mutant: the cursor is saved after the batch, by the next poll.
SavedCursor_Late(l, n) == cursor[l]

\* What the state file says of the cursor once a poll has returned up to n.
SavedCursor(l, n) == n

\* A poll returns messages: the cursor is saved before they are handled.  The
\* state of a replaced login is no longer what save() writes.
Poll(l, saves) ==
  /\ loop[l] = "polling"
  /\ \E n \in (cursor[l] + 1)..said :
       /\ cursor' = [cursor EXCEPT ![l] = n]
       /\ batch' = [batch EXCEPT ![l] = [i \in 1..(n - cursor[l]) |-> cursor[l] + i]]
       /\ stored' = IF saves /\ l = newest
                    THEN [stored EXCEPT !.cursor = SavedCursor(l, n)] ELSE stored
  /\ IF saves THEN UNCHANGED <<mishaps, odd>>
     ELSE Mishap("save")
  /\ loop' = [loop EXCEPT ![l] = "handling"]
  /\ UNCHANGED <<said, newest, starts, current, pc, inSession, target, peerSession, pending,
                 inflight, chatVars, heard, unanswered>>

\* The token is no longer valid, or the abort is seen.
PollEnds(l) ==
  /\ loop[l] = "polling"
  /\ loop' = [loop EXCEPT ![l] = "over"]
  /\ UNCHANGED <<said, newest, cursor, batch, stored, mishaps, starts, current, pc, inSession,
                 target, peerSession, pending, inflight, chatVars, heard, unanswered, odd>>

\* The loop takes the next message of its batch, aborted or not.
Take(l) ==
  /\ loop[l] = "handling" /\ current[l] = 0 /\ batch[l] # <<>>
  /\ LET m == Head(batch[l])
     IN  /\ current' = [current EXCEPT ![l] = m]
         /\ pc' = [pc EXCEPT ![<<l, m>>] = "fetch"]
         /\ starts' = [starts EXCEPT ![m] = @ + 1]
  /\ batch' = [batch EXCEPT ![l] = Tail(@)]
  /\ UNCHANGED <<said, loop, newest, cursor, stored, mishaps, inSession, target, peerSession,
                 pending, inflight, chatVars, heard, unanswered, odd>>

BatchDone(l) ==
  /\ loop[l] = "handling" /\ current[l] = 0 /\ batch[l] = <<>>
  /\ loop' = [loop EXCEPT ![l] = IF l = newest THEN "polling" ELSE "over"]
  /\ UNCHANGED <<said, newest, cursor, batch, stored, mishaps, starts, current, pc, inSession,
                 target, peerSession, pending, inflight, chatVars, heard, unanswered, odd>>

\* withTimeout: after 90 s the loop goes on and so does the handler.
GuardExpires(l) ==
  /\ current[l] # 0
  /\ Mishap("guard")
  /\ current' = [current EXCEPT ![l] = 0]
  /\ UNCHANGED <<said, loop, newest, cursor, batch, stored, starts, pc, inSession, target, peerSession, pending, inflight, chatVars,
                 heard, unanswered>>

\* A confirmed login: a new account that keeps the sessions, and a new loop.
\* Where its first poll begins is for the Weixin gateway to say.
Login ==
  /\ newest = 1
  /\ Mishap("login")
  /\ newest' = 2
  /\ loop' = [loop EXCEPT ![2] = "polling"]
  /\ \E c \in cursor[1]..said :
       /\ cursor' = [cursor EXCEPT ![2] = c]
       /\ stored' = [cursor |-> c, session |-> peerSession]
  /\ UNCHANGED <<said, batch, starts, current, pc, inSession, target, peerSession,
                 pending, inflight, chatVars, heard, unanswered>>

\* The bridge restarts from its state file; the server sees the connections end.
BridgeRestart ==
  /\ Mishap("restart")
  /\ loop' = [l \in Loops |-> IF l = newest THEN "polling" ELSE "over"]
  /\ cursor' = [cursor EXCEPT ![newest] = stored.cursor]
  /\ batch' = [l \in Loops |-> <<>>]
  /\ current' = [l \in Loops |-> 0]
  /\ pc' = [h \in Handlers |-> "idle"]
  /\ inSession' = [h \in Handlers |-> 0]
  /\ target' = [h \in Handlers |-> None]
  /\ peerSession' = stored.session
  /\ pending' = [s \in Sessions |-> None]
  /\ inflight' = {}
  /\ chat' = [h \in Handlers |-> "none"]
  /\ asked' = [h \in Handlers |-> 0]
  /\ open' = {}
  /\ heard' = [h \in Handlers |-> 0]
  /\ UNCHANGED <<said, newest, stored, starts, unanswered>>

(***************************************************************************)
(* handleInboundMessage                                                    *)
(***************************************************************************)
\* The handler h returns to its loop, if that still waits for it.
Returns(h) ==
  current' = [current EXCEPT ![h[1]] = IF @ = h[2] THEN 0 ELSE @]

\* Mutant: a session that is busy is not looked for.
Busy_Unchecked(s) == FALSE

\* A session whose last chat is not over.
Busy(s) == s \in inflight

\* What is decided without a pause once the session is known: an answer to the
\* pending approval, a notice that the last chat is under way, or a new chat.
Route(h, s) ==
  /\ inSession' = [inSession EXCEPT ![h] = s]
  /\ \/ /\ pending[s] # None
        /\ target' = [target EXCEPT ![h] = pending[s]]
        /\ pc' = [pc EXCEPT ![h] = "post"]
        /\ UNCHANGED current
     \/ /\ pending[s] = None /\ Busy(s)
        /\ pc' = [pc EXCEPT ![h] = "over"]
        /\ Returns(h)
        /\ UNCHANGED target
     \/ /\ pending[s] = None /\ ~Busy(s)
        /\ pc' = [pc EXCEPT ![h] = "typing"]
        /\ UNCHANGED <<current, target>>

\* Images and files are fetched; ensureSession finds the session.
Fetched(h) ==
  /\ pc[h] = "fetch" /\ peerSession # 0
  /\ Route(h, peerSession)
  /\ UNCHANGED <<loopVars, peerSession, pending, inflight, chatVars, heard, unanswered, odd>>

\* ... or has to create it.
NeedsSession(h) ==
  /\ pc[h] = "fetch" /\ peerSession = 0
  /\ pc' = [pc EXCEPT ![h] = "session"]
  /\ UNCHANGED <<loopVars, current, inSession, target, peerSession, pending, inflight, chatVars,
                 heard, unanswered, odd>>

\* The sessions made so far.
Created == {s \in Sessions : \E g \in Handlers : inSession[g] >= s \/ peerSession >= s}

\* The session is created, entered for the peer whatever is there by now, and
\* saved with the cursor of the account that has it.
SessionCreated(h) ==
  /\ pc[h] = "session"
  /\ \E s \in Sessions :
       /\ s = 1 + Cardinality(Created)
       /\ peerSession' = s
       /\ stored' = [cursor |-> IF h[1] = newest THEN cursor[h[1]] ELSE stored.cursor,
                     session |-> s]
       /\ Route(h, s)
  /\ UNCHANGED <<said, loop, newest, cursor, batch, mishaps, starts, pending, inflight, chatVars,
                 heard, unanswered, odd>>

\* No session: the message is skipped.
SessionFails(h) ==
  /\ pc[h] = "session"
  /\ pc' = [pc EXCEPT ![h] = "over"]
  /\ Returns(h)
  /\ UNCHANGED <<loopVars, inSession, target, peerSession, pending, inflight, chatVars, heard,
                 unanswered, odd>>

\* The answer reaches the server: it closes the request if it is still open.
AnswerArrives(h) ==
  /\ pc[h] = "post"
  /\ pc' = [pc EXCEPT ![h] = "posted"]
  /\ LET c == target[h][1]
     IN  open' = IF asked[c] = target[h][2] THEN open \ {c} ELSE open
  /\ UNCHANGED <<loopVars, current, inSession, target, peerSession, pending, inflight, chat,
                 asked, heard, unanswered, odd>>

\* pending.resolve: the registration goes, if it is still that of the request.
Resolve(h) ==
  LET s == inSession[h]
  IN  pending' = IF pending[s] = target[h] THEN [pending EXCEPT ![s] = None] ELSE pending

AnswerReturns(h) ==
  /\ pc[h] = "posted"
  /\ Resolve(h)
  /\ pc' = [pc EXCEPT ![h] = "over"]
  /\ Returns(h)
  /\ UNCHANGED <<loopVars, inSession, target, peerSession, inflight, chatVars, heard, unanswered,
                 odd>>

\* The answer is lost: the relay takes the request for closed all the same.
AnswerFails(h) ==
  /\ pc[h] = "post"
  /\ Mishap("answer")
  /\ Resolve(h)
  /\ unanswered' = unanswered \cup {target[h]}
  /\ pc' = [pc EXCEPT ![h] = "over"]
  /\ Returns(h)
  /\ UNCHANGED <<said, loop, newest, cursor, batch, stored, starts, inSession, target,
                 peerSession, inflight, chatVars, heard>>

\* The typing notice is out, or has failed: the chat is opened behind the loop.
OpenChat(h) ==
  /\ pc[h] = "typing"
  /\ pc' = [pc EXCEPT ![h] = "chat"]
  /\ odd' = IF inSession[h] \in inflight THEN odd \cup {"overlap"} ELSE odd
  /\ inflight' = inflight \cup {inSession[h]}
  /\ chat' = [chat EXCEPT ![h] = "queued"]
  /\ Returns(h)
  /\ UNCHANGED <<loopVars, inSession, target, peerSession, pending, asked, open, heard,
                 unanswered>>

(***************************************************************************)
(* chatOnce                                                                *)
(***************************************************************************)
\* permission.request is read: registered over whatever is there, unless its
\* window is over already.
ReadAsk(h) ==
  /\ pc[h] = "chat" /\ heard[h] < asked[h]
  /\ heard' = [heard EXCEPT ![h] = @ + 1]
  /\ pending' = IF h \in open /\ heard[h] + 1 = asked[h]
                THEN [pending EXCEPT ![inSession[h]] = <<h, asked[h]>>] ELSE pending
  /\ UNCHANGED <<loopVars, current, pc, inSession, target, peerSession, inflight, chatVars,
                 unanswered, odd>>

\* Mutant: the relay's window is shorter than the server's.
WindowOver_Short(h, k) == TRUE

\* approvalWindowMs: what the server still waits for, and 5 s more.
WindowOver(h, k) == h \notin open \/ asked[h] # k

Expire(s) ==
  /\ pending[s] # None
  /\ WindowOver(pending[s][1], pending[s][2])
  /\ pending' = [pending EXCEPT ![s] = None]
  /\ UNCHANGED <<loopVars, current, pc, inSession, target, peerSession, inflight, chatVars,
                 heard, unanswered, odd>>

\* Mutant: the registration is left when the chat ends in an error.
Cleared_Not(s) == pending

\* chatOnce's finally: the session's registration goes, whoever's it is.
Cleared(s) == [pending EXCEPT ![s] = None]

\* The stream has ended, or the relay ends it: 5 minutes are over, or 90 s
\* without a byte.  Then the server sees the connection close.
ChatEnds(h) ==
  /\ pc[h] = "chat"
  /\ pc' = [pc EXCEPT ![h] = "flush"]
  /\ pending' = Cleared(inSession[h])
  /\ chat' = [chat EXCEPT ![h] = "over"]
  /\ open' = open \ {h}
  /\ UNCHANGED <<loopVars, current, inSession, target, peerSession, inflight, asked, heard,
                 unanswered, odd>>

\* What is left of the reply is sent, or the sending fails.
Flushed(h) ==
  /\ pc[h] = "flush"
  /\ pc' = [pc EXCEPT ![h] = "over"]
  /\ inflight' = inflight \ {inSession[h]}
  /\ asked' = [asked EXCEPT ![h] = 0]
  /\ heard' = [heard EXCEPT ![h] = 0]
  /\ UNCHANGED <<loopVars, current, inSession, target, peerSession, pending, chat, open,
                 unanswered, odd>>

(***************************************************************************)
(* The server: one chat of a session at a time, approvals that expire      *)
(***************************************************************************)
ServerStarts(h) ==
  /\ chat[h] = "queued"
  /\ \A g \in Handlers : inSession[g] = inSession[h] => chat[g] # "running"
  /\ chat' = [chat EXCEPT ![h] = "running"]
  /\ UNCHANGED <<loopVars, current, pc, inSession, target, peerSession, pending, inflight, asked,
                 open, heard, unanswered, odd>>

ServerAsks(h) ==
  /\ chat[h] = "running" /\ h \notin open /\ asked[h] < MaxAsks
  /\ asked' = [asked EXCEPT ![h] = @ + 1]
  /\ open' = open \cup {h}
  /\ UNCHANGED <<loopVars, current, pc, inSession, target, peerSession, pending, inflight, chat,
                 heard, unanswered, odd>>

ServerExpires(h) ==
  /\ h \in open
  /\ open' = open \ {h}
  /\ UNCHANGED <<loopVars, current, pc, inSession, target, peerSession, pending, inflight, chat,
                 asked, heard, unanswered, odd>>

ServerEnds(h) ==
  /\ chat[h] = "running" /\ h \notin open
  /\ chat' = [chat EXCEPT ![h] = "over"]
  /\ UNCHANGED <<loopVars, current, pc, inSession, target, peerSession, pending, inflight, asked,
                 open, heard, unanswered, odd>>

LoopStep(l) ==
  \/ \E saves \in BOOLEAN : Poll(l, saves)
  \/ PollEnds(l) \/ Take(l) \/ BatchDone(l) \/ GuardExpires(l)

HandlerStep(h) ==
  \/ Fetched(h) \/ NeedsSession(h) \/ SessionCreated(h) \/ SessionFails(h)
  \/ AnswerArrives(h) \/ AnswerReturns(h) \/ AnswerFails(h)
  \/ OpenChat(h) \/ ReadAsk(h) \/ ChatEnds(h) \/ Flushed(h)

ServerStep(h) == ServerStarts(h) \/ ServerAsks(h) \/ ServerExpires(h) \/ ServerEnds(h)

RelayNext ==
  \/ UserSends
  \/ \E l \in Loops : LoopStep(l)
  \/ \E s \in Sessions : Expire(s)
  \/ \E h \in Handlers : HandlerStep(h) \/ ServerStep(h)
  \/ Login \/ BridgeRestart

RelaySpec == RelayInit /\ [][RelayNext]_relayVars

(***************************************************************************)
(* Properties                                                              *)
(***************************************************************************)
Requests == (Handlers \X (1..MaxAsks)) \cup {None}

\* Every variable keeps to its domain.
RelayTypeOK ==
  /\ said \in 0..NumMsgs
  /\ loop \in [Loops -> {"none", "polling", "handling", "over"}]
  /\ newest \in Loops
  /\ cursor \in [Loops -> 0..NumMsgs] /\ current \in [Loops -> 0..NumMsgs]
  /\ \A l \in Loops : Len(batch[l]) <= NumMsgs
  /\ pc \in [Handlers -> {"idle", "fetch", "session", "post", "posted", "typing", "chat",
                          "flush", "over"}]
  /\ inSession \in [Handlers -> {0} \cup Sessions] /\ target \in [Handlers -> Requests]
  /\ peerSession \in {0} \cup Sessions
  /\ stored \in [cursor : 0..NumMsgs, session : {0} \cup Sessions]
  /\ pending \in [Sessions -> Requests] /\ inflight \subseteq Sessions
  /\ chat \in [Handlers -> {"none", "queued", "running", "over"}]
  /\ asked \in [Handlers -> 0..MaxAsks] /\ heard \in [Handlers -> 0..MaxAsks]
  /\ open \subseteq Handlers
  /\ mishaps \in 0..MaxMishaps /\ starts \in [Msgs -> Nat]
  /\ unanswered \subseteq Requests
  /\ odd \subseteq {"guard", "login", "save", "restart", "answer", "overlap"}

InChat(h) == pc[h] \in {"chat", "flush"}

\* "Avoid opening chats side by side" (handleInboundMessage): a session has two
\* chats only after a handler has outlived its guard, or a login has started a
\* second loop beside the first; the check and the entry in inflightSessions are
\* two awaits apart.  And a session that counts as busy has a chat that will
\* release it.
OneChatPerSession ==
  /\ odd \cap {"guard", "login"} = {} =>
       \A g, h \in Handlers : InChat(g) /\ InChat(h) /\ inSession[g] = inSession[h] => g = h
  /\ \A s \in inflight : \E h \in Handlers : InChat(h) /\ inSession[h] = s

\* An approval the relay has read and the server waits for is registered, so
\* that the user's next message answers it, unless its answer was lost or two
\* chats of the session were under way at once; and a registration belongs to a
\* chat that still reads its stream, so that no later message is taken for an
\* answer.
ApprovalsTracked ==
  "overlap" \notin odd =>
    /\ \A h \in open : pc[h] = "chat" /\ heard[h] = asked[h] =>
         \/ pending[inSession[h]] = <<h, asked[h]>>
         \/ <<h, asked[h]>> \in unanswered
    /\ \A s \in Sessions : pending[s] # None => pc[pending[s][1]] = "chat"

\* A message is handled once, restarts included: the cursor is saved before the
\* batch is handled.  A failed save or a second login may hand it out again.
HandledOnce == odd \cap {"save", "login"} = {} => \A m \in Msgs : starts[m] <= 1

\* A person's messages are answered one after the other and once, each session in one
\* chat at a time and with the approvals it asked for.
RelayInOrder == OneChatPerSession /\ ApprovalsTracked /\ HandledOnce
=============================================================================
