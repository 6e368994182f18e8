---------------------------- MODULE ApprovalGate ----------------------------
(***************************************************************************)
(* The approvals of one session (approval.ts) as tool-execution.ts uses    *)
(* them.  A call is a number and a tool; a tool stands for a tool with its *)
(* arguments, so it is also the call's fingerprint.  An ask is one         *)
(* permission request: a chat, its call, and which confirmation it is.     *)
(* HubSession runs the chats.                                              *)
(***************************************************************************)
EXTENDS Integers, Sequences, SequencesExt

CONSTANTS
  Chats,           \* the chat requests
  Tools,
  Level,           \* tool -> its permission level, 0 to 3
  AutoApprove,     \* autoApproveAll
  FingerprintCap   \* MAX_APPROVED_FINGERPRINTS and MAX_APPROVED_REQUEST_TOOLS

ASSUME GateAssumption ==
  /\ Level \in [Tools -> 0..3]
  /\ AutoApprove \in BOOLEAN
  /\ FingerprintCap \in Nat \ {0}

VARIABLES
  pending,      \* #pending: the asks the user may still answer
  remembered,   \* #approved of the session, oldest first
  granted,      \* #requestApproved: chat -> what it was allowed, oldest first
  allowed       \* the asks the user has said yes to (history)

gateVars == <<pending, remembered, granted, allowed>>

Calls == [n : Nat, tool : Tools]
Asks == [by : Chats, call : Calls, round : 1..2]

GateInit ==
  /\ pending = {} /\ remembered = <<>>
  /\ granted = [c \in Chats |-> <<>>]
  /\ allowed = {}

\* Mutant: the memory grows without its cap.
Remember_Uncapped(known, tool) ==
  IF Contains(known, tool) THEN known ELSE Append(known, tool)

\* A full set loses its oldest entry, whether or not the new one is in it.
Remember(known, tool) ==
  LET kept == IF Len(known) >= FingerprintCap THEN Tail(known) ELSE known
  IN  IF Contains(kept, tool) THEN kept ELSE Append(kept, tool)

Confirmations(tool) == IF Level[tool] = 3 THEN 2 ELSE 1

\* What runs with nobody there to ask.
Harmless(tool) == AutoApprove \/ Level[tool] <= 1

\* Mutant: the memory of the session opens the highest level, too.
RunsUnasked_AnyLevel(c, tool) ==
  \/ Harmless(tool)
  \/ Contains(granted[c], tool) \/ Contains(remembered, tool)

RunsUnasked(c, tool) ==
  \/ Harmless(tool)
  \/ Level[tool] = 2 /\ (Contains(granted[c], tool) \/ Contains(remembered, tool))

Ask(a) ==
  /\ pending' = pending \cup {a}
  /\ UNCHANGED <<remembered, granted, allowed>>

\* respond with a yes.  The last confirmation is remembered for the session and
\* for the chat.
Allow(a) ==
  LET tool == a.call.tool
  IN  /\ a \in pending
      /\ pending' = pending \ {a}
      /\ allowed' = allowed \cup {a}
      /\ IF a.round = Confirmations(tool)
         THEN /\ remembered' = Remember(remembered, tool)
              /\ granted' = [granted EXCEPT ![a.by] = Remember(@, tool)]
         ELSE UNCHANGED <<remembered, granted>>

\* respond with a no, or the timer.
Refuse(a) ==
  /\ a \in pending
  /\ pending' = pending \ {a}
  /\ UNCHANGED <<remembered, granted, allowed>>

\* clearForRequest
ClearForRequest(c) ==
  /\ granted' = [granted EXCEPT ![c] = <<>>]
  /\ UNCHANGED <<pending, remembered, allowed>>

\* An approval in another session evicts this one, the oldest of
\* MAX_APPROVED_SESSIONS.
Evict ==
  /\ remembered # <<>>
  /\ remembered' = <<>>
  /\ UNCHANGED <<pending, granted, allowed>>

\* The registry does not outlive its process.
GateLost ==
  /\ pending' = {} /\ remembered' = <<>>
  /\ granted' = [c \in Chats |-> <<>>]
  /\ allowed' = {}

GateTypeOK ==
  /\ pending \subseteq Asks /\ allowed \subseteq Asks
  /\ remembered \in Seq(Tools) /\ Len(remembered) <= FingerprintCap
  /\ granted \in [Chats -> Seq(Tools)]
  /\ \A c \in Chats : Len(granted[c]) <= FingerprintCap
=============================================================================
