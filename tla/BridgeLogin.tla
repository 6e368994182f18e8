----------------------------- MODULE BridgeLogin -----------------------------
(***************************************************************************)
(* The login of the Weixin bridge (weixin-bridge/src/login.ts and          *)
(* index.ts): a page long-polls the state of its QR code, a confirmed code *)
(* becomes the account, and the account's relay is started in the place of *)
(* the one before, which ends in its own time.  The relay itself is in     *)
(* WeixinRelay; here it only runs and ends.                                *)
(*                                                                         *)
(* Codes are numbered as they are made; a code's number stands for the     *)
(* token that confirming it gives, too.                                    *)
(***************************************************************************)
EXTENDS Naturals

CONSTANTS
  Pages,            \* requests of GET /api/weixin/login/:key under way at once
  NumCodes,         \* QR codes made
  NumRelays,        \* relays started: bounds a behaviour
  MaxLoginFaults    \* saves that fail, restarts

ASSUME BridgeAssumption == NumCodes \in Nat /\ NumRelays \in Nat /\ MaxLoginFaults \in Nat

Codes == 1..NumCodes
Relays == 1..NumRelays

VARIABLES
  code,          \* code -> "none", "known" (in #logins) or "gone"
  page,          \* page -> "idle", "polling" or "saving"
  polls,         \* page -> the code it polls
  account,       \* stateStore.account: its token, or 0
  savedAccount,  \* the one in the state file
  staleTokens,   \* the tokens the gateway takes no more
  relay,         \* relay -> "none", "running" or "over"
  relayToken,
  abortedRelays,
  controller,    \* the relay relayController belongs to, or 0
  relayRunning, relayStale,
  loginFaults,
  unsaved,       \* a save failed (history)
  lateEnd        \* a relay ended that had been replaced (history)

bridgeVars == <<code, page, polls, account, savedAccount, staleTokens, relay, relayToken,
                abortedRelays, controller, relayRunning, relayStale, loginFaults, unsaved, lateEnd>>
relaysBook == <<relay, relayToken, abortedRelays, controller, relayRunning, relayStale>>

BridgeInit ==
  /\ code = [k \in Codes |-> "none"]
  /\ page = [p \in Pages |-> "idle"] /\ polls = [p \in Pages |-> 0]
  /\ account = 0 /\ savedAccount = 0 /\ staleTokens = {}
  /\ relay = [r \in Relays |-> "none"] /\ relayToken = [r \in Relays |-> 0]
  /\ abortedRelays = {} /\ controller = 0
  /\ relayRunning = FALSE /\ relayStale = FALSE
  /\ loginFaults = 0 /\ unsaved = FALSE /\ lateEnd = FALSE

\* POST /login: a new code; those that are too old may be purged.
LoginStarts(k) ==
  /\ code[k] = "none" /\ \A j \in 1..(k - 1) : code[j] # "none"
  /\ \E old \in SUBSET {j \in Codes : code[j] = "known"} :
       code' = [j \in Codes |-> IF j = k THEN "known" ELSE IF j \in old THEN "gone" ELSE code[j]]
  /\ UNCHANGED <<page, polls, account, savedAccount, staleTokens, relaysBook, loginFaults,
                 unsaved, lateEnd>>

\* A page asks for its code's state, unless the code is not known or too old.
PageAsks(p, k) ==
  /\ page[p] = "idle" /\ code[k] = "known"
  /\ page' = [page EXCEPT ![p] = "polling"] /\ polls' = [polls EXCEPT ![p] = k]
  /\ UNCHANGED <<code, account, savedAccount, staleTokens, relaysBook, loginFaults, unsaved,
                 lateEnd>>

\* Not confirmed: to be waited for, expired, redirected, or an error.
PageWaits(p) ==
  /\ page[p] = "polling"
  /\ page' = [page EXCEPT ![p] = "idle"]
  /\ UNCHANGED <<code, polls, account, savedAccount, staleTokens, relaysBook, loginFaults, unsaved,
                 lateEnd>>

\* Confirmed, even to two pages: the code is the account, and is being saved.
Confirmed(p) ==
  /\ page[p] = "polling"
  /\ code' = [code EXCEPT ![polls[p]] = "gone"]
  /\ account' = polls[p]
  /\ page' = [page EXCEPT ![p] = "saving"]
  /\ UNCHANGED <<polls, savedAccount, staleTokens, relaysBook, loginFaults, unsaved, lateEnd>>

\* Mutant: the relay before is left to itself.
Replaced_Not == abortedRelays

\* startRelay aborts the relay before.
Replaced == abortedRelays \cup ({controller} \ {0})

\* Mutant: that the last login went stale is not forgotten.
StaleAtStart_Kept == relayStale

StaleAtStart == FALSE

\* Mutant: the relay gets what the page was given, whatever happened since.
TokenToRun_Confirmed(p) == polls[p]

\* startRelay reads the account anew.
TokenToRun(p) == account

\* startRelay, with a token.
Starts(r, token) ==
  /\ relay[r] = "none" /\ \A q \in 1..(r - 1) : relay[q] # "none"
  /\ relay' = [relay EXCEPT ![r] = "running"]
  /\ relayToken' = [relayToken EXCEPT ![r] = token]
  /\ abortedRelays' = Replaced
  /\ controller' = r
  /\ relayRunning' = TRUE /\ relayStale' = StaleAtStart

\* The save returns; by now the account may be another's, or nobody's.
AccountSaved(p) ==
  /\ page[p] = "saving"
  /\ savedAccount' = account
  /\ page' = [page EXCEPT ![p] = "idle"]
  /\ IF TokenToRun(p) = 0 THEN UNCHANGED relaysBook
     ELSE \E r \in Relays : Starts(r, TokenToRun(p))
  /\ UNCHANGED <<code, polls, account, staleTokens, loginFaults, unsaved, lateEnd>>

AccountSaveFails(p) ==
  /\ page[p] = "saving" /\ loginFaults < MaxLoginFaults
  /\ page' = [page EXCEPT ![p] = "idle"]
  /\ loginFaults' = loginFaults + 1 /\ unsaved' = TRUE
  /\ UNCHANGED <<code, polls, account, savedAccount, staleTokens, relaysBook, lateEnd>>

\* POST /logout: stopRelay and clearAccount.  No I/O is awaited between the two.
Logout ==
  /\ account # 0
  /\ abortedRelays' = Replaced /\ controller' = 0 /\ relayRunning' = FALSE
  /\ account' = 0 /\ savedAccount' = 0
  /\ UNCHANGED <<code, page, polls, staleTokens, relay, relayToken, relayStale, loginFaults,
                 unsaved, lateEnd>>

\* The gateway drops a token, for a newer login's or its own reasons.
TokenGoesStale(k) ==
  /\ code[k] = "gone" /\ k \notin staleTokens
  /\ staleTokens' = staleTokens \cup {k}
  /\ UNCHANGED <<code, page, polls, account, savedAccount, relaysBook, loginFaults, unsaved,
                 lateEnd>>

\* A relay ends: it sees the abort, or its poll is told that the token is stale.
RelayEnds(r) ==
  /\ relay[r] = "running"
  /\ \/ r \in abortedRelays /\ UNCHANGED relayStale
     \/ relayToken[r] \in staleTokens /\ relayStale' = TRUE
  /\ relay' = [relay EXCEPT ![r] = "over"]
  /\ relayRunning' = FALSE
  /\ lateEnd' = (lateEnd \/ controller \notin {0, r})
  /\ UNCHANGED <<code, page, polls, account, savedAccount, staleTokens, relayToken, abortedRelays,
                 controller, loginFaults, unsaved>>

\* The process ends and starts again with the account of the state file.
BridgeRestarts(r) ==
  /\ loginFaults < MaxLoginFaults /\ loginFaults' = loginFaults + 1
  /\ savedAccount # 0
  /\ relay[r] = "none" /\ \A q \in 1..(r - 1) : relay[q] # "none"
  /\ relay' = [q \in Relays |-> IF q = r THEN "running"
                                ELSE IF relay[q] = "running" THEN "over" ELSE relay[q]]
  /\ relayToken' = [relayToken EXCEPT ![r] = savedAccount]
  /\ abortedRelays' = {} /\ controller' = r
  /\ relayRunning' = TRUE /\ relayStale' = FALSE
  /\ account' = savedAccount
  /\ code' = [k \in Codes |-> IF code[k] = "known" THEN "gone" ELSE code[k]]
  /\ page' = [p \in Pages |-> "idle"]
  /\ unsaved' = FALSE /\ lateEnd' = FALSE
  /\ UNCHANGED <<polls, savedAccount, staleTokens>>

BridgeNext ==
  \/ \E k \in Codes : LoginStarts(k) \/ TokenGoesStale(k)
  \/ \E p \in Pages, k \in Codes : PageAsks(p, k)
  \/ \E p \in Pages : PageWaits(p) \/ Confirmed(p) \/ AccountSaved(p) \/ AccountSaveFails(p)
  \/ Logout
  \/ \E r \in Relays : RelayEnds(r) \/ BridgeRestarts(r)

BridgeSpec == BridgeInit /\ [][BridgeNext]_bridgeVars

(***************************************************************************)
(* Properties                                                              *)
(***************************************************************************)
\* Every variable keeps to its domain.
BridgeTypeOK ==
  /\ code \in [Codes -> {"none", "known", "gone"}]
  /\ page \in [Pages -> {"idle", "polling", "saving"}] /\ polls \in [Pages -> {0} \cup Codes]
  /\ {account, savedAccount} \subseteq {0} \cup Codes /\ staleTokens \subseteq Codes
  /\ relay \in [Relays -> {"none", "running", "over"}]
  /\ relayToken \in [Relays -> {0} \cup Codes]
  /\ abortedRelays \subseteq Relays /\ controller \in {0} \cup Relays
  /\ {relayRunning, relayStale, unsaved, lateEnd} \subseteq BOOLEAN
  /\ loginFaults \in 0..MaxLoginFaults

\* The relays that will poll again.
GoingOn == {r \in Relays : relay[r] = "running" /\ r \notin abortedRelays}

\* However logins, logouts and the pages' saves cross: only the relay of the last
\* start goes on, after a logout none does, and it polls for the account there is,
\* once that is saved (unless saving it failed).
RelayHasTheAccount ==
  /\ GoingOn \subseteq {controller}
  /\ account = 0 => GoingOn = {}
  /\ ~unsaved /\ (\A p \in Pages : page[p] # "saving") =>
       \A r \in GoingOn : relayToken[r] = account

\* GET /api/weixin/status says the relay runs exactly while it does, and that the
\* login is stale only when the present one is.  Except once a relay that was
\* replaced has ended after its successor began: its end is taken for the other's.
StatusTellsTheRelay ==
  ~lateEnd =>
    /\ relayRunning <=> controller # 0 /\ relay[controller] = "running"
    /\ relayStale /\ controller # 0 => relayToken[controller] \in staleTokens

\* Both: the bridge runs the relay of its account, and says so.
LoginIsFollowed == RelayHasTheAccount /\ StatusTellsTheRelay
=============================================================================
