---------------------------- MODULE BridgeProofs -----------------------------
(***************************************************************************)
(* Of the Weixin bridge: its login, for any number of pages, codes and     *)
(* relays, however logins, logouts, saves and the ends of relays cross;    *)
(* the files it sends in the background, for any number of requests; the   *)
(* relay's chats, for any number of messages and mishaps; its gate, for    *)
(* any number of sends; and a reply, whatever it is cut into.              *)
(***************************************************************************)
EXTENDS MCForeground, FiniteSetTheorems, SequenceTheorems, WellFoundedInduction, TLAPS

(***************************************************************************)
(* The bridge runs the relay of its account and says so.                   *)
(***************************************************************************)
\* A page polls a code.
PollsACode == \A p \in Pages : page[p] = "polling" => polls[p] \in Codes

BridgeInv == BridgeTypeOK /\ PollsACode /\ LoginIsFollowed

\* No relay runs.
LEMMA BridgeInitially == BridgeInit => BridgeInv
  <1> SUFFICES ASSUME BridgeInit PROVE BridgeInv OBVIOUS
  <1> USE BridgeAssumption DEF BridgeInit
  <1>1. BridgeTypeOK
    <2>1. {relayRunning, relayStale, unsaved, lateEnd} \subseteq BOOLEAN OBVIOUS
    <2> QED BY <2>1 DEF BridgeTypeOK
  <1>2. RelayHasTheAccount BY DEF RelayHasTheAccount, GoingOn
  <1>3. StatusTellsTheRelay BY DEF StatusTellsTheRelay
  <1> QED BY <1>1, <1>2, <1>3 DEF BridgeInv, LoginIsFollowed, PollsACode

\* What touches neither the relays nor the account: a page that saves may stop
\* only if the save was taken note of.
LEMMA RelaysUntouched ==
  ASSUME BridgeInv, UNCHANGED <<relaysBook, lateEnd, account>>,
         staleTokens \subseteq staleTokens',
         unsaved => unsaved',
         \A p \in Pages : page[p] = "saving" => page'[p] = "saving" \/ unsaved'
  PROVE  LoginIsFollowed'
  <1>1. GoingOn' = GoingOn BY DEF GoingOn, relaysBook
  <1>2. RelayHasTheAccount'
    BY <1>1 DEF BridgeInv, LoginIsFollowed, RelayHasTheAccount, relaysBook
  <1>3. StatusTellsTheRelay'
    BY DEF BridgeInv, LoginIsFollowed, StatusTellsTheRelay, relaysBook
  <1> QED BY <1>2, <1>3 DEF LoginIsFollowed

\* A new relay takes the place of the one before.
LEMMA StartsKeeps ==
  ASSUME BridgeInv, NEW r \in Relays, Starts(r, account), account # 0,
         UNCHANGED <<account, staleTokens, unsaved, lateEnd>>
  PROVE  LoginIsFollowed'
  <1> USE DEF BridgeInv, BridgeTypeOK
  <1>1. /\ relay' = [relay EXCEPT ![r] = "running"] /\ relayToken' = [relayToken EXCEPT ![r] = account]
        /\ abortedRelays' = abortedRelays \cup ({controller} \ {0}) /\ controller' = r
        /\ relayRunning' = TRUE /\ relayStale' = FALSE
    BY DEF Starts, Replaced, StaleAtStart
  <1>2. r # 0 BY DEF Relays
  <1>3. GoingOn' \subseteq {r}
    <2>1. SUFFICES ASSUME NEW q \in GoingOn', q # r PROVE FALSE OBVIOUS
    <2>2. q \in Relays /\ relay[q] = "running" /\ q \notin abortedRelays' BY <1>1, <2>1 DEF GoingOn
    <2>3. q \in GoingOn BY <1>1, <2>2 DEF GoingOn
    <2>4. q = controller /\ q # 0
      BY <2>2, <2>3 DEF Relays, LoginIsFollowed, RelayHasTheAccount
    <2> QED BY <1>1, <2>2, <2>4
  <1>4. RelayHasTheAccount' BY <1>1, <1>3 DEF RelayHasTheAccount, GoingOn
  <1>5. StatusTellsTheRelay' BY <1>1, <1>2 DEF StatusTellsTheRelay
  <1> QED BY <1>4, <1>5 DEF LoginIsFollowed

\* Each step keeps the domains.
LEMMA BridgeTypeStep == BridgeInv /\ [BridgeNext]_bridgeVars => BridgeTypeOK'
  <1> SUFFICES ASSUME BridgeInv, [BridgeNext]_bridgeVars PROVE BridgeTypeOK' OBVIOUS
  <1> USE BridgeAssumption DEF BridgeInv, BridgeTypeOK, relaysBook
  <1>1. ASSUME NEW k \in Codes, LoginStarts(k) PROVE BridgeTypeOK' BY <1>1 DEF LoginStarts
  <1>2. ASSUME NEW k \in Codes, TokenGoesStale(k) PROVE BridgeTypeOK' BY <1>2 DEF TokenGoesStale
  <1>3. ASSUME NEW p \in Pages, NEW k \in Codes, PageAsks(p, k) PROVE BridgeTypeOK'
    BY <1>3 DEF PageAsks
  <1>4. ASSUME NEW p \in Pages, PageWaits(p) PROVE BridgeTypeOK' BY <1>4 DEF PageWaits
  <1>5. ASSUME NEW p \in Pages, Confirmed(p) PROVE BridgeTypeOK' BY <1>5 DEF Confirmed
  <1>6. ASSUME NEW p \in Pages, AccountSaved(p) PROVE BridgeTypeOK'
    BY <1>6 DEF AccountSaved, Starts, Replaced, StaleAtStart, TokenToRun
  <1>7. ASSUME NEW p \in Pages, AccountSaveFails(p) PROVE BridgeTypeOK' BY <1>7 DEF AccountSaveFails
  <1>8. CASE Logout BY <1>8 DEF Logout, Replaced
  <1>9. ASSUME NEW r \in Relays, RelayEnds(r) PROVE BridgeTypeOK' BY <1>9 DEF RelayEnds
  <1>10. ASSUME NEW r \in Relays, BridgeRestarts(r) PROVE BridgeTypeOK'
    <2>1. {relayRunning', relayStale', unsaved', lateEnd'} \subseteq BOOLEAN
      BY <1>10 DEF BridgeRestarts
    <2>2. relay' \in [Relays -> {"none", "running", "over"}]
          /\ code' \in [Codes -> {"none", "known", "gone"}]
      BY <1>10 DEF BridgeRestarts
    <2>3. page' \in [Pages -> {"idle", "polling", "saving"}] /\ polls' \in [Pages -> {0} \cup Codes]
          /\ {account', savedAccount'} \subseteq {0} \cup Codes /\ staleTokens' \subseteq Codes
          /\ abortedRelays' \subseteq Relays /\ controller' \in {0} \cup Relays
          /\ loginFaults' \in 0..MaxLoginFaults
      BY <1>10 DEF BridgeRestarts
    <2>4. relayToken' \in [Relays -> {0} \cup Codes] BY <1>10 DEF BridgeRestarts
    <2> QED BY <2>1, <2>2, <2>3, <2>4
  <1>11. CASE UNCHANGED bridgeVars BY <1>11 DEF bridgeVars
  <1> QED BY <1>1, <1>2, <1>3, <1>4, <1>5, <1>6, <1>7, <1>8, <1>9, <1>10, <1>11 DEF BridgeNext

\* Each step keeps that polls are of codes.
LEMMA PollsACodeStep == BridgeInv /\ [BridgeNext]_bridgeVars => PollsACode'
  <1> SUFFICES ASSUME BridgeInv, [BridgeNext]_bridgeVars PROVE PollsACode' OBVIOUS
  <1> USE DEF BridgeInv, BridgeTypeOK, PollsACode
  <1>1. ASSUME NEW k \in Codes, LoginStarts(k) \/ TokenGoesStale(k) PROVE PollsACode'
    BY <1>1 DEF LoginStarts, TokenGoesStale
  <1>2. ASSUME NEW p \in Pages, NEW k \in Codes, PageAsks(p, k) PROVE PollsACode'
    BY <1>2 DEF PageAsks
  <1>3. ASSUME NEW p \in Pages, PageWaits(p) \/ Confirmed(p) \/ AccountSaved(p) \/ AccountSaveFails(p)
        PROVE  PollsACode'
    BY <1>3 DEF PageWaits, Confirmed, AccountSaved, AccountSaveFails
  <1>4. CASE Logout BY <1>4 DEF Logout
  <1>5. ASSUME NEW r \in Relays, RelayEnds(r) \/ BridgeRestarts(r) PROVE PollsACode'
    BY <1>5 DEF RelayEnds, BridgeRestarts
  <1>6. CASE UNCHANGED bridgeVars BY <1>6 DEF bridgeVars
  <1> QED BY <1>1, <1>2, <1>3, <1>4, <1>5, <1>6 DEF BridgeNext

\* Each step keeps the property, by the two lemmas above.
LEMMA BridgeRelayStep == BridgeInv /\ [BridgeNext]_bridgeVars => LoginIsFollowed'
  <1> SUFFICES ASSUME BridgeInv, [BridgeNext]_bridgeVars PROVE LoginIsFollowed' OBVIOUS
  <1>1. ASSUME NEW k \in Codes, LoginStarts(k) \/ TokenGoesStale(k) PROVE LoginIsFollowed'
    BY <1>1, RelaysUntouched DEF LoginStarts, TokenGoesStale
  <1>2. ASSUME NEW p \in Pages, NEW k \in Codes, PageAsks(p, k) PROVE LoginIsFollowed'
    BY <1>2, RelaysUntouched DEF PageAsks, BridgeInv, BridgeTypeOK
  <1>3. ASSUME NEW p \in Pages, PageWaits(p) PROVE LoginIsFollowed'
    BY <1>3, RelaysUntouched DEF PageWaits, BridgeInv, BridgeTypeOK
  <1>4. ASSUME NEW p \in Pages, Confirmed(p) PROVE LoginIsFollowed'
    <2>1. /\ UNCHANGED <<relaysBook, staleTokens, unsaved, lateEnd>>
          /\ account' = polls[p] /\ page' = [page EXCEPT ![p] = "saving"]
      BY <1>4 DEF Confirmed
    <2>2. page'[p] = "saving" BY <2>1 DEF BridgeInv, BridgeTypeOK
    <2>3. GoingOn' = GoingOn BY <2>1 DEF GoingOn, relaysBook
    <2>4. account' # 0 BY <1>4, <2>1 DEF Confirmed, BridgeInv, PollsACode, Codes
    <2>5. RelayHasTheAccount'
      BY <2>1, <2>2, <2>3, <2>4
      DEF BridgeInv, LoginIsFollowed, RelayHasTheAccount, relaysBook
    <2>6. StatusTellsTheRelay'
      BY <2>1 DEF BridgeInv, LoginIsFollowed, StatusTellsTheRelay, relaysBook
    <2> QED BY <2>5, <2>6 DEF LoginIsFollowed
  <1>5. ASSUME NEW p \in Pages, AccountSaved(p) PROVE LoginIsFollowed'
    <2>1. UNCHANGED <<account, staleTokens, unsaved, lateEnd>> BY <1>5 DEF AccountSaved
    <2>2. CASE account = 0
      \* Nothing is started: after a logout no relay goes on.
      <3>1. UNCHANGED relaysBook BY <1>5, <2>2 DEF AccountSaved, TokenToRun
      <3>2. GoingOn' = GoingOn BY <3>1 DEF GoingOn, relaysBook
      <3>3. GoingOn = {} BY <2>2 DEF BridgeInv, LoginIsFollowed, RelayHasTheAccount
      <3>4. RelayHasTheAccount' BY <3>2, <3>3 DEF RelayHasTheAccount
      <3>5. StatusTellsTheRelay'
        BY <2>1, <3>1 DEF BridgeInv, LoginIsFollowed, StatusTellsTheRelay, relaysBook
      <3> QED BY <3>4, <3>5 DEF LoginIsFollowed
    <2>3. CASE account # 0
      <3>1. PICK r \in Relays : Starts(r, account) BY <1>5, <2>3 DEF AccountSaved, TokenToRun
      <3> QED BY <2>1, <2>3, <3>1, StartsKeeps
    <2> QED BY <2>2, <2>3
  <1>6. ASSUME NEW p \in Pages, AccountSaveFails(p) PROVE LoginIsFollowed'
    BY <1>6, RelaysUntouched DEF AccountSaveFails
  <1>7. CASE Logout
    <2>1. /\ abortedRelays' = abortedRelays \cup ({controller} \ {0}) /\ controller' = 0
          /\ relayRunning' = FALSE /\ UNCHANGED <<relay, relayToken>>
      BY <1>7 DEF Logout, Replaced
    <2>2. GoingOn' = {}
      BY <2>1 DEF GoingOn, Relays, BridgeInv, LoginIsFollowed, RelayHasTheAccount
    <2>3. RelayHasTheAccount' BY <2>2 DEF RelayHasTheAccount
    <2>4. StatusTellsTheRelay' BY <2>1 DEF StatusTellsTheRelay
    <2> QED BY <2>3, <2>4 DEF LoginIsFollowed
  <1>8. ASSUME NEW r \in Relays, RelayEnds(r) PROVE LoginIsFollowed'
    <2>1. /\ relay' = [relay EXCEPT ![r] = "over"] /\ relayRunning' = FALSE
          /\ lateEnd' = (lateEnd \/ controller \notin {0, r})
          /\ relayStale' = relayStale \/ relayToken[r] \in staleTokens
          /\ UNCHANGED <<relayToken, abortedRelays, controller, account, staleTokens, unsaved, page>>
      BY <1>8 DEF RelayEnds
    <2>2. GoingOn' \subseteq GoingOn BY <2>1 DEF GoingOn, BridgeInv, BridgeTypeOK
    <2>3. RelayHasTheAccount'
      BY <2>1, <2>2 DEF BridgeInv, LoginIsFollowed, RelayHasTheAccount
    <2>4. ~lateEnd' => ~lateEnd /\ controller \in {0, r} BY <2>1
    <2>5. relay'[r] = "over" BY <2>1 DEF BridgeInv, BridgeTypeOK
    <2>6. StatusTellsTheRelay'
      BY <2>1, <2>4, <2>5 DEF BridgeInv, LoginIsFollowed, StatusTellsTheRelay
    <2> QED BY <2>3, <2>6 DEF LoginIsFollowed
  <1>9. ASSUME NEW r \in Relays, BridgeRestarts(r) PROVE LoginIsFollowed'
    <2>1. /\ relay' = [q \in Relays |-> IF q = r THEN "running"
                                        ELSE IF relay[q] = "running" THEN "over" ELSE relay[q]]
          /\ relayToken' = [relayToken EXCEPT ![r] = savedAccount]
          /\ controller' = r /\ relayRunning' = TRUE /\ relayStale' = FALSE
          /\ account' = savedAccount /\ savedAccount # 0
      BY <1>9 DEF BridgeRestarts
    <2>2. GoingOn' \subseteq {r} BY <2>1 DEF GoingOn
    <2>3. r # 0 /\ relayToken'[r] = savedAccount BY <2>1 DEF Relays, BridgeInv, BridgeTypeOK
    <2>4. RelayHasTheAccount' BY <2>1, <2>2, <2>3 DEF RelayHasTheAccount
    <2>5. StatusTellsTheRelay' BY <2>1, <2>3 DEF StatusTellsTheRelay
    <2> QED BY <2>4, <2>5 DEF LoginIsFollowed
  <1>10. CASE UNCHANGED bridgeVars
    BY <1>10, RelaysUntouched DEF bridgeVars, relaysBook
  <1> QED BY <1>1, <1>2, <1>3, <1>4, <1>5, <1>6, <1>7, <1>8, <1>9, <1>10 DEF BridgeNext

\* In every behaviour of the bridge's login every variable keeps to its domain.
THEOREM BridgeTypeCorrect == BridgeSpec => []BridgeTypeOK
  <1>1. BridgeInv /\ [BridgeNext]_bridgeVars => BridgeInv'
    BY BridgeTypeStep, PollsACodeStep, BridgeRelayStep DEF BridgeInv
  <1>2. BridgeInv => BridgeTypeOK BY DEF BridgeInv
  <1> QED BY BridgeInitially, <1>1, <1>2, PTL DEF BridgeSpec

\* startRelay, stopRelay and the login route: only the last relay started goes on,
\* for the account there is, and the status says so until a replaced relay's late
\* end is taken for its successor's.
THEOREM LoginsAreFollowed == BridgeSpec => []LoginIsFollowed
  <1>1. BridgeInv /\ [BridgeNext]_bridgeVars => BridgeInv'
    BY BridgeTypeStep, PollsACodeStep, BridgeRelayStep DEF BridgeInv
  <1>2. BridgeInv => LoginIsFollowed BY DEF BridgeInv
  <1> QED BY BridgeInitially, <1>1, <1>2, PTL DEF BridgeSpec

(***************************************************************************)
(* Each file is sent in its turn, and once.                                *)
(***************************************************************************)
\* What requests and jobs are made of, whether or not there is a name at all.
KnownNames == Names \cup {NoJob.file}
RequestEntries == [at : {"none", "reading", "over"}, name : KnownNames, passed : BOOLEAN]
JobEntries == [file : KnownNames, unseen : BOOLEAN, atWork : BOOLEAN,
               status : Unfinished \cup {"none", "done", "failed", "evicted"}]

FileJobsDomains ==
  /\ request \in [Ids -> RequestEntries] /\ job \in [Ids -> JobEntries]
  /\ made \in Nat /\ waiting \in Seq(Ids)
  /\ \A r \in Ids : request[r].at = "reading" => request[r].name \in Names

\* Each job is of a request that is over, the jobs are numbered as they were made, and
\* one that is on its way has its #run.
Over == {r \in Ids : request[r].at = "over"}
JobsAreNumbered ==
  /\ made <= Cardinality(Over)
  /\ \A j \in Ids : /\ job[j].status = "none" <=> j > made
                    /\ job[j].status \in Uploading => job[j].atWork

\* A request that reads a file under its own name, and was not overtaken, has no rival.
ReadersSawAll ==
  \A r, j \in Ids :
    (request[r].at = "reading" /\ ~request[r].passed /\ FileOf[request[r].name] = request[r].name
       /\ job[j].status \in Unfinished) => job[j].file # request[r].name

FileJobsInv == FileJobsDomains /\ JobsAreNumbered /\ ReadersSawAll /\ SentInTurnOnce

\* The files on their way.
UploadJobs(table) == {j \in Ids : table[j].status \in Uploading}

\* Sets of jobs are finite.
LEMMA JobsAreFinite ==
  ASSUME NEW A \in SUBSET Ids
  PROVE  /\ IsFiniteSet(A) /\ Cardinality(A) \in Nat /\ Cardinality(A) <= NumRequests
         /\ \A B \in SUBSET A : Cardinality(B) <= Cardinality(A)
  <1>1. NumRequests \in Nat BY FileJobsAssumption
  <1>2. IsFiniteSet(Ids) /\ Cardinality(Ids) = NumRequests BY <1>1, FS_Interval DEF Ids
  <1>3. IsFiniteSet(A) /\ Cardinality(A) <= NumRequests BY <1>2, FS_Subset
  <1>4. Cardinality(A) \in Nat BY <1>3, FS_CardinalityType
  <1>5. \A B \in SUBSET A : Cardinality(B) <= Cardinality(A) BY <1>3, FS_Subset
  <1> QED BY <1>3, <1>4, <1>5

\* The first n of the queue are at most n.
LEMMA FirstAreFew ==
  ASSUME FileJobsDomains, NEW n \in 0..Len(waiting)
  PROVE  LET first == {waiting[k] : k \in 1..n}
         IN  first \in SUBSET Ids /\ Cardinality(first) <= n
  <1> DEFINE first == {waiting[k] : k \in 1..n}
             f == [k \in 1..n |-> waiting[k]]
  <1>1. waiting \in Seq(Ids) /\ n \in Nat BY DEF FileJobsDomains
  <1>2. first \in SUBSET Ids BY <1>1
  <1>3. f \in Surjection(1..n, first) BY DEF Surjection
  <1>4. IsFiniteSet(1..n) /\ Cardinality(1..n) = n BY <1>1, FS_Interval
  <1> HIDE DEF first, f
  <1>5. Cardinality(first) <= Cardinality(1..n) BY <1>3, <1>4, FS_Surjection
  <1> QED BY <1>2, <1>4, <1>5 DEF first

\* Two sets of jobs.
LEMMA JobsTogether ==
  ASSUME NEW A \in SUBSET Ids, NEW B \in SUBSET Ids
  PROVE  Cardinality(A \cup B) <= Cardinality(A) + Cardinality(B)
  <1>1. IsFiniteSet(A) /\ IsFiniteSet(B) /\ Cardinality(A) \in Nat /\ Cardinality(B) \in Nat
    BY JobsAreFinite
  <1>2. Cardinality(A \cap B) \in Nat
    <2>1. A \cap B \in SUBSET Ids OBVIOUS
    <2> QED BY <2>1, JobsAreFinite
  <1>3. Cardinality(A \cup B) = Cardinality(A) + Cardinality(B) - Cardinality(A \cap B)
    BY <1>1, FS_Union
  <1> QED BY <1>1, <1>2, <1>3

\* A request that was answered is over.
LEMMA AnsweredIsOver == Answered \in RequestEntries /\ Answered.at = "over"
  <1> DEFINE name == CHOOSE n \in Names : TRUE
  <1>1. NoRequest = [at |-> "none", name |-> name, passed |-> FALSE] /\ name \in KnownNames
    BY DEF NoRequest, KnownNames, NoJob
  <1>2. NoRequest \in RequestEntries
    <2> HIDE DEF name
    <2> QED BY <1>1 DEF RequestEntries
  <1>3. Answered = [NoRequest EXCEPT !.at = "over"] BY DEF Answered
  <1> QED BY <1>2, <1>3 DEF RequestEntries

\* Nothing is asked for.
LEMMA FileJobsInitially == FileJobsInit => FileJobsInv
  <1> SUFFICES ASSUME FileJobsInit PROVE FileJobsInv OBVIOUS
  <1> USE DEF FileJobsInit
  <1>1. /\ NoRequest \in RequestEntries /\ NoJob \in JobEntries
        /\ NoRequest.at = "none" /\ NoJob.status = "none" /\ ~NoJob.atWork
    BY DEF NoRequest, NoJob, RequestEntries, JobEntries, KnownNames
  <1>2. \A j \in Ids : job[j].status = "none" /\ request[j].at = "none" BY <1>1
  <1>3. FileJobsDomains
    <2>1. <<>> \in Seq(Ids) OBVIOUS
    <2> QED BY <1>1, <2>1 DEF FileJobsDomains
  <1>4. JobsAreNumbered
    <2>1. Cardinality(Over) \in Nat
      <3>1. Over \in SUBSET Ids BY DEF Over
      <3> QED BY <3>1, JobsAreFinite
    <2>2. \A j \in Ids : j > made BY FileJobsAssumption DEF Ids
    <2> QED BY <1>2, <2>1, <2>2 DEF JobsAreNumbered, Uploading
  <1>5. ReadersSawAll BY <1>2 DEF ReadersSawAll
  <1>6. QueueIsServed
    <2>1. UploadJobs(job) = {} BY <1>2 DEF UploadJobs, Uploading
    <2>2. ActiveCount(job) = 0 BY <2>1, FS_EmptySet DEF ActiveCount, UploadJobs
    <2>3. DOMAIN waiting = {} OBVIOUS
    <2> QED BY <1>2, <2>2, <2>3, FileJobsAssumption DEF QueueIsServed, IsInjective
  <1>7. OneJobPerFile BY <1>2 DEF OneJobPerFile, Unfinished, Uploading
  <1> QED BY <1>3, <1>4, <1>5, <1>6, <1>7 DEF FileJobsInv, SentInTurnOnce

\* A request is asked, or ends without a job.
LEMMA AskingKeepsJobs ==
  ASSUME FileJobsInv, NEW r \in Ids, AskFails(r) \/ \E n \in Names : Ask(r, n)
  PROVE  FileJobsInv'
  <1>0. FileJobsDomains /\ JobsAreNumbered /\ ReadersSawAll /\ QueueIsServed /\ OneJobPerFile
    BY DEF FileJobsInv, SentInTurnOnce
  <1>1. Answered \in RequestEntries /\ Answered.at = "over" BY AnsweredIsOver
  <1>2. PICK entry \in RequestEntries :
          /\ request' = [request EXCEPT ![r] = entry]
          /\ entry.at \in {"reading", "over"}
          /\ entry.at = "reading" => entry.name \in Names /\ ActiveFor(entry.name) = {}
    <2>1. CASE AskFails(r) BY <1>1, <2>1 DEF AskFails
    <2>2. CASE \E n \in Names : Ask(r, n)
      <3>1. PICK n \in Names : Ask(r, n) BY <2>2
      <3> DEFINE entry == [at |-> "reading", name |-> n, passed |-> FALSE]
      <3>2. entry \in RequestEntries /\ entry.at = "reading" /\ entry.name = n
        BY DEF RequestEntries, KnownNames
      <3>3. CASE ActiveFor(n) = {}
        <4>1. request' = [request EXCEPT ![r] = entry] BY <3>1, <3>3 DEF Ask
        <4> QED BY <3>2, <3>3, <4>1
      <3>4. CASE ActiveFor(n) # {}
        <4>1. request' = [request EXCEPT ![r] = Answered] BY <3>1, <3>4 DEF Ask
        <4> QED BY <1>1, <4>1
      <3> QED BY <3>3, <3>4
    <2> QED BY <2>1, <2>2
  <1>3. UNCHANGED <<made, job, waiting>> /\ request[r].at # "over" BY DEF AskFails, Ask
  <1>4. \A q \in Ids : request'[q] = IF q = r THEN entry ELSE request[q]
    BY <1>0, <1>2 DEF FileJobsDomains
  <1>5. FileJobsDomains' BY <1>0, <1>2, <1>3 DEF FileJobsDomains
  <1>6. JobsAreNumbered'
    <2>1. Over \in SUBSET Over' /\ Over' \in SUBSET Ids BY <1>3, <1>4 DEF Over
    <2>2. Cardinality(Over) <= Cardinality(Over') BY <2>1, JobsAreFinite
    <2>3. Cardinality(Over) \in Nat /\ Cardinality(Over') \in Nat
      <3>1. Over \in SUBSET Ids BY DEF Over
      <3> QED BY <2>1, <3>1, JobsAreFinite
    <2>4. made <= Cardinality(Over') BY <1>0, <2>2, <2>3 DEF JobsAreNumbered, FileJobsDomains
    <2> QED BY <1>0, <1>3, <2>4 DEF JobsAreNumbered
  <1>7. ReadersSawAll'
    <2>1. \A j \in Ids : entry.at = "reading" /\ job[j].status \in Unfinished
                           => job[j].file # entry.name
      BY <1>2 DEF ActiveFor
    <2> QED BY <1>0, <1>3, <1>4, <2>1 DEF ReadersSawAll
  <1>8. QueueIsServed' BY <1>0, <1>3 DEF QueueIsServed, ActiveCount
  <1>9. OneJobPerFile' BY <1>0, <1>3 DEF OneJobPerFile
  <1> QED BY <1>5, <1>6, <1>7, <1>8, <1>9 DEF FileJobsInv, SentInTurnOnce

\* A job is uploaded, delivered, or fails.
LEMMA UploadingKeepsJobs ==
  ASSUME FileJobsInv, NEW j \in Ids,
         Uploaded(j) \/ \E status \in {"done", "failed"} : Finishes(j, status)
  PROVE  FileJobsInv'
  <1>0. FileJobsDomains /\ JobsAreNumbered /\ ReadersSawAll /\ QueueIsServed /\ OneJobPerFile
    BY DEF FileJobsInv, SentInTurnOnce
  <1>1. PICK status \in {"sending", "done", "failed"} : job' = [job EXCEPT ![j].status = status]
    BY DEF Uploaded, Finishes
  <1>2. job[j].status \in Uploading /\ UNCHANGED <<request, made, waiting>>
    BY DEF Uploaded, Finishes, Uploading
  <1>3. /\ job' \in [Ids -> JobEntries]
        /\ \A i \in Ids : /\ job'[i].status = IF i = j THEN status ELSE job[i].status
                          /\ job'[i].file = job[i].file /\ job'[i].unseen = job[i].unseen
                          /\ job'[i].atWork = job[i].atWork
    BY <1>0, <1>1 DEF FileJobsDomains, JobEntries, Unfinished, Uploading
  <1>4. \A i \in Ids : /\ job'[i].status \in Uploading => job[i].status \in Uploading
                       /\ job'[i].status \in Unfinished => job[i].status \in Unfinished
                       /\ job'[i].status = "queued" <=> job[i].status = "queued"
                       /\ job'[i].status = "none" <=> job[i].status = "none"
    BY <1>2, <1>3 DEF Unfinished, Uploading
  <1>5. FileJobsDomains' BY <1>0, <1>2, <1>3 DEF FileJobsDomains
  <1>6. JobsAreNumbered' BY <1>0, <1>2, <1>3, <1>4 DEF JobsAreNumbered, Over
  <1>7. ReadersSawAll' BY <1>0, <1>2, <1>3, <1>4 DEF ReadersSawAll
  <1>8. QueueIsServed'
    <2>1. UploadJobs(job') \in SUBSET UploadJobs(job) /\ UploadJobs(job) \in SUBSET Ids
      BY <1>4 DEF UploadJobs
    <2>2. ActiveCount(job)' <= ActiveCount(job)
      BY <2>1, JobsAreFinite DEF ActiveCount, UploadJobs
    <2>3. ActiveCount(job) \in Nat /\ ActiveCount(job)' \in Nat
      BY <2>1, JobsAreFinite DEF ActiveCount, UploadJobs
    <2>4. ActiveCount(job)' <= MaxConcurrent
      BY <1>0, <2>2, <2>3, FileJobsAssumption DEF QueueIsServed
    <2> QED BY <1>0, <1>2, <1>3, <1>4, <2>4 DEF QueueIsServed
  <1>9. OneJobPerFile' BY <1>0, <1>3, <1>4 DEF OneJobPerFile
  <1> QED BY <1>5, <1>6, <1>7, <1>8, <1>9 DEF FileJobsInv, SentInTurnOnce

\* The file is read, and there is a job.
LEMMA ReadingMakesJob ==
  ASSUME FileJobsInv, NEW r \in Ids, AskDone(r)
  PROVE  FileJobsInv'
  <1>0. FileJobsDomains /\ JobsAreNumbered /\ ReadersSawAll /\ QueueIsServed /\ OneJobPerFile
    BY DEF FileJobsInv, SentInTurnOnce
  <1> DEFINE m == made + 1
             f == FileOf[request[r].name]
             waits == ActiveCount(job) >= MaxConcurrent
             queued == [file |-> f, status |-> "queued", atWork |-> FALSE,
                        unseen |-> request[r].passed \/ request[r].name # f]
             entry == IF waits THEN queued ELSE Running(queued)
  <1>1. /\ request[r].at = "reading" /\ made' = m
        /\ job' = [job EXCEPT ![m] = entry]
        /\ waiting' = IF waits THEN Append(waiting, m) ELSE waiting
        /\ request' = [q \in Ids |->
             CASE q = r -> Answered
               [] q # r /\ request[q].at = "reading" /\ FileOf[request[q].name] = f
                      -> [request[q] EXCEPT !.passed = TRUE]
               [] OTHER -> request[q]]
    BY DEF AskDone
  <1>2. /\ request'[r] = Answered
        /\ \A q \in Ids \ {r} : /\ request'[q].at = request[q].at
                                /\ request'[q].name = request[q].name
                                /\ request'[q] \in RequestEntries
                                /\ ~request'[q].passed => ~request[q].passed
                                /\ request'[q].at = "reading" /\ ~request'[q].passed =>
                                     FileOf[request[q].name] # f
    BY <1>0, <1>1 DEF FileJobsDomains, RequestEntries
  <1>3. Answered \in RequestEntries /\ Answered.at = "over" BY AnsweredIsOver
  <1>4. m \in Ids /\ m <= Cardinality(Over')
    <2>1. Over \in SUBSET Ids /\ r \notin Over /\ Over' \in SUBSET Ids BY <1>1 DEF Over
    <2>2. Over' = Over \cup {r} BY <1>2, <1>3 DEF Over
    <2>3. IsFiniteSet(Over) /\ Cardinality(Over) \in Nat BY <2>1, JobsAreFinite
    <2>4. Cardinality(Over') = Cardinality(Over) + 1 BY <2>1, <2>2, <2>3, FS_AddElement
    <2>5. Cardinality(Over') <= NumRequests BY <2>1, JobsAreFinite
    <2>6. made \in Nat /\ made <= Cardinality(Over)
      BY <1>0 DEF FileJobsDomains, JobsAreNumbered
    <2> QED BY <2>3, <2>4, <2>5, <2>6, FileJobsAssumption DEF Ids
  <1>5. job[m].status = "none" /\ \A j \in Ids : job[j].status # "none" => j < m
    BY <1>0, <1>4 DEF JobsAreNumbered, FileJobsDomains, Ids
  <1>6. f \in Names BY <1>0, <1>1, FileJobsAssumption DEF FileJobsDomains
  <1>7. /\ entry \in JobEntries
        /\ entry.file = f /\ entry.unseen = (request[r].passed \/ request[r].name # f)
        /\ entry.status = (IF waits THEN "queued" ELSE "uploading")
        /\ entry.atWork = ~waits
    <2>1. queued \in JobEntries
      <3>1. (request[r].passed \/ request[r].name # f) \in BOOLEAN OBVIOUS
      <3>2. f \in KnownNames BY <1>6 DEF KnownNames
      <3> HIDE DEF f
      <3> QED BY <3>1, <3>2 DEF JobEntries, Unfinished
    <2>2. CASE waits BY <2>1, <2>2
    <2>3. CASE ~waits
      <3>1. entry = [queued EXCEPT !.status = "uploading", !.atWork = TRUE] BY <2>3 DEF Running
      <3>2. /\ entry.file = queued.file /\ entry.unseen = queued.unseen
            /\ entry.status = "uploading" /\ entry.atWork = TRUE /\ entry \in JobEntries
        <4> HIDE DEF queued, entry
        <4> QED BY <2>1, <3>1 DEF JobEntries, Unfinished, Uploading
      <3>3. queued.file = f /\ queued.unseen = (request[r].passed \/ request[r].name # f)
        OBVIOUS
      <3> QED BY <2>3, <3>2, <3>3
    <2> QED BY <2>2, <2>3
  <1> HIDE DEF entry, queued
  <1>8. /\ job' \in [Ids -> JobEntries] /\ job'[m] = entry
        /\ \A j \in Ids \ {m} : job'[j] = job[j]
    <2> HIDE DEF m
    <2> QED BY <1>0, <1>1, <1>4, <1>7 DEF FileJobsDomains
  <1>9. waiting' \in Seq(Ids)
    <2> HIDE DEF m
    <2> QED BY <1>0, <1>1, <1>4 DEF FileJobsDomains
  <1> HIDE DEF f
  <1>10. FileJobsDomains'
    <2>1. request' \in [Ids -> RequestEntries] BY <1>1, <1>2, <1>3
    <2>2. m \in Nat BY <1>0 DEF FileJobsDomains
    <2> QED BY <1>0, <1>1, <1>2, <1>3, <1>8, <1>9, <2>1, <2>2 DEF FileJobsDomains
  <1>11. JobsAreNumbered'
    <2>1. \A j \in Ids : job'[j].status = "none" <=> j > m
      <3>1. \A j \in Ids \ {m} : job[j].status = "none" <=> j > made
        BY <1>0 DEF JobsAreNumbered
      <3>2. made \in Nat /\ \A j \in Ids : j \in Nat BY <1>0 DEF FileJobsDomains, Ids
      <3> QED BY <1>7, <1>8, <3>1, <3>2
    <2>2. \A j \in Ids : job'[j].status \in Uploading => job'[j].atWork
      BY <1>0, <1>7, <1>8 DEF JobsAreNumbered, Uploading
    <2> QED BY <1>1, <1>4, <2>1, <2>2 DEF JobsAreNumbered
  <1>12. ReadersSawAll'
    <2> SUFFICES ASSUME NEW q \in Ids, NEW j \in Ids, request'[q].at = "reading",
                        ~request'[q].passed, FileOf[request'[q].name] = request'[q].name,
                        job'[j].status \in Unfinished
                 PROVE  job'[j].file # request'[q].name
      BY DEF ReadersSawAll
    <2>1. q # r BY <1>2, <1>3
    <2>2. CASE j = m BY <1>2, <1>7, <1>8, <2>1, <2>2
    <2>3. CASE j # m BY <1>0, <1>2, <1>8, <2>1, <2>3 DEF ReadersSawAll
    <2> QED BY <2>2, <2>3
  <1>13. OneJobPerFile'
    <2> SUFFICES ASSUME NEW i \in Ids, NEW j \in Ids, i < j, job'[i].file = job'[j].file,
                        job'[i].status \in Unfinished, job'[j].status \in Unfinished
                 PROVE  job'[j].unseen
      BY DEF OneJobPerFile
    <2>1. CASE j = m
      <3>1. i # m /\ job[i].file = f /\ job[i].status \in Unfinished
        BY <1>4, <1>7, <1>8, <2>1 DEF Ids
      <3>2. ASSUME ~request[r].passed, request[r].name = f PROVE FALSE
        <4>1. FileOf[request[r].name] = request[r].name BY <3>2 DEF f
        <4> QED BY <1>0, <1>1, <3>1, <3>2, <4>1 DEF ReadersSawAll
      <3> QED BY <1>7, <1>8, <2>1, <3>2
    <2>2. CASE i = m
      <3>1. j # m /\ job[j].status \in Unfinished BY <1>4, <1>8, <2>2 DEF Ids
      <3>2. job[j].status # "none" BY <3>1 DEF Unfinished, Uploading
      <3>3. j < m BY <1>5, <3>2
      <3> QED BY <1>4, <2>2, <3>3 DEF Ids
    <2>3. CASE i # m /\ j # m BY <1>0, <1>8, <2>3 DEF OneJobPerFile
    <2> QED BY <2>1, <2>2, <2>3
  <1>14. ActiveCount(job) \in Nat /\ ActiveCount(job)' \in Nat
    <2>1. UploadJobs(job) \in SUBSET Ids /\ UploadJobs(job') \in SUBSET Ids BY DEF UploadJobs
    <2> QED BY <2>1, JobsAreFinite DEF ActiveCount, UploadJobs
  <1>15. CASE waits
    <2>1. UploadJobs(job') = UploadJobs(job)
      BY <1>5, <1>7, <1>8, <1>15 DEF UploadJobs, Uploading
    <2>2. ActiveCount(job)' = ActiveCount(job) BY <2>1 DEF ActiveCount, UploadJobs
    <2>3. PICK n \in Nat : n = Len(waiting) BY <1>0 DEF FileJobsDomains
    <2>4. /\ DOMAIN waiting = 1..n /\ DOMAIN waiting' = 1..(n + 1) /\ waiting'[n + 1] = m
          /\ \A k \in 1..n : waiting'[k] = waiting[k] /\ waiting[k] \in Ids
      <3> HIDE DEF m
      <3> QED BY <1>0, <1>1, <1>4, <1>15, <2>3 DEF FileJobsDomains
    <2>5. \A k \in 1..n : job[waiting[k]].status = "queued" BY <1>0, <2>4 DEF QueueIsServed
    <2>6. \A k \in 1..n : waiting[k] # m BY <1>5, <2>5
    <2>7. \A k \in 1..(n + 1) : k \in 1..n \/ k = n + 1 OBVIOUS
    <2>8. \A j \in Ids : job'[j].status = "queued" <=> \E k \in DOMAIN waiting' : waiting'[k] = j
      <3>1. CASE waits
        <4>1. job'[m].status = "queued" BY <1>7, <1>8, <1>15
        <4>2. \A j \in Ids \ {m} : job[j].status = "queued" <=> \E k \in 1..n : waiting[k] = j
          BY <1>0, <2>4 DEF QueueIsServed
        <4>3. n + 1 \in 1..(n + 1) /\ 1..n \subseteq 1..(n + 1) OBVIOUS
        <4> HIDE DEF m
        <4> QED BY <1>8, <2>4, <2>6, <2>7, <4>1, <4>2, <4>3
      <3> QED BY <1>15, <3>1
    <2>9. IsInjective(waiting')
      <3>1. \A k, l \in 1..n : waiting[k] = waiting[l] => k = l
        BY <1>0, <2>4 DEF QueueIsServed, IsInjective
      <3> HIDE DEF m
      <3> QED BY <2>4, <2>6, <2>7, <3>1 DEF IsInjective
    <2>10. \E j \in Ids : job'[j].atWork
      <3>1. UploadJobs(job) # {}
        <4> SUFFICES ASSUME UploadJobs(job) = {} PROVE FALSE OBVIOUS
        <4>1. ActiveCount(job) = 0 BY FS_EmptySet DEF ActiveCount, UploadJobs
        <4> QED BY <1>15, <4>1, FileJobsAssumption
      <3>2. PICK j \in Ids : job[j].status \in Uploading BY <3>1 DEF UploadJobs
      <3>3. j # m BY <1>5, <3>2 DEF Uploading
      <3> QED BY <1>0, <1>8, <3>2, <3>3 DEF JobsAreNumbered
    <2>11. QueueIsServed' BY <1>0, <2>2, <2>8, <2>9, <2>10 DEF QueueIsServed
    <2> QED BY <1>10, <1>11, <1>12, <1>13, <2>11 DEF FileJobsInv, SentInTurnOnce
  <1>16. CASE ~waits
    <2>1. waiting' = waiting BY <1>1, <1>16
    <2>2. UploadJobs(job') = UploadJobs(job) \cup {m}
      BY <1>4, <1>7, <1>8, <1>16 DEF UploadJobs, Uploading
    <2>3. Cardinality(UploadJobs(job')) <= Cardinality(UploadJobs(job)) + 1
      <3>1. UploadJobs(job) \in SUBSET Ids BY DEF UploadJobs
      <3>2. IsFiniteSet(UploadJobs(job)) /\ Cardinality(UploadJobs(job)) \in Nat
        BY <3>1, JobsAreFinite
      <3> HIDE DEF m
      <3> QED BY <2>2, <3>2, FS_AddElement
    <2>4. ActiveCount(job)' <= ActiveCount(job) + 1 BY <2>3 DEF ActiveCount, UploadJobs
    <2>5. ActiveCount(job)' <= MaxConcurrent BY <1>14, <1>16, <2>4, FileJobsAssumption
    <2>6. \A j \in Ids : job'[j].status = "queued" <=> job[j].status = "queued"
      BY <1>5, <1>7, <1>8, <1>16
    <2>7. \A j \in Ids : job[j].atWork => job'[j].atWork BY <1>7, <1>8, <1>16
    <2>8. QueueIsServed' BY <1>0, <2>1, <2>5, <2>6, <2>7 DEF QueueIsServed
    <2> QED BY <1>10, <1>11, <1>12, <1>13, <2>8 DEF FileJobsInv, SentInTurnOnce
  <1> QED BY <1>15, <1>16

\* A job ends for good: those that waited get the free slots, and old ones go.
LEMMA ReleasingKeepsJobs ==
  ASSUME FileJobsInv, NEW j \in Ids, Release(j)
  PROVE  FileJobsInv'
  <1>0. FileJobsDomains /\ JobsAreNumbered /\ ReadersSawAll /\ QueueIsServed /\ OneJobPerFile
    BY DEF FileJobsInv, SentInTurnOnce
  <1> DEFINE n == Drained(job)
             first == {waiting[k] : k \in 1..n}
             drained == [i \in Ids |-> IF i = j THEN [job[i] EXCEPT !.atWork = FALSE]
                                       ELSE IF \E k \in 1..n : waiting[k] = i
                                            THEN Running(job[i]) ELSE job[i]]
  <1>1. /\ job[j].status \in {"done", "failed", "evicted"}
        /\ job' = [i \in Ids |-> IF i \in Evicted(drained)
                                 THEN [drained[i] EXCEPT !.status = "evicted"] ELSE drained[i]]
        /\ waiting' = SubSeq(waiting, n + 1, Len(waiting))
        /\ UNCHANGED <<request, made>>
    BY DEF Release
  <1>2. ActiveCount(job) \in Nat /\ ActiveCount(job) <= MaxConcurrent /\ MaxConcurrent \in Nat \ {0}
    <2>1. UploadJobs(job) \in SUBSET Ids BY DEF UploadJobs
    <2> QED BY <1>0, <2>1, JobsAreFinite, FileJobsAssumption DEF ActiveCount, UploadJobs, QueueIsServed
  <1>3. PICK len \in Nat : len = Len(waiting) /\ waiting \in Seq(Ids) /\ DOMAIN waiting = 1..len
    BY <1>0 DEF FileJobsDomains
  <1>4. /\ n \in 0..len /\ ActiveCount(job) + n <= MaxConcurrent
        /\ n < len => ActiveCount(job) + n = MaxConcurrent
    BY <1>2, <1>3 DEF Drained
  <1> HIDE DEF n
  <1>5. \A i \in first : i \in Ids /\ job[i].status = "queued"
    BY <1>0, <1>3, <1>4 DEF QueueIsServed
  <1>6. j \notin first BY <1>1, <1>5
  <1>7. drained \in [Ids -> JobEntries]
        /\ \A i \in Ids : /\ drained[i].file = job[i].file /\ drained[i].unseen = job[i].unseen
                          /\ drained[i].status = IF i \in first THEN "uploading" ELSE job[i].status
                          /\ drained[i].atWork = CASE i = j -> FALSE [] i \in first -> TRUE
                                                   [] OTHER -> job[i].atWork
    <2> SUFFICES ASSUME NEW i \in Ids
                 PROVE  /\ drained[i] \in JobEntries
                        /\ drained[i].file = job[i].file /\ drained[i].unseen = job[i].unseen
                        /\ drained[i].status = IF i \in first THEN "uploading" ELSE job[i].status
                        /\ drained[i].atWork = CASE i = j -> FALSE [] i \in first -> TRUE
                                                 [] OTHER -> job[i].atWork
      OBVIOUS
    <2>1. job[i] \in JobEntries BY <1>0 DEF FileJobsDomains
    <2>2. CASE i = j
      <3>1. drained[i] = [job[i] EXCEPT !.atWork = FALSE] /\ i \notin first BY <1>6, <2>2
      <3> HIDE DEF drained
      <3> QED BY <2>1, <2>2, <3>1 DEF JobEntries
    <2>3. CASE i # j /\ i \in first
      <3>1. drained[i] = Running(job[i]) BY <2>3
      <3> HIDE DEF drained
      <3> QED BY <2>1, <2>3, <3>1 DEF JobEntries, Running, Unfinished, Uploading
    <2>4. CASE i # j /\ i \notin first
      <3>1. drained[i] = job[i] BY <2>4
      <3> QED BY <2>1, <2>4, <3>1
    <2> QED BY <2>2, <2>3, <2>4
  <1> DEFINE gone == Evicted(drained)
  <1> HIDE DEF drained
  <1>8. \A i \in gone : drained[i].status \in {"done", "failed"} BY DEF Evicted
  <1> HIDE DEF gone
  <1>9. job' \in [Ids -> JobEntries]
        /\ \A i \in Ids : /\ job'[i].file = job[i].file /\ job'[i].unseen = job[i].unseen
                          /\ job'[i].status = IF i \in gone THEN "evicted" ELSE drained[i].status
                          /\ job'[i].atWork = drained[i].atWork
    <2>1. job' = [i \in Ids |-> IF i \in gone THEN [drained[i] EXCEPT !.status = "evicted"]
                                ELSE drained[i]]
      BY <1>1 DEF gone
    <2> SUFFICES ASSUME NEW i \in Ids
                 PROVE  /\ job'[i] \in JobEntries
                        /\ job'[i].file = job[i].file /\ job'[i].unseen = job[i].unseen
                        /\ job'[i].status = IF i \in gone THEN "evicted" ELSE drained[i].status
                        /\ job'[i].atWork = drained[i].atWork
      BY <2>1
    <2>2. drained[i] \in JobEntries BY <1>7
    <2>3. CASE i \in gone
      <3>1. job'[i] = [drained[i] EXCEPT !.status = "evicted"] BY <2>1, <2>3
      <3> QED BY <1>7, <2>2, <2>3, <3>1 DEF JobEntries
    <2>4. CASE i \notin gone
      <3>1. job'[i] = drained[i] BY <2>1, <2>4
      <3> QED BY <1>7, <2>2, <2>4, <3>1
    <2> QED BY <2>3, <2>4
  \* What became of each job.
  <1>10. \A i \in Ids :
           /\ i \in first => job'[i].status = "uploading" /\ job'[i].atWork
           /\ i \notin first =>
                /\ job'[i].status \in Unfinished <=> job[i].status \in Unfinished
                /\ job'[i].status \in Uploading <=> job[i].status \in Uploading
                /\ job'[i].status = "queued" <=> job[i].status = "queued"
                /\ job'[i].status = "none" <=> job[i].status = "none"
                /\ i # j => job'[i].atWork = job[i].atWork
    BY <1>6, <1>7, <1>8, <1>9 DEF Unfinished, Uploading
  <1>11. \A i \in Ids : job'[i].status \in Unfinished => job[i].status \in Unfinished
    BY <1>5, <1>10 DEF Unfinished
  <1> HIDE DEF first
  <1>12. waiting' \in Seq(Ids) /\ Len(waiting') = len - n
         /\ \A k \in 1..(len - n) : waiting'[k] = waiting[n + k]
    <2>1. \A i \in (n + 1)..len : waiting[i] \in Ids BY <1>3, <1>4
    <2>2. n + 1 \in Int /\ len \in Int BY <1>4
    <2>3. /\ SubSeq(waiting, n + 1, len) \in Seq(Ids)
          /\ Len(SubSeq(waiting, n + 1, len)) = IF n + 1 <= len THEN len - (n + 1) + 1 ELSE 0
          /\ \A i \in 1..(len - (n + 1) + 1) :
               SubSeq(waiting, n + 1, len)[i] = waiting[n + 1 + i - 1]
      BY <2>1, <2>2, SubSeqProperties
    <2>4. waiting' = SubSeq(waiting, n + 1, len) BY <1>1, <1>3
    <2>5. len - (n + 1) + 1 = len - n /\ \A i \in 1..(len - n) : n + 1 + i - 1 = n + i
      BY <1>4
    <2> QED BY <1>4, <2>3, <2>4, <2>5
  <1>13. FileJobsDomains' BY <1>0, <1>1, <1>9, <1>12 DEF FileJobsDomains
  <1>14. JobsAreNumbered'
    <2>1. \A i \in Ids : i \in first => job[i].status # "none" BY <1>5 DEF first
    <2>2. \A i \in Ids : job'[i].status = "none" <=> i > made
      BY <1>0, <1>10, <2>1 DEF JobsAreNumbered
    <2>3. \A i \in Ids : job'[i].status \in Uploading => job'[i].atWork
      <3>1. job[j].status \notin Uploading BY <1>1 DEF Uploading
      <3> QED BY <1>0, <1>6, <1>10, <3>1 DEF JobsAreNumbered
    <2> QED BY <1>0, <1>1, <2>2, <2>3 DEF JobsAreNumbered, Over
  <1>15. ReadersSawAll' BY <1>0, <1>1, <1>9, <1>11 DEF ReadersSawAll
  <1>16. OneJobPerFile' BY <1>0, <1>9, <1>11 DEF OneJobPerFile
  <1>17. ActiveCount(job)' <= MaxConcurrent
    <2>1. UploadJobs(job) \in SUBSET Ids BY DEF UploadJobs
    <2>2. first \in SUBSET Ids /\ Cardinality(first) <= n
      BY <1>0, <1>3, <1>4, FirstAreFew DEF first
    <2>3. UploadJobs(job') = UploadJobs(job) \cup first
      BY <1>10, <2>2 DEF UploadJobs, Uploading
    <2>4. Cardinality(UploadJobs(job')) <= Cardinality(UploadJobs(job)) + Cardinality(first)
      BY <2>1, <2>2, <2>3, JobsTogether
    <2>5. UploadJobs(job') \in SUBSET Ids BY DEF UploadJobs
    <2>6. /\ Cardinality(UploadJobs(job')) \in Nat /\ Cardinality(UploadJobs(job)) \in Nat
          /\ Cardinality(first) \in Nat
      BY <2>1, <2>2, <2>5, JobsAreFinite
    <2>7. /\ ActiveCount(job) = Cardinality(UploadJobs(job))
          /\ ActiveCount(job)' = Cardinality(UploadJobs(job'))
      BY DEF ActiveCount, UploadJobs
    <2> QED BY <1>2, <1>4, <2>2, <2>4, <2>6, <2>7
  <1>18. DOMAIN waiting' = 1..(len - n) BY <1>4, <1>12
  <1>19. \A a, b \in 1..len : waiting[a] = waiting[b] => a = b
    BY <1>0, <1>3 DEF QueueIsServed, IsInjective
  <1>20. IsInjective(waiting')
    <2> SUFFICES ASSUME NEW a \in 1..(len - n), NEW b \in 1..(len - n),
                        waiting'[a] = waiting'[b]
                 PROVE  a = b
      BY <1>18 DEF IsInjective
    <2>1. n + a \in 1..len /\ n + b \in 1..len BY <1>4
    <2>2. n + a = n + b BY <1>12, <1>19, <2>1
    <2> QED BY <1>4, <2>2
  <1>21. \A i \in Ids : job'[i].status = "queued" <=> \E k \in DOMAIN waiting' : waiting'[k] = i
    <2> TAKE i \in Ids
    <2>1. job[i].status = "queued" <=> \E k \in 1..len : waiting[k] = i
      BY <1>0, <1>3 DEF QueueIsServed
    <2>2. CASE i \in first
      <3>1. PICK k \in 1..n : waiting[k] = i BY <2>2 DEF first
      <3>2. ASSUME NEW l \in 1..(len - n), waiting'[l] = i PROVE FALSE
        <4>1. n + l \in 1..len /\ k \in 1..len /\ n + l # k BY <1>4
        <4> QED BY <1>12, <1>19, <3>1, <3>2, <4>1
      <3> QED BY <1>10, <1>18, <2>2, <3>2
    <2>3. CASE i \notin first
      <3>1. ASSUME NEW k \in 1..len, waiting[k] = i
            PROVE  \E l \in 1..(len - n) : waiting'[l] = i
        <4>1. k \notin 1..n BY <2>3, <3>1 DEF first
        <4>2. k - n \in 1..(len - n) /\ n + (k - n) = k BY <1>4, <4>1
        <4> QED BY <1>12, <3>1, <4>2
      <3>2. ASSUME NEW l \in 1..(len - n), waiting'[l] = i
            PROVE  \E k \in 1..len : waiting[k] = i
        <4>1. n + l \in 1..len BY <1>4
        <4> QED BY <1>12, <3>2, <4>1
      <3> QED BY <1>10, <1>18, <2>1, <2>3, <3>1, <3>2
    <2> QED BY <2>2, <2>3
  <1>22. waiting' # <<>> => \E i \in Ids : job'[i].atWork
    <2> SUFFICES ASSUME waiting' # <<>> PROVE \E i \in Ids : job'[i].atWork OBVIOUS
    <2>1. n < len BY <1>4, <1>12
    <2>2. CASE n # 0
      <3>1. 1 \in 1..n /\ 1 \in 1..len BY <1>4, <2>2
      <3>2. waiting[1] \in first /\ waiting[1] \in Ids BY <1>3, <3>1 DEF first
      <3> QED BY <1>10, <3>2
    <2>3. CASE n = 0
      <3>1. ActiveCount(job) # 0 BY <1>2, <1>4, <2>1, <2>3
      <3>2. UploadJobs(job) # {} BY <3>1, FS_EmptySet DEF ActiveCount, UploadJobs
      <3>3. PICK i \in Ids : job[i].status \in Uploading BY <3>2 DEF UploadJobs
      <3>4. job'[i].status \in Uploading BY <1>10, <3>3 DEF Uploading
      <3> QED BY <1>14, <3>4 DEF JobsAreNumbered
    <2> QED BY <2>2, <2>3
  <1>23. QueueIsServed' BY <1>17, <1>20, <1>21, <1>22 DEF QueueIsServed
  <1> QED BY <1>13, <1>14, <1>15, <1>16, <1>23 DEF FileJobsInv, SentInTurnOnce

\* Every step of the file jobs keeps the invariant.
LEMMA FileJobsStep == FileJobsInv /\ [FileJobsNext]_fileJobsVars => FileJobsInv'
  <1> SUFFICES ASSUME FileJobsInv, [FileJobsNext]_fileJobsVars PROVE FileJobsInv' OBVIOUS
  <1>1. CASE UNCHANGED fileJobsVars
    BY <1>1 DEF fileJobsVars, FileJobsInv, FileJobsDomains, JobsAreNumbered, Over, ReadersSawAll,
                SentInTurnOnce, QueueIsServed, OneJobPerFile, ActiveCount
  <1>2. ASSUME NEW r \in Ids, NEW n \in Names, Ask(r, n) PROVE FileJobsInv'
    BY <1>2, AskingKeepsJobs
  <1>3. ASSUME NEW r \in Ids, AskFails(r) PROVE FileJobsInv' BY <1>3, AskingKeepsJobs
  <1>4. ASSUME NEW r \in Ids, AskDone(r) PROVE FileJobsInv' BY <1>4, ReadingMakesJob
  <1>5. ASSUME NEW j \in Ids,
               Uploaded(j) \/ \E status \in {"done", "failed"} : Finishes(j, status)
        PROVE  FileJobsInv'
    BY <1>5, UploadingKeepsJobs
  <1>6. ASSUME NEW j \in Ids, Release(j) PROVE FileJobsInv' BY <1>6, ReleasingKeepsJobs
  <1> QED BY <1>1, <1>2, <1>3, <1>4, <1>5, <1>6 DEF FileJobsNext

\* For any names, files, requests and limits, at most MaxConcurrent files are on their way,
\* whoever waits is in the queue once and will be looked for, and a file is on its way
\* once, unless the check could not see the other job.
THEOREM FilesGoOutInTurn == FileJobsSpec => []SentInTurnOnce
  <1>1. FileJobsInv => SentInTurnOnce BY DEF FileJobsInv
  <1> QED BY <1>1, FileJobsInitially, FileJobsStep, PTL DEF FileJobsSpec

\* The variables of the file jobs keep to their domains (FileJobsTypeOK): there are names, and
\* each job is of a request.
LEMMA FileJobsAreTyped == FileJobsSpec => []FileJobsTypeOK
  <1>1. FileJobsInv => FileJobsTypeOK
    <2> SUFFICES ASSUME FileJobsInv PROVE FileJobsTypeOK OBVIOUS
    <2>0. FileJobsDomains /\ JobsAreNumbered BY DEF FileJobsInv
    <2>1. KnownNames = Names
      <3>1. (CHOOSE n \in Names : TRUE) \in Names BY FileJobsAssumption
      <3>2. NoJob.file = CHOOSE n \in Names : TRUE BY DEF NoJob
      <3> QED BY <3>1, <3>2 DEF KnownNames
    <2>2. made \in 0..NumRequests
      <3>1. Over \in SUBSET Ids BY DEF Over
      <3>2. Cardinality(Over) \in Nat /\ Cardinality(Over) <= NumRequests BY <3>1, JobsAreFinite
      <3>3. made \in Nat /\ made <= Cardinality(Over) BY <2>0 DEF FileJobsDomains, JobsAreNumbered
      <3> QED BY <3>2, <3>3, FileJobsAssumption
    <2> QED BY <2>0, <2>1, <2>2 DEF FileJobsDomains, RequestEntries, JobEntries, FileJobsTypeOK
  <1> QED BY <1>1, FileJobsInitially, FileJobsStep, PTL DEF FileJobsSpec

(***************************************************************************)
(* The relay handles a message once, and has one chat of a session at a    *)
(* time.                                                                   *)
(***************************************************************************)
\* The state keeps to its domains.
RelayDomains ==
  /\ said \in 0..NumMsgs
  /\ loop \in [Loops -> {"none", "polling", "handling", "over"}]
  /\ newest \in Loops
  /\ cursor \in [Loops -> 0..NumMsgs] /\ current \in [Loops -> 0..NumMsgs]
  /\ batch \in [Loops -> Seq(Msgs)]
  /\ pc \in [Handlers -> {"idle", "fetch", "session", "post", "posted", "typing", "chat",
                          "flush", "over"}]
  /\ inSession \in [Handlers -> {0} \cup Sessions] /\ target \in [Handlers -> Requests]
  /\ peerSession \in {0} \cup Sessions
  /\ stored \in [cursor : 0..NumMsgs, session : {0} \cup Sessions]
  /\ pending \in [Sessions -> Requests] /\ inflight \subseteq Sessions
  /\ chat \in [Handlers -> {"none", "queued", "running", "over"}]
  /\ asked \in [Handlers -> 0..MaxAsks] /\ heard \in [Handlers -> 0..MaxAsks]
  /\ open \subseteq Handlers
  /\ starts \in [Msgs -> Nat]

\* The second loop is not there before the second login; and a loop has no message twice:
\* those of its batch are none it has handled, and what it handled is behind its cursor.
LoopsInv ==
  /\ "login" \notin odd => newest = 1
  /\ newest = 1 => /\ loop[2] \notin {"polling", "handling"} /\ batch[2] = <<>> /\ current[2] = 0
                   /\ \A m \in Msgs : pc[<<2, m>>] = "idle"
  /\ \A l \in Loops : \A i, j \in DOMAIN batch[l] : batch[l][i] = batch[l][j] => i = j
  /\ \A l \in Loops : \A i \in DOMAIN batch[l] :
       batch[l][i] <= cursor[l] /\ pc[<<l, batch[l][i]>>] = "idle"
  /\ \A l \in Loops, m \in Msgs : pc[<<l, m>>] # "idle" => m <= cursor[l]

\* Until a guard has expired, a loop waits for the one handler that has not returned.
Awaited == {"fetch", "session", "post", "posted", "typing"}
AwaitedInv ==
  "guard" \notin odd =>
    \A l \in Loops, m \in Msgs : pc[<<l, m>>] \in Awaited => current[l] = m

\* A handler has its session when it answers or chats, and its chat when it chats.
HandlerOk(h) ==
  /\ pc[h] \in {"post", "posted", "typing", "chat", "flush"} => inSession[h] # 0
  /\ pc[h] \in Awaited \cup {"idle"} => chat[h] = "none"
  /\ pc[h] = "flush" => chat[h] = "over"
  /\ h \in open => chat[h] = "running"
  /\ heard[h] <= asked[h]

\* A registration is of a chat of the session that reads.
RegisteredOk(s) ==
  pending[s] # None =>
    /\ pc[pending[s][1]] = "chat" /\ inSession[pending[s][1]] = s
    /\ pending[s][2] <= asked[pending[s][1]]

\* An answer is to a request that was asked, and when it has arrived that one is closed.
AnswerOk(h) ==
  pc[h] \in {"post", "posted"} =>
    /\ target[h] # None
    /\ chat[target[h][1]] = "over" \/ target[h][2] <= asked[target[h][1]]
    /\ pc[h] = "posted" => ~(target[h][1] \in open /\ asked[target[h][1]] = target[h][2])

\* And a busy session has a chat.
ChatsInv ==
  /\ \A h \in Handlers : HandlerOk(h) /\ AnswerOk(h)
  /\ \A s \in Sessions : RegisteredOk(s)
  /\ \A s \in inflight : \E h \in Handlers : InChat(h) /\ inSession[h] = s

\* Until two chats of a session overlap, it has one, and counts as busy; and what the
\* server waits for is registered, or its answer was lost.
NoOverlap ==
  /\ \A h \in Handlers : InChat(h) => inSession[h] \in inflight
  /\ \A g, h \in Handlers : InChat(g) /\ InChat(h) /\ inSession[g] = inSession[h] => g = h
  /\ \A h \in open : pc[h] = "chat" /\ heard[h] = asked[h] =>
       \/ pending[inSession[h]] = <<h, asked[h]>>
       \/ <<h, asked[h]>> \in unanswered
OverlapInv == "overlap" \notin odd => NoOverlap

\* While one handler goes on at a time, none that was told that the session is free finds
\* it busy.
QuietInv ==
  odd \cap {"guard", "login"} = {} =>
    /\ "overlap" \notin odd
    /\ \A h \in Handlers : pc[h] = "typing" => inSession[h] \notin inflight

\* While all saves succeed and there is one login, the state file has the loop's cursor, what
\* was begun is behind it, and what waits in the batch was not begun.
StartedInv ==
  odd \cap {"save", "login"} = {} =>
    /\ stored.cursor = cursor[1]
    /\ \A m \in Msgs : starts[m] <= 1 /\ (starts[m] > 0 => m <= cursor[1])
    /\ \A i \in DOMAIN batch[1] : starts[batch[1][i]] = 0

RelayInv ==
  RelayDomains /\ LoopsInv /\ AwaitedInv /\ ChatsInv /\ OverlapInv /\ QuietInv /\ StartedInv

\* Handlers are pairs of a loop and a message.
LEMMA HandlerPairs ==
  /\ \A h \in Handlers : h[1] \in Loops /\ h[2] \in Msgs /\ h = <<h[1], h[2]>>
  /\ \A l \in Loops, m \in Msgs : <<l, m>> \in Handlers
  BY DEF Handlers

\* Requests are pairs of a handler and a count, but for none.
LEMMA RequestPairs ==
  /\ \A r \in Requests : r # None =>
       r[1] \in Handlers /\ r[2] \in 1..MaxAsks /\ r = <<r[1], r[2]>>
  /\ \A h \in Handlers, k \in 1..MaxAsks : <<h, k>> \in Requests /\ <<h, k>> # None
  /\ None \in Requests
  BY DEF Requests, None

\* Nothing was said.
LEMMA RelayInitially == RelayInit => RelayInv
  <1> SUFFICES ASSUME RelayInit PROVE RelayInv OBVIOUS
  <1> USE RelayAssumption DEF RelayInit
  <1>1. RelayDomains
    <2>1. \A l \in Loops : <<>> \in Seq(Msgs) OBVIOUS
    <2>2. batch \in [Loops -> Seq(Msgs)] BY <2>1
    <2>3. None \in Requests BY RequestPairs
    <2>4. loop \in [Loops -> {"none", "polling", "handling", "over"}] OBVIOUS
    <2>5. stored \in [cursor : 0..NumMsgs, session : {0} \cup Sessions] OBVIOUS
    <2>6. newest \in Loops BY DEF Loops
    <2>7. /\ said \in 0..NumMsgs
          /\ cursor \in [Loops -> 0..NumMsgs] /\ current \in [Loops -> 0..NumMsgs]
      OBVIOUS
    <2>8. asked \in [Handlers -> 0..MaxAsks] /\ heard \in [Handlers -> 0..MaxAsks] OBVIOUS
    <2>9. starts \in [Msgs -> Nat] OBVIOUS
    <2> QED BY <2>2, <2>3, <2>4, <2>5, <2>6, <2>7, <2>8, <2>9 DEF RelayDomains
  <1>2. LoopsInv
    <2>1. newest = 1 /\ \A l \in Loops : batch[l] = <<>> OBVIOUS
    <2>2. loop[2] = "none" /\ batch[2] = <<>> /\ current[2] = 0 BY DEF Loops
    <2>3. \A h \in Handlers : pc[h] = "idle" OBVIOUS
    <2>4. \A l \in Loops, m \in Msgs : pc[<<l, m>>] = "idle" BY <2>3, HandlerPairs
    <2>5. 2 \in Loops BY DEF Loops
    <2> QED BY <2>1, <2>2, <2>4, <2>5 DEF LoopsInv
  <1>3. AwaitedInv BY HandlerPairs DEF AwaitedInv, Awaited
  <1>4. ChatsInv
    <2>1. \A h \in Handlers : /\ pc[h] = "idle" /\ chat[h] = "none" /\ h \notin open
                              /\ heard[h] <= asked[h]
      OBVIOUS
    <2>2. inflight = {} /\ \A s \in Sessions : pending[s] = None OBVIOUS
    <2> QED BY <2>1, <2>2 DEF ChatsInv, HandlerOk, AnswerOk, RegisteredOk
  <1>5. OverlapInv BY DEF OverlapInv, NoOverlap, InChat
  <1>6. QuietInv BY DEF QuietInv
  <1>7. StartedInv BY DEF StartedInv, Loops
  <1> QED BY <1>1, <1>2, <1>3, <1>4, <1>5, <1>6, <1>7 DEF RelayInv

\* What a handler does is its own, and that of its loop: it moves from one of its stages to
\* another, and when it is awaited no longer the loop goes on.
LEMMA HandlerMoves ==
  ASSUME RelayDomains, NEW h \in Handlers, HandlerStep(h)
  PROVE  /\ UNCHANGED <<said, loop, newest, cursor, batch>>
         /\ \A g \in Handlers : g # h => pc'[g] = pc[g]
         /\ pc[h] # "idle" /\ pc'[h] # "idle" /\ starts' = starts
         /\ \/ current' = current /\ (pc'[h] \in Awaited => pc[h] \in Awaited)
            \/ pc'[h] \notin Awaited /\ pc[h] \in Awaited /\ Returns(h)
         /\ odd \subseteq odd' /\ odd' \subseteq odd \cup {"answer", "overlap"}
  <1>0. pc \in [Handlers -> {"idle", "fetch", "session", "post", "posted", "typing", "chat",
                          "flush", "over"}]
    BY DEF RelayDomains
  <1> HIDE DEF RelayDomains
  <1>1. CASE Fetched(h)
    BY <1>0, <1>1 DEF Fetched, Route, loopVars, Awaited
  <1>2. CASE NeedsSession(h)
    BY <1>0, <1>2 DEF NeedsSession, loopVars, Awaited
  <1>3. CASE SessionCreated(h)
    BY <1>0, <1>3 DEF SessionCreated, Route, loopVars, Awaited
  <1>4. CASE SessionFails(h)
    BY <1>0, <1>4 DEF SessionFails, loopVars, Awaited
  <1>5. CASE AnswerArrives(h)
    BY <1>0, <1>5 DEF AnswerArrives, loopVars, Awaited
  <1>6. CASE AnswerReturns(h)
    BY <1>0, <1>6 DEF AnswerReturns, loopVars, Awaited
  <1>7. CASE AnswerFails(h)
    BY <1>0, <1>7 DEF AnswerFails, Mishap, Awaited
  <1>8. CASE OpenChat(h)
    BY <1>0, <1>8 DEF OpenChat, loopVars, Awaited
  <1>9. CASE ReadAsk(h)
    BY <1>0, <1>9 DEF ReadAsk, loopVars, Awaited
  <1>10. CASE ChatEnds(h)
    BY <1>0, <1>10 DEF ChatEnds, loopVars, Awaited
  <1>11. CASE Flushed(h)
    BY <1>0, <1>11 DEF Flushed, loopVars, Awaited
  <1> QED BY <1>1, <1>2, <1>3, <1>4, <1>5, <1>6, <1>7, <1>8, <1>9, <1>10, <1>11 DEF HandlerStep

\* What the server does, and the window's end, are no business of the loops.
LEMMA ServerAside ==
  ASSUME NEW h \in Handlers, ServerStep(h)
  PROVE  UNCHANGED <<loopVars, current, pc, inSession, target, peerSession, pending, inflight,
                     heard, unanswered, odd>>
  BY DEF ServerStep, ServerStarts, ServerAsks, ServerExpires, ServerEnds

\* Every step keeps the loops' messages apart.
LEMMA LoopsKept == RelayInv /\ RelayNext => LoopsInv'
  <1> SUFFICES ASSUME RelayInv, RelayNext PROVE LoopsInv' OBVIOUS
  <1>0. LoopsInv /\ RelayDomains BY DEF RelayInv
  <1>a. /\ pc \in [Handlers -> {"idle", "fetch", "session", "post", "posted", "typing", "chat",
                          "flush", "over"}]
        /\ cursor \in [Loops -> 0..NumMsgs] /\ batch \in [Loops -> Seq(Msgs)]
        /\ current \in [Loops -> 0..NumMsgs] /\ newest \in Loops
        /\ loop \in [Loops -> {"none", "polling", "handling", "over"}]
    BY <1>0 DEF RelayDomains
  <1>b. \A l \in Loops : \A i, j \in DOMAIN batch[l] : batch[l][i] = batch[l][j] => i = j
    BY <1>0 DEF LoopsInv
  <1>c. \A l \in Loops : \A i \in DOMAIN batch[l] :
          batch[l][i] <= cursor[l] /\ pc[<<l, batch[l][i]>>] = "idle"
    BY <1>0 DEF LoopsInv
  <1>d. \A l \in Loops, m \in Msgs : pc[<<l, m>>] # "idle" => m <= cursor[l]
    BY <1>0 DEF LoopsInv
  <1> HIDE DEF RelayInv
  <1>1. ASSUME UNCHANGED <<loop, newest, cursor, batch, current, pc, odd>> PROVE LoopsInv'
    BY <1>0, <1>1 DEF LoopsInv
  <1>2. CASE UserSends
    BY <1>1, <1>2 DEF UserSends
  <1>3. ASSUME NEW s \in Sessions, Expire(s) PROVE LoopsInv'
    BY <1>1, <1>3 DEF Expire, loopVars
  <1>4. ASSUME NEW h \in Handlers, ServerStep(h) PROVE LoopsInv'
    BY <1>1, <1>4, ServerAside DEF loopVars
  <1>5. ASSUME NEW h \in Handlers, HandlerStep(h) PROVE LoopsInv'
    <2>1. /\ UNCHANGED <<said, loop, newest, cursor, batch>>
          /\ \A g \in Handlers : g # h => pc'[g] = pc[g]
          /\ pc[h] # "idle" /\ pc'[h] # "idle"
          /\ current' = current \/ Returns(h)
          /\ odd \subseteq odd'
      BY <1>0, <1>5, HandlerMoves
    <2>2. \A g \in Handlers : pc'[g] = "idle" <=> pc[g] = "idle" BY <2>1
    <2>3. \A l \in Loops, m \in Msgs : pc'[<<l, m>>] = "idle" <=> pc[<<l, m>>] = "idle"
      BY <2>2, HandlerPairs
    <2>4. h[1] \in Loops /\ h[2] \in Msgs /\ h = <<h[1], h[2]>> /\ 2 \in Loops
      BY HandlerPairs DEF Loops
    <2>5. newest = 1 => current'[2] = 0
      BY <1>0, <1>a, <2>1, <2>4 DEF LoopsInv, Returns
    <2>6. \A l \in Loops : \A i \in DOMAIN batch[l] : batch[l][i] \in Msgs BY <1>a
    <2>7. \A l \in Loops : \A i \in DOMAIN batch[l] :
             batch[l][i] <= cursor[l] /\ pc'[<<l, batch[l][i]>>] = "idle"
      BY <1>c, <2>3, <2>6
    <2>8. \A l \in Loops, m \in Msgs : pc'[<<l, m>>] # "idle" => m <= cursor[l] BY <1>d, <2>3
    <2>9. newest = 1 => /\ loop[2] \notin {"polling", "handling"} /\ batch[2] = <<>>
                        /\ \A m \in Msgs : pc'[<<2, m>>] = "idle"
      BY <1>0, <2>3, <2>4 DEF LoopsInv
    <2>10. "login" \notin odd' => newest = 1 BY <1>0, <2>1 DEF LoopsInv
    <2> QED BY <1>b, <2>1, <2>5, <2>7, <2>8, <2>9, <2>10 DEF LoopsInv
  <1>6. ASSUME NEW l \in Loops, LoopStep(l) PROVE LoopsInv'
    <2>1. CASE \E saves \in BOOLEAN : Poll(l, saves)
      <3>1. PICK saves \in BOOLEAN : Poll(l, saves) BY <2>1
      <3>2. PICK n \in (cursor[l] + 1)..said :
              /\ cursor' = [cursor EXCEPT ![l] = n]
              /\ batch' = [batch EXCEPT ![l] = [i \in 1..(n - cursor[l]) |-> cursor[l] + i]]
        BY <3>1 DEF Poll
      <3>3. /\ loop[l] = "polling" /\ pc' = pc /\ newest' = newest /\ current' = current
            /\ loop' = [loop EXCEPT ![l] = "handling"]
            /\ odd \subseteq odd'
        BY <3>1 DEF Poll, Mishap
      <3>4. said \in 0..NumMsgs /\ cursor[l] \in 0..NumMsgs /\ n \in Nat /\ cursor[l] < n
            /\ NumMsgs \in Nat
        BY <1>0, <1>a, RelayAssumption DEF RelayDomains
      <3>5. \A k \in Loops : k # l => batch'[k] = batch[k] /\ cursor'[k] = cursor[k]
        BY <1>a, <3>2
      <3>6. /\ cursor'[l] = n /\ DOMAIN batch'[l] = 1..(n - cursor[l])
            /\ \A i \in 1..(n - cursor[l]) : batch'[l][i] = cursor[l] + i
        BY <1>a, <3>2
      <3>7. \A i \in DOMAIN batch'[l] :
              batch'[l][i] \in Msgs /\ batch'[l][i] > cursor[l] /\ batch'[l][i] <= n
        BY <3>4, <3>6 DEF Msgs
      <3>8. \A k \in Loops : \A i, j \in DOMAIN batch'[k] : batch'[k][i] = batch'[k][j] => i = j
        <4>1. \A i, j \in DOMAIN batch'[l] : batch'[l][i] = batch'[l][j] => i = j
          BY <3>4, <3>6
        <4>2. \A k \in Loops : k # l => batch'[k] = batch[k] BY <3>5
        <4> QED BY <1>b, <4>1, <4>2
      <3>9. \A i \in DOMAIN batch'[l] : pc[<<l, batch'[l][i]>>] = "idle"
        BY <1>0, <3>4, <3>7 DEF LoopsInv, Msgs
      <3>10. \A k \in Loops : \A i \in DOMAIN batch'[k] :
                batch'[k][i] <= cursor'[k] /\ pc'[<<k, batch'[k][i]>>] = "idle"
        <4>1. TAKE k \in Loops
        <4>2. CASE k = l BY <3>3, <3>6, <3>7, <3>9, <4>2
        <4>3. CASE k # l
          <5>1. batch'[k] = batch[k] /\ cursor'[k] = cursor[k] BY <3>5, <4>3
          <5> QED BY <1>c, <3>3, <5>1
        <4> QED BY <4>2, <4>3
      <3>11. \A k \in Loops, m \in Msgs : pc'[<<k, m>>] # "idle" => m <= cursor'[k]
        <4>1. TAKE k \in Loops, m \in Msgs
        <4>2. HAVE pc'[<<k, m>>] # "idle"
        <4>3. m <= cursor[k] BY <1>d, <3>3, <4>2
        <4>4. CASE k = l BY <3>4, <3>6, <4>3, <4>4 DEF Msgs
        <4>5. CASE k # l BY <3>5, <4>3, <4>5
        <4> QED BY <4>4, <4>5
      <3>12. newest = 1 => l # 2 BY <1>0, <3>3 DEF LoopsInv
      <3>13. newest = 1 => loop'[2] \notin {"polling", "handling"} /\ batch'[2] = <<>>
        BY <1>0, <1>a, <3>3, <3>5, <3>12 DEF LoopsInv, Loops
      <3> QED BY <1>0, <3>3, <3>8, <3>10, <3>11, <3>13 DEF LoopsInv
    <2>2. CASE PollEnds(l)
      BY <1>0, <1>a, <2>2 DEF PollEnds, LoopsInv, Loops
    <2>3. CASE BatchDone(l)
      BY <1>0, <1>a, <2>3 DEF BatchDone, LoopsInv, Loops
    <2>4. CASE GuardExpires(l)
      <3>1. /\ UNCHANGED <<loop, newest, cursor, batch, pc>> /\ odd \subseteq odd'
            /\ current' = [current EXCEPT ![l] = 0]
        BY <2>4 DEF GuardExpires, Mishap
      <3>2. newest = 1 => current'[2] = 0 BY <1>0, <1>a, <3>1 DEF LoopsInv, Loops
      <3> QED BY <1>0, <3>1, <3>2 DEF LoopsInv
    <2>5. CASE Take(l)
      <3> DEFINE t == Head(batch[l])
      <3>1. /\ UNCHANGED <<loop, newest, cursor, odd>> /\ batch[l] # <<>> /\ loop[l] = "handling"
            /\ current' = [current EXCEPT ![l] = t] /\ pc' = [pc EXCEPT ![<<l, t>>] = "fetch"]
            /\ batch' = [batch EXCEPT ![l] = Tail(@)]
        BY <2>5 DEF Take
      <3>2. /\ batch[l] \in Seq(Msgs) /\ t \in Msgs /\ t = batch[l][1] /\ 1 \in DOMAIN batch[l]
            /\ batch'[l] = Tail(batch[l])
            /\ \A k \in Loops : k # l => batch'[k] = batch[k]
        BY <1>a, <3>1
      <3>3. Len(batch[l]) \in Nat /\ DOMAIN batch[l] = 1..Len(batch[l])
            /\ DOMAIN batch'[l] = 1..(Len(batch[l]) - 1)
            /\ \A i \in DOMAIN batch'[l] : batch'[l][i] = batch[l][i + 1]
        <4>1. ASSUME NEW q \in Seq(Msgs), q # <<>>
              PROVE /\ Len(q) \in Nat /\ DOMAIN q = 1..Len(q) /\ DOMAIN Tail(q) = 1..(Len(q) - 1)
                    /\ \A i \in DOMAIN Tail(q) : Tail(q)[i] = q[i + 1]
          BY <4>1
        <4> QED BY <3>1, <3>2, <4>1
      <3>4. <<l, t>> \in Handlers BY <3>2, HandlerPairs
      <3> HIDE DEF t
      <3>5. \A k \in Loops, m \in Msgs : <<k, m>> # <<l, t>> => pc'[<<k, m>>] = pc[<<k, m>>]
        BY <1>a, <3>1, HandlerPairs
      <3>6. pc[<<l, t>>] = "idle" /\ t <= cursor[l] BY <1>0, <3>2 DEF LoopsInv
      <3>7. newest = 1 => l # 2 BY <1>0, <3>1 DEF LoopsInv
      <3>8. \A i \in DOMAIN batch'[l] : i + 1 \in DOMAIN batch[l] /\ i + 1 # 1 /\ i \in Nat
        BY <3>3
      <3>9. \A i, j \in DOMAIN batch'[l] : batch'[l][i] = batch'[l][j] => i = j
        <4>1. TAKE i, j \in DOMAIN batch'[l]
        <4>2. HAVE batch'[l][i] = batch'[l][j]
        <4>3. batch[l][i + 1] = batch[l][j + 1] BY <3>3, <4>2
        <4>4. i + 1 = j + 1 BY <1>b, <3>8, <4>3
        <4> QED BY <3>8, <4>4
      <3>10. \A i \in DOMAIN batch'[l] :
               /\ batch'[l][i] <= cursor[l] /\ batch'[l][i] # t /\ batch'[l][i] \in Msgs
               /\ pc[<<l, batch'[l][i]>>] = "idle"
        <4>1. TAKE i \in DOMAIN batch'[l]
        <4>2. batch'[l][i] = batch[l][i + 1] /\ i + 1 \in DOMAIN batch[l] /\ i + 1 # 1
          BY <3>3, <3>8
        <4>3. batch[l][i + 1] # t BY <1>b, <3>2, <4>2
        <4>4. batch[l][i + 1] \in Msgs BY <3>2, <4>2
        <4>5. batch[l][i + 1] <= cursor[l] /\ pc[<<l, batch[l][i + 1]>>] = "idle"
          BY <1>c, <4>2
        <4> QED BY <4>2, <4>3, <4>4, <4>5
      <3>11. \A k \in Loops : \A i \in DOMAIN batch'[k] :
               batch'[k][i] <= cursor'[k] /\ pc'[<<k, batch'[k][i]>>] = "idle"
        <4>1. TAKE k \in Loops
        <4>2. CASE k = l BY <3>1, <3>5, <3>10, <4>2
        <4>3. CASE k # l
          <5>1. \A i \in DOMAIN batch[k] : batch[k][i] \in Msgs BY <1>a
          <5>2. batch'[k] = batch[k] /\ cursor' = cursor BY <3>1, <3>2, <4>3
          <5>3. \A m \in Msgs : pc'[<<k, m>>] = pc[<<k, m>>] BY <3>5, <4>3
          <5> QED BY <1>c, <5>1, <5>2, <5>3
        <4> QED BY <4>2, <4>3
      <3>12. \A k \in Loops : \A i, j \in DOMAIN batch'[k] : batch'[k][i] = batch'[k][j] => i = j
        BY <1>0, <3>2, <3>9 DEF LoopsInv
      <3>13. \A k \in Loops, m \in Msgs : pc'[<<k, m>>] # "idle" => m <= cursor'[k]
        BY <1>0, <3>1, <3>5, <3>6 DEF LoopsInv
      <3>14. newest = 1 => /\ batch'[2] = <<>> /\ current'[2] = 0
                           /\ \A m \in Msgs : pc'[<<2, m>>] = "idle"
        BY <1>0, <1>a, <3>1, <3>2, <3>5, <3>7 DEF LoopsInv, Loops
      <3> QED BY <1>0, <3>1, <3>11, <3>12, <3>13, <3>14 DEF LoopsInv
    <2> QED BY <1>6, <2>1, <2>2, <2>3, <2>4, <2>5 DEF LoopStep
  <1>7. CASE Login
    <2>1. PICK c \in cursor[1]..said : cursor' = [cursor EXCEPT ![2] = c] BY <1>7 DEF Login
    <2>2. newest = 1 /\ newest' = 2 /\ UNCHANGED <<batch, pc>> /\ "login" \in odd'
      BY <1>7 DEF Login, Mishap
    <2>3. \A m \in Msgs : pc[<<2, m>>] = "idle" BY <1>0, <2>2 DEF LoopsInv
    <2>4. batch[2] = <<>> BY <1>0, <2>2 DEF LoopsInv
    <2>5. cursor'[1] = cursor[1] /\ \A l \in Loops : l = 1 \/ l = 2 BY <1>a, <2>1 DEF Loops
    <2>6. \A l \in Loops : \A i \in DOMAIN batch[l] :
              batch[l][i] <= cursor'[l] /\ pc[<<l, batch[l][i]>>] = "idle"
      BY <1>0, <2>4, <2>5 DEF LoopsInv
    <2>7. \A l \in Loops, m \in Msgs : pc[<<l, m>>] # "idle" => m <= cursor'[l]
      BY <1>0, <2>3, <2>5 DEF LoopsInv
    <2> QED BY <1>0, <2>2, <2>6, <2>7 DEF LoopsInv
  <1>8. CASE BridgeRestart
    <2>1. /\ newest' = newest /\ odd \subseteq odd'
          /\ loop' = [l \in Loops |-> IF l = newest THEN "polling" ELSE "over"]
          /\ batch' = [l \in Loops |-> <<>>] /\ current' = [l \in Loops |-> 0]
          /\ pc' = [h \in Handlers |-> "idle"]
      BY <1>8 DEF BridgeRestart, Mishap
    <2>2. \A l \in Loops : batch'[l] = <<>> BY <2>1
    <2>3. \A l \in Loops, m \in Msgs : pc'[<<l, m>>] = "idle" BY <2>1, HandlerPairs
    <2>4. newest = 1 => loop'[2] = "over" /\ current'[2] = 0 /\ 2 \in Loops BY <2>1 DEF Loops
    <2> QED BY <1>0, <2>1, <2>2, <2>3, <2>4 DEF LoopsInv
  <1> QED BY <1>2, <1>3, <1>4, <1>5, <1>6, <1>7, <1>8 DEF RelayNext

\* Every step keeps each loop at the one handler it waits for.
LEMMA AwaitedKept == RelayInv /\ RelayNext => AwaitedInv'
  <1> SUFFICES ASSUME RelayInv, RelayNext, "guard" \notin odd',
                      NEW k \in Loops, NEW m \in Msgs, pc'[<<k, m>>] \in Awaited
               PROVE current'[k] = m
    BY DEF AwaitedInv
  <1>0. AwaitedInv /\ RelayDomains BY DEF RelayInv
  <1>a. /\ pc \in [Handlers -> {"idle", "fetch", "session", "post", "posted", "typing", "chat",
                          "flush", "over"}]
        /\ current \in [Loops -> 0..NumMsgs] /\ batch \in [Loops -> Seq(Msgs)]
    BY <1>0 DEF RelayDomains
  <1>b. <<k, m>> \in Handlers /\ m # 0 BY HandlerPairs DEF Msgs
  <1> HIDE DEF RelayInv
  <1>1. ASSUME pc' = pc, current' = current, odd \subseteq odd' PROVE current'[k] = m
    BY <1>0, <1>1 DEF AwaitedInv
  <1>2. CASE UserSends
    BY <1>1, <1>2 DEF UserSends
  <1>3. ASSUME NEW s \in Sessions, Expire(s) PROVE current'[k] = m
    BY <1>1, <1>3 DEF Expire
  <1>4. ASSUME NEW h \in Handlers, ServerStep(h) PROVE current'[k] = m
    BY <1>1, <1>4, ServerAside
  <1>5. ASSUME NEW h \in Handlers, HandlerStep(h) PROVE current'[k] = m
    <2>1. /\ \A g \in Handlers : g # h => pc'[g] = pc[g]
          /\ \/ current' = current /\ (pc'[h] \in Awaited => pc[h] \in Awaited)
             \/ pc'[h] \notin Awaited /\ pc[h] \in Awaited /\ Returns(h)
          /\ odd \subseteq odd'
      BY <1>0, <1>5, HandlerMoves
    <2>2. pc[<<k, m>>] \in Awaited BY <1>b, <2>1
    <2>3. current[k] = m BY <1>0, <2>1, <2>2 DEF AwaitedInv
    <2>4. CASE current' = current BY <2>3, <2>4
    <2>5. CASE pc'[h] \notin Awaited /\ Returns(h)
      <3>1. h # <<k, m>> /\ h = <<h[1], h[2]>> BY <2>5, HandlerPairs
      <3>2. CASE h[1] = k
        <4>1. h[2] # m BY <3>1, <3>2
        <4> QED BY <1>a, <2>3, <2>5, <3>2, <4>1 DEF Returns
      <3>3. CASE h[1] # k BY <1>a, <2>3, <2>5, <3>3 DEF Returns
      <3> QED BY <3>2, <3>3
    <2> QED BY <2>1, <2>4, <2>5
  <1>6. ASSUME NEW l \in Loops, LoopStep(l) PROVE current'[k] = m
    <2>1. CASE \E saves \in BOOLEAN : Poll(l, saves)
      <3>1. PICK saves \in BOOLEAN : Poll(l, saves) BY <2>1
      <3>2. pc' = pc /\ current' = current /\ odd \subseteq odd' BY <3>1 DEF Poll, Mishap
      <3> QED BY <1>1, <3>2
    <2>2. CASE PollEnds(l) \/ BatchDone(l)
      BY <1>1, <2>2 DEF PollEnds, BatchDone
    <2>3. CASE GuardExpires(l)
      BY <2>3 DEF GuardExpires, Mishap
    <2>4. CASE Take(l)
      <3> DEFINE t == Head(batch[l])
      <3>1. /\ current[l] = 0 /\ batch[l] # <<>> /\ odd' = odd
            /\ current' = [current EXCEPT ![l] = t] /\ pc' = [pc EXCEPT ![<<l, t>>] = "fetch"]
        BY <2>4 DEF Take
      <3>2. t \in Msgs BY <1>a, <3>1
      <3> HIDE DEF t
      <3>3. CASE <<k, m>> = <<l, t>> BY <1>a, <3>1, <3>3
      <3>4. CASE <<k, m>> # <<l, t>>
        <4>1. pc[<<k, m>>] \in Awaited BY <1>a, <1>b, <3>1, <3>4
        <4>2. current[k] = m BY <1>0, <3>1, <4>1 DEF AwaitedInv
        <4>3. k # l BY <1>b, <3>1, <4>2
        <4> QED BY <1>a, <3>1, <4>2, <4>3
      <3> QED BY <3>3, <3>4
    <2> QED BY <1>6, <2>1, <2>2, <2>3, <2>4 DEF LoopStep
  <1>7. CASE Login
    BY <1>1, <1>7 DEF Login, Mishap
  <1>8. CASE BridgeRestart
    <2>1. pc'[<<k, m>>] = "idle" BY <1>8, <1>b DEF BridgeRestart
    <2> QED BY <2>1 DEF Awaited
  <1> QED BY <1>2, <1>3, <1>4, <1>5, <1>6, <1>7, <1>8 DEF RelayNext

\* Two handlers are not on their way at once, without the exceptions.
LEMMA OneOnItsWay ==
  ASSUME RelayInv, odd \cap {"guard", "login"} = {}, NEW g \in Handlers, NEW h \in Handlers,
         pc[g] \in Awaited, pc[h] \in Awaited
  PROVE  g = h
  <1>0. LoopsInv /\ AwaitedInv BY DEF RelayInv
  <1> HIDE DEF RelayInv
  <1>1. /\ g[1] \in Loops /\ g[2] \in Msgs /\ g = <<g[1], g[2]>>
        /\ h[1] \in Loops /\ h[2] \in Msgs /\ h = <<h[1], h[2]>>
    BY HandlerPairs
  <1>2. "guard" \notin odd /\ newest = 1 BY <1>0 DEF LoopsInv
  <1>3. \A m \in Msgs : pc[<<2, m>>] \notin Awaited BY <1>0, <1>2 DEF LoopsInv, Awaited
  <1>4. g[1] = 1 /\ h[1] = 1 BY <1>1, <1>3 DEF Loops
  <1>5. current[1] = g[2] /\ current[1] = h[2] BY <1>0, <1>1, <1>2, <1>4 DEF AwaitedInv
  <1> QED BY <1>1, <1>4, <1>5

\* Every step that opens a chat finds its session as the handler found it, without the
\* exceptions.
LEMMA QuietKept == RelayInv /\ RelayNext => QuietInv'
  <1> SUFFICES ASSUME RelayInv, RelayNext, odd' \cap {"guard", "login"} = {}
               PROVE /\ "overlap" \notin odd'
                     /\ \A h \in Handlers : pc'[h] = "typing" => inSession'[h] \notin inflight'
    BY DEF QuietInv
  <1> DEFINE Goal == /\ "overlap" \notin odd'
                     /\ \A h \in Handlers : pc'[h] = "typing" => inSession'[h] \notin inflight'
  <1>0. QuietInv /\ RelayDomains BY DEF RelayInv
  <1>a. /\ pc \in [Handlers -> {"idle", "fetch", "session", "post", "posted", "typing", "chat",
                          "flush", "over"}]
        /\ inSession \in [Handlers -> {0} \cup Sessions] /\ batch \in [Loops -> Seq(Msgs)]
    BY <1>0 DEF RelayDomains
  <1>1. ASSUME odd \subseteq odd', "overlap" \in odd' => "overlap" \in odd,
               inflight' \subseteq inflight,
               \A h \in Handlers : pc'[h] = "typing" =>
                  \/ pc[h] = "typing" /\ inSession'[h] = inSession[h]
                  \/ inSession'[h] \notin inflight
        PROVE Goal
    BY <1>0, <1>1 DEF QuietInv, Goal
  <1> HIDE DEF RelayInv, Goal
  <1>2. CASE UserSends
    <2>1. odd' = odd /\ inflight' = inflight /\ pc' = pc /\ inSession' = inSession
      BY <1>2 DEF UserSends
    <2>2. \A h \in Handlers : pc'[h] = pc[h] /\ inSession'[h] = inSession[h] BY <2>1
    <2>3. /\ odd \subseteq odd' /\ ("overlap" \in odd' => "overlap" \in odd)
          /\ inflight' \subseteq inflight
      BY <2>1
    <2>4. \A h \in Handlers : pc'[h] = "typing" =>
                  \/ pc[h] = "typing" /\ inSession'[h] = inSession[h]
                  \/ inSession'[h] \notin inflight
      BY <2>2
    <2> QED BY <1>1, <2>3, <2>4 DEF Goal
  <1>3. ASSUME NEW s \in Sessions, Expire(s) PROVE Goal
    BY <1>1, <1>3 DEF Expire
  <1>4. ASSUME NEW h \in Handlers, ServerStep(h) PROVE Goal
    BY <1>1, <1>4, ServerAside
  <1>5. ASSUME NEW h \in Handlers, HandlerStep(h) PROVE Goal
    <2>1. ASSUME NEW s, Route(h, s), pc' = [pc EXCEPT ![h] = "typing"] => s \notin inflight,
                 odd' = odd, inflight' = inflight
          PROVE Goal
      <3>1. inSession' = [inSession EXCEPT ![h] = s]
            /\ \E x \in {"post", "over", "typing"} : pc' = [pc EXCEPT ![h] = x]
        BY <2>1 DEF Route
      <3>2. \A g \in Handlers : pc'[g] = "typing" =>
                  \/ pc[g] = "typing" /\ inSession'[g] = inSession[g]
                  \/ inSession'[g] \notin inflight
        BY <1>a, <2>1, <3>1
      <3> QED BY <1>1, <2>1, <3>2
    <2>2. ASSUME NEW s, Route(h, s) PROVE pc' = [pc EXCEPT ![h] = "typing"] => s \notin inflight
      <3>1. CASE pc' = [pc EXCEPT ![h] = "post"]
        BY <1>a, <3>1
      <3>2. CASE pc' = [pc EXCEPT ![h] = "over"]
        BY <1>a, <3>2
      <3> QED BY <2>2, <3>1, <3>2 DEF Route, Busy
    <2>3. CASE Fetched(h)
      BY <2>1, <2>2, <2>3 DEF Fetched
    <2>4. CASE SessionCreated(h)
      <3>1. PICK s \in Sessions : Route(h, s) BY <2>4 DEF SessionCreated
      <3>2. odd' = odd /\ inflight' = inflight BY <2>4 DEF SessionCreated
      <3> QED BY <2>1, <2>2, <3>1, <3>2
    <2>5. CASE \/ NeedsSession(h) \/ SessionFails(h) \/ AnswerArrives(h) \/ AnswerReturns(h)
               \/ AnswerFails(h) \/ ReadAsk(h) \/ ChatEnds(h) \/ Flushed(h)
      <3>1. /\ odd \subseteq odd' /\ ("overlap" \in odd' => "overlap" \in odd)
            /\ inflight' \subseteq inflight /\ inSession' = inSession
        BY <2>5 DEF NeedsSession, SessionFails, AnswerArrives, AnswerReturns, AnswerFails, Mishap,
                    ReadAsk, ChatEnds, Flushed
      <3>2. \A g \in Handlers : pc'[g] = "typing" => pc[g] = "typing"
        BY <1>a, <2>5 DEF NeedsSession, SessionFails, AnswerArrives, AnswerReturns, AnswerFails,
                          ReadAsk, ChatEnds, Flushed
      <3> QED BY <1>1, <3>1, <3>2
    <2>6. CASE OpenChat(h)
      <3>1. /\ pc[h] = "typing" /\ pc' = [pc EXCEPT ![h] = "chat"]
            /\ odd' = IF inSession[h] \in inflight THEN odd \cup {"overlap"} ELSE odd
            /\ inSession' = inSession
        BY <2>6 DEF OpenChat
      <3>2. odd \cap {"guard", "login"} = {} BY <3>1
      <3>3. "overlap" \notin odd' BY <1>0, <3>1, <3>2 DEF QuietInv
      <3>4. ASSUME NEW g \in Handlers, pc'[g] = "typing" PROVE FALSE
        <4>1. g # h /\ pc[g] = "typing" BY <1>a, <3>1, <3>4
        <4> QED BY <3>1, <3>2, <4>1, OneOnItsWay DEF Awaited
      <3> QED BY <3>3, <3>4 DEF Goal
    <2> QED BY <1>5, <2>3, <2>4, <2>5, <2>6 DEF HandlerStep
  <1>6. ASSUME NEW l \in Loops, LoopStep(l) PROVE Goal
    <2>1. CASE \E saves \in BOOLEAN : Poll(l, saves)
      <3>1. PICK saves \in BOOLEAN : Poll(l, saves) BY <2>1
      <3> QED BY <1>1, <3>1 DEF Poll, Mishap
    <2>2. CASE PollEnds(l) \/ BatchDone(l)
      BY <1>1, <2>2 DEF PollEnds, BatchDone
    <2>3. CASE GuardExpires(l)
      BY <2>3 DEF GuardExpires, Mishap
    <2>4. CASE Take(l)
      <3>1. /\ pc' = [pc EXCEPT ![<<l, Head(batch[l])>>] = "fetch"]
            /\ odd' = odd /\ inflight' = inflight /\ inSession' = inSession
        BY <2>4 DEF Take
      <3>2. \A h \in Handlers : pc'[h] = "typing" => pc[h] = "typing" BY <1>a, <3>1
      <3> QED BY <1>1, <3>1, <3>2
    <2> QED BY <1>6, <2>1, <2>2, <2>3, <2>4 DEF LoopStep
  <1>7. CASE Login
    BY <1>7 DEF Login, Mishap
  <1>8. CASE BridgeRestart
    <2>1. \A h \in Handlers : pc'[h] = "idle" BY <1>8 DEF BridgeRestart
    <2>2. inflight' = {} /\ odd' = odd \cup {"restart"} BY <1>8 DEF BridgeRestart, Mishap
    <2> QED BY <1>0, <2>1, <2>2 DEF QuietInv, Goal
  <1> QED BY <1>2, <1>3, <1>4, <1>5, <1>6, <1>7, <1>8 DEF RelayNext, Goal

\* Answers are kept as they are by a step that closes and reopens no request they are to.
LEMMA AnswerStands ==
  ASSUME RelayDomains, NEW h \in Handlers, AnswerOk(h), pc'[h] = pc[h], target'[h] = target[h],
         asked' \in [Handlers -> Nat],
         \A c \in Handlers : chat[c] = "over" => chat'[c] = "over",
         \A c \in Handlers : asked[c] <= asked'[c] \/ chat'[c] = "over",
         \A c \in Handlers : c \in open' => \/ c \in open /\ asked'[c] = asked[c]
                                            \/ asked'[c] > asked[c] /\ chat[c] # "over"
  PROVE  AnswerOk(h)'
  <1> SUFFICES ASSUME pc[h] \in {"post", "posted"}
               PROVE /\ target[h] # None
                     /\ chat'[target[h][1]] = "over" \/ target[h][2] <= asked'[target[h][1]]
                     /\ pc[h] = "posted" =>
                          ~(target[h][1] \in open' /\ asked'[target[h][1]] = target[h][2])
    BY DEF AnswerOk
  <1>1. target[h] \in Requests /\ asked \in [Handlers -> 0..MaxAsks] BY DEF RelayDomains
  <1>2. target[h] # None BY DEF AnswerOk
  <1>3. PICK c \in Handlers, k \in 1..MaxAsks : target[h][1] = c /\ target[h][2] = k
    BY <1>1, <1>2, RequestPairs
  <1>4. chat[c] = "over" \/ k <= asked[c] BY <1>3 DEF AnswerOk
  <1>5. pc[h] = "posted" => ~(c \in open /\ asked[c] = k) BY <1>3 DEF AnswerOk
  <1>6. asked[c] \in Nat /\ asked'[c] \in Nat /\ k \in Nat BY <1>1, RelayAssumption
  <1>7. chat'[c] = "over" \/ k <= asked'[c]
    <2>1. chat[c] = "over" => chat'[c] = "over" OBVIOUS
    <2>2. asked[c] <= asked'[c] \/ chat'[c] = "over" OBVIOUS
    <2> QED BY <1>4, <1>6, <2>1, <2>2
  <1>8. pc[h] = "posted" => ~(c \in open' /\ asked'[c] = k)
    <2>1. c \in open' => \/ c \in open /\ asked'[c] = asked[c]
                         \/ asked'[c] > asked[c] /\ chat[c] # "over"
      OBVIOUS
    <2> QED BY <1>4, <1>5, <1>6, <2>1
  <1> QED BY <1>2, <1>3, <1>7, <1>8

\* A registration is kept as it is by a step that does not end its chat.
LEMMA RegisteredStands ==
  ASSUME RelayDomains, NEW s \in Sessions, RegisteredOk(s),
         pending'[s] = pending[s] \/ pending'[s] = None,
         \A c \in Handlers : pc[c] = "chat" /\ pending'[s] # None /\ pending[s][1] = c =>
            pc'[c] = "chat" /\ inSession'[c] = inSession[c] /\ asked[c] <= asked'[c],
         asked' \in [Handlers -> Nat]
  PROVE  RegisteredOk(s)'
  <1> SUFFICES ASSUME pending'[s] # None
               PROVE /\ pc'[pending'[s][1]] = "chat" /\ inSession'[pending'[s][1]] = s
                     /\ pending'[s][2] <= asked'[pending'[s][1]]
    BY DEF RegisteredOk
  <1>1. pending'[s] = pending[s] /\ pending[s] \in Requests /\ asked \in [Handlers -> 0..MaxAsks]
    BY DEF RelayDomains
  <1>2. PICK c \in Handlers, k \in 1..MaxAsks : pending[s][1] = c /\ pending[s][2] = k
    BY <1>1, RequestPairs
  <1>3. pc[c] = "chat" /\ inSession[c] = s /\ k <= asked[c] BY <1>1, <1>2 DEF RegisteredOk
  <1> QED BY <1>1, <1>2, <1>3, RelayAssumption

\* A busy session keeps its chat unless that ends.
LEMMA BusyStands ==
  ASSUME ChatsInv, inflight' \subseteq inflight,
         \A h \in Handlers : InChat(h) /\ inSession[h] \in inflight' =>
            pc'[h] \in {"chat", "flush"} /\ inSession'[h] = inSession[h]
  PROVE  \A s \in inflight' : \E h \in Handlers : InChat(h)' /\ inSession'[h] = s
  <1> SUFFICES ASSUME NEW s \in inflight'
               PROVE \E h \in Handlers : InChat(h)' /\ inSession'[h] = s
    OBVIOUS
  <1>1. PICK h \in Handlers : InChat(h) /\ inSession[h] = s BY DEF ChatsInv
  <1> QED BY <1>1 DEF InChat

\* Every step keeps handlers, registrations, answers and chats together.
LEMMA ChatsKept == RelayInv /\ RelayNext => ChatsInv'
  <1> SUFFICES ASSUME RelayInv, RelayNext PROVE ChatsInv' OBVIOUS
  <1>0. ChatsInv /\ RelayDomains /\ LoopsInv BY DEF RelayInv
  <1>a. /\ pc \in [Handlers -> {"idle", "fetch", "session", "post", "posted", "typing", "chat",
                          "flush", "over"}]
        /\ inSession \in [Handlers -> {0} \cup Sessions] /\ batch \in [Loops -> Seq(Msgs)]
        /\ target \in [Handlers -> Requests] /\ pending \in [Sessions -> Requests]
        /\ chat \in [Handlers -> {"none", "queued", "running", "over"}]
        /\ asked \in [Handlers -> 0..MaxAsks] /\ heard \in [Handlers -> 0..MaxAsks]
        /\ open \subseteq Handlers /\ inflight \subseteq Sessions
        /\ peerSession \in {0} \cup Sessions
    BY <1>0 DEF RelayDomains
  <1>b. \A h \in Handlers : HandlerOk(h) /\ AnswerOk(h) BY <1>0 DEF ChatsInv
  <1>c. \A s \in Sessions : RegisteredOk(s) BY <1>0 DEF ChatsInv
  <1>d. asked \in [Handlers -> Nat] /\ \A c \in Handlers : asked[c] <= asked[c]
    BY <1>a, RelayAssumption
  <1> HIDE DEF RelayInv
  <1>1. ASSUME UNCHANGED <<pc, inSession, target, pending, inflight, chat, asked, open, heard>>
        PROVE ChatsInv'
    BY <1>0, <1>1 DEF ChatsInv, HandlerOk, AnswerOk, RegisteredOk, InChat
  <1>2. CASE UserSends \/ Login
    BY <1>1, <1>2 DEF UserSends, Login, chatVars
  <1>3. ASSUME NEW s \in Sessions, Expire(s) PROVE ChatsInv'
    <2>1. /\ UNCHANGED <<pc, inSession, target, inflight, chat, asked, open, heard>>
          /\ pending' = [pending EXCEPT ![s] = None]
      BY <1>3 DEF Expire, chatVars
    <2>2. \A t \in Sessions : pending'[t] = pending[t] \/ pending'[t] = None BY <1>a, <2>1
    <2>3. \A t \in Sessions : RegisteredOk(t)' BY <1>0, <1>c, <1>d, <2>1, <2>2, RegisteredStands
    <2> QED BY <1>0, <2>1, <2>3 DEF ChatsInv, HandlerOk, AnswerOk, InChat
  <1>4. ASSUME NEW l \in Loops, LoopStep(l) PROVE ChatsInv'
    <2>1. CASE \E saves \in BOOLEAN : Poll(l, saves)
      <3>1. PICK saves \in BOOLEAN : Poll(l, saves) BY <2>1
      <3> QED BY <1>1, <3>1 DEF Poll, chatVars
    <2>2. CASE PollEnds(l) \/ BatchDone(l) \/ GuardExpires(l)
      BY <1>1, <2>2 DEF PollEnds, BatchDone, GuardExpires, chatVars
    <2>3. CASE Take(l)
      <3> DEFINE t == Head(batch[l])
      <3>1. /\ UNCHANGED <<inSession, target, pending, inflight, chat, asked, open, heard>>
            /\ batch[l] # <<>> /\ pc' = [pc EXCEPT ![<<l, t>>] = "fetch"]
        BY <2>3 DEF Take, chatVars
      <3>2. t \in Msgs /\ t = batch[l][1] /\ 1 \in DOMAIN batch[l] BY <1>a, <3>1
      <3>3. pc[<<l, t>>] = "idle" /\ <<l, t>> \in Handlers
        BY <1>0, <3>2, HandlerPairs DEF LoopsInv
      <3> HIDE DEF t
      <3>4. \A h \in Handlers : pc'[h] = pc[h] \/ (pc[h] = "idle" /\ pc'[h] = "fetch")
        BY <1>a, <3>1, <3>3
      <3>5. \A h \in Handlers : HandlerOk(h)' BY <1>b, <3>1, <3>4 DEF HandlerOk, Awaited
      <3>6. \A h \in Handlers : AnswerOk(h)' BY <1>b, <3>1, <3>4 DEF AnswerOk
      <3>7. \A s \in Sessions : RegisteredOk(s)'
        <4>1. \A c \in Handlers : pc[c] = "chat" => pc'[c] = "chat" BY <3>4
        <4> QED BY <1>0, <1>c, <1>d, <3>1, <4>1, RegisteredStands
      <3>8. \A s \in inflight' : \E h \in Handlers : InChat(h)' /\ inSession'[h] = s
        <4>1. \A h \in Handlers : InChat(h) => pc'[h] \in {"chat", "flush"} BY <3>4 DEF InChat
        <4> QED BY <1>0, <3>1, <4>1, BusyStands
      <3> QED BY <3>5, <3>6, <3>7, <3>8 DEF ChatsInv
    <2> QED BY <1>4, <2>1, <2>2, <2>3 DEF LoopStep
  <1>5. CASE BridgeRestart
    <2>1. /\ \A h \in Handlers : /\ pc'[h] = "idle" /\ chat'[h] = "none" /\ heard'[h] = 0
                                 /\ asked'[h] = 0 /\ h \notin open'
          /\ \A s \in Sessions : pending'[s] = None
          /\ inflight' = {}
      BY <1>5 DEF BridgeRestart
    <2> QED BY <2>1 DEF ChatsInv, HandlerOk, AnswerOk, RegisteredOk
  <1>6. ASSUME NEW h \in Handlers, ServerStep(h) PROVE ChatsInv'
    <2>1. UNCHANGED <<pc, inSession, target, pending, inflight, heard>>
      BY <1>6, ServerAside
    <2>2. /\ \A c \in Handlers : chat[c] = "over" => chat'[c] = "over"
          /\ \A c \in Handlers : asked[c] <= asked'[c] /\ asked'[c] \in Nat
          /\ \A c \in Handlers : c \in open' => \/ c \in open /\ asked'[c] = asked[c]
                                                \/ asked'[c] > asked[c] /\ chat[c] # "over"
          /\ \A c \in Handlers : HandlerOk(c)'
      <3>1. CASE ServerStarts(h)
        <4>1. chat[h] = "queued" /\ chat' = [chat EXCEPT ![h] = "running"] /\ asked' = asked
              /\ open' = open
          BY <3>1 DEF ServerStarts
        <4>2. \A c \in Handlers : HandlerOk(c)'
          BY <1>a, <1>b, <2>1, <4>1 DEF HandlerOk, Awaited
        <4> QED BY <1>a, <1>d, <4>1, <4>2
      <3>2. CASE ServerAsks(h)
        <4>1. /\ chat[h] = "running" /\ h \notin open /\ asked' = [asked EXCEPT ![h] = @ + 1]
              /\ open' = open \cup {h} /\ chat' = chat
          BY <3>2 DEF ServerAsks
        <4>2. \A c \in Handlers : asked[c] \in Nat /\ heard[c] \in Nat BY <1>a, RelayAssumption
        <4>3. \A c \in Handlers : HandlerOk(c)'
          BY <1>a, <1>b, <2>1, <4>1, <4>2 DEF HandlerOk
        <4> QED BY <1>a, <1>d, <4>1, <4>2, <4>3
      <3>3. CASE ServerExpires(h)
        <4>1. open' = open \ {h} /\ chat' = chat /\ asked' = asked BY <3>3 DEF ServerExpires
        <4>2. \A c \in Handlers : HandlerOk(c)' BY <1>b, <2>1, <4>1 DEF HandlerOk
        <4> QED BY <1>d, <4>1, <4>2
      <3>4. CASE ServerEnds(h)
        <4>1. /\ chat[h] = "running" /\ h \notin open /\ chat' = [chat EXCEPT ![h] = "over"]
              /\ open' = open /\ asked' = asked
          BY <3>4 DEF ServerEnds
        <4>2. \A c \in Handlers : HandlerOk(c)'
          BY <1>a, <1>b, <2>1, <4>1 DEF HandlerOk
        <4> QED BY <1>a, <1>d, <4>1, <4>2
      <3> QED BY <1>6, <3>1, <3>2, <3>3, <3>4 DEF ServerStep
    <2>4. asked' \in [Handlers -> Nat]
      <3>1. asked' = asked \/ asked' = [asked EXCEPT ![h] = @ + 1]
        BY <1>6 DEF ServerStep, ServerStarts, ServerAsks, ServerExpires, ServerEnds
      <3> QED BY <1>d, <3>1
    <2>3. \A c \in Handlers : AnswerOk(c)'
      BY <1>0, <1>b, <2>1, <2>2, <2>4, AnswerStands
    <2>5. \A s \in Sessions : RegisteredOk(s)'
      BY <1>0, <1>c, <2>1, <2>2, <2>4, RegisteredStands
    <2>6. \A s \in inflight' : \E g \in Handlers : InChat(g)' /\ inSession'[g] = s
      BY <1>0, <2>1, BusyStands DEF InChat
    <2> QED BY <2>2, <2>3, <2>5, <2>6 DEF ChatsInv
  <1>7. ASSUME NEW h \in Handlers, HandlerStep(h) PROVE ChatsInv'
    <2>a. h \in Handlers /\ HandlerOk(h) /\ AnswerOk(h) BY <1>7, <1>b
    <2>1. ASSUME NEW s \in Sessions, pc[h] \in {"fetch", "session"}, Route(h, s),
                 UNCHANGED <<pending, inflight, chat, asked, open, heard>>
          PROVE ChatsInv'
      <3>1. /\ inSession' = [inSession EXCEPT ![h] = s]
            /\ \/ /\ pending[s] # None /\ target' = [target EXCEPT ![h] = pending[s]]
                  /\ pc' = [pc EXCEPT ![h] = "post"]
               \/ /\ target' = target
                  /\ pc' \in {[pc EXCEPT ![h] = "over"], [pc EXCEPT ![h] = "typing"]}
        BY <2>1 DEF Route
      <3>2. \A g \in Handlers : g # h =>
              pc'[g] = pc[g] /\ inSession'[g] = inSession[g] /\ target'[g] = target[g]
        BY <1>a, <3>1
      <3>3. inSession'[h] = s /\ s # 0 /\ chat[h] = "none" /\ pc'[h] \in {"post", "over", "typing"}
        BY <1>a, <2>1, <2>a, <3>1 DEF HandlerOk, Sessions, Awaited
      <3>4. pc'[h] = "post" => target'[h] = pending[s] /\ pending[s] # None
        BY <1>a, <3>1
      <3>5. HandlerOk(h)' BY <2>1, <2>a, <3>3 DEF HandlerOk, Awaited
      <3>6. \A g \in Handlers : HandlerOk(g)'
        <4>1. \A g \in Handlers : g # h => HandlerOk(g)' BY <1>b, <2>1, <3>2 DEF HandlerOk
        <4> QED BY <3>5, <4>1
      <3>7. AnswerOk(h)'
        <4>1. CASE pc'[h] = "post"
          <5>1. RegisteredOk(s) BY <1>c
          <5> QED BY <2>1, <3>4, <4>1, <5>1 DEF AnswerOk, RegisteredOk
        <4> QED BY <3>3, <4>1 DEF AnswerOk
      <3>8. \A g \in Handlers : AnswerOk(g)'
        <4>1. \A g \in Handlers : g # h => AnswerOk(g)'
          BY <1>0, <1>b, <1>d, <2>1, <3>2, AnswerStands
        <4> QED BY <3>7, <4>1
      <3>9. pc[h] # "chat" /\ ~InChat(h) BY <2>1 DEF InChat
      <3>10. \A t \in Sessions : RegisteredOk(t)'
        BY <1>0, <1>c, <1>d, <2>1, <3>2, <3>9, RegisteredStands
      <3>11. \A t \in inflight' : \E g \in Handlers : InChat(g)' /\ inSession'[g] = t
        <4>1. \A g \in Handlers : InChat(g) =>
                 pc'[g] \in {"chat", "flush"} /\ inSession'[g] = inSession[g]
          BY <3>2, <3>9 DEF InChat
        <4> QED BY <1>0, <2>1, <4>1, BusyStands
      <3> QED BY <3>6, <3>8, <3>10, <3>11 DEF ChatsInv
    <2>2. CASE Fetched(h)
      <3>1. peerSession \in Sessions BY <1>a, <2>2 DEF Fetched
      <3> QED BY <2>1, <2>2, <3>1 DEF Fetched, chatVars
    <2>3. CASE SessionCreated(h)
      <3>1. PICK s \in Sessions : Route(h, s) BY <2>3 DEF SessionCreated
      <3> QED BY <2>1, <2>3, <3>1 DEF SessionCreated, chatVars
    <2>4. CASE NeedsSession(h) \/ SessionFails(h)
      <3>1. /\ UNCHANGED <<inSession, target, pending, inflight, chat, asked, open, heard>>
            /\ pc[h] \in {"fetch", "session"}
            /\ \E x \in {"session", "over"} : pc' = [pc EXCEPT ![h] = x]
        BY <2>4 DEF NeedsSession, SessionFails, chatVars
      <3>2. /\ \A g \in Handlers : g # h => pc'[g] = pc[g]
            /\ pc'[h] \in {"session", "over"}
        BY <1>a, <3>1
      <3>3. chat[h] = "none" BY <2>a, <3>1 DEF HandlerOk, Awaited
      <3>4. \A g \in Handlers : HandlerOk(g)'
        <4>1. HandlerOk(h)' BY <2>a, <3>1, <3>2, <3>3 DEF HandlerOk
        <4>2. \A g \in Handlers : g # h => HandlerOk(g)' BY <1>b, <3>1, <3>2 DEF HandlerOk
        <4> QED BY <4>1, <4>2
      <3>5. \A g \in Handlers : AnswerOk(g)'
        <4>1. AnswerOk(h)' BY <3>2 DEF AnswerOk
        <4>2. \A g \in Handlers : g # h => AnswerOk(g)'
          BY <1>0, <1>b, <1>d, <3>1, <3>2, AnswerStands
        <4> QED BY <4>1, <4>2
      <3>6. \A t \in Sessions : RegisteredOk(t)'
        <4>1. \A g \in Handlers : pc[g] = "chat" => pc'[g] = "chat" BY <3>1, <3>2
        <4> QED BY <1>0, <1>c, <1>d, <3>1, <4>1, RegisteredStands
      <3>7. \A t \in inflight' : \E g \in Handlers : InChat(g)' /\ inSession'[g] = t
        <4>1. \A g \in Handlers : InChat(g) => pc'[g] \in {"chat", "flush"}
          BY <3>1, <3>2 DEF InChat
        <4> QED BY <1>0, <3>1, <4>1, BusyStands
      <3> QED BY <3>4, <3>5, <3>6, <3>7 DEF ChatsInv
    <2>5. ASSUME pc[h] \in {"post", "posted"}, pc' = [pc EXCEPT ![h] = "over"],
                 UNCHANGED <<inSession, target, inflight, chat, asked, open, heard>>, Resolve(h)
          PROVE ChatsInv'
      <3>1. /\ \A g \in Handlers : g # h => pc'[g] = pc[g]
            /\ pc'[h] = "over"
        BY <1>a, <2>5
      <3>2. \A t \in Sessions : pending'[t] = pending[t] \/ pending'[t] = None
        BY <1>a, <2>5 DEF Resolve
      <3>3. chat[h] = "none" BY <2>5, <2>a DEF HandlerOk, Awaited
      <3>4. \A g \in Handlers : HandlerOk(g)'
        <4>1. HandlerOk(h)' BY <2>5, <2>a, <3>1, <3>3 DEF HandlerOk, Awaited
        <4>2. \A g \in Handlers : g # h => HandlerOk(g)' BY <1>b, <2>5, <3>1 DEF HandlerOk
        <4> QED BY <4>1, <4>2
      <3>5. \A g \in Handlers : AnswerOk(g)'
        <4>1. AnswerOk(h)' BY <3>1 DEF AnswerOk
        <4>2. \A g \in Handlers : g # h => AnswerOk(g)'
          BY <1>0, <1>b, <1>d, <2>5, <3>1, AnswerStands
        <4> QED BY <4>1, <4>2
      <3>6. \A t \in Sessions : RegisteredOk(t)'
        <4>1. \A g \in Handlers : pc[g] = "chat" => pc'[g] = "chat" BY <2>5, <3>1
        <4> QED BY <1>0, <1>c, <1>d, <2>5, <3>2, <4>1, RegisteredStands
      <3>7. \A t \in inflight' : \E g \in Handlers : InChat(g)' /\ inSession'[g] = t
        <4>1. \A g \in Handlers : InChat(g) => pc'[g] \in {"chat", "flush"}
          BY <2>5, <3>1 DEF InChat
        <4> QED BY <1>0, <2>5, <4>1, BusyStands
      <3> QED BY <3>4, <3>5, <3>6, <3>7 DEF ChatsInv
    <2>6. CASE AnswerReturns(h) \/ AnswerFails(h)
      BY <2>5, <2>6 DEF AnswerReturns, AnswerFails, chatVars
    <2>7. CASE AnswerArrives(h)
      <3>1. /\ UNCHANGED <<inSession, target, pending, inflight, chat, asked, heard>>
            /\ pc[h] = "post" /\ pc' = [pc EXCEPT ![h] = "posted"]
            /\ open' = IF asked[target[h][1]] = target[h][2] THEN open \ {target[h][1]} ELSE open
        BY <2>7 DEF AnswerArrives
      <3>2. /\ \A g \in Handlers : g # h => pc'[g] = pc[g]
            /\ pc'[h] = "posted" /\ open' \subseteq open
        BY <1>a, <3>1
      <3>3. \A g \in Handlers : HandlerOk(g)'
        <4>1. HandlerOk(h)' BY <2>a, <3>1, <3>2 DEF HandlerOk, Awaited
        <4>2. \A g \in Handlers : g # h => HandlerOk(g)' BY <1>b, <3>1, <3>2 DEF HandlerOk
        <4> QED BY <4>1, <4>2
      <3>4. \A g \in Handlers : AnswerOk(g)'
        <4>1. AnswerOk(h)' BY <2>a, <3>1, <3>2 DEF AnswerOk
        <4>2. \A g \in Handlers : g # h => AnswerOk(g)'
          BY <1>0, <1>b, <1>d, <3>1, <3>2, AnswerStands
        <4> QED BY <4>1, <4>2
      <3>5. \A t \in Sessions : RegisteredOk(t)'
        <4>1. \A g \in Handlers : pc[g] = "chat" => pc'[g] = "chat" BY <3>1, <3>2
        <4> QED BY <1>0, <1>c, <1>d, <3>1, <4>1, RegisteredStands
      <3>6. \A t \in inflight' : \E g \in Handlers : InChat(g)' /\ inSession'[g] = t
        <4>1. \A g \in Handlers : InChat(g) => pc'[g] \in {"chat", "flush"}
          BY <3>1, <3>2 DEF InChat
        <4> QED BY <1>0, <3>1, <4>1, BusyStands
      <3> QED BY <3>3, <3>4, <3>5, <3>6 DEF ChatsInv
    <2>8. CASE OpenChat(h)
      <3>1. /\ UNCHANGED <<inSession, target, pending, asked, open, heard>>
            /\ pc[h] = "typing" /\ pc' = [pc EXCEPT ![h] = "chat"]
            /\ inflight' = inflight \cup {inSession[h]} /\ chat' = [chat EXCEPT ![h] = "queued"]
        BY <2>8 DEF OpenChat
      <3>2. /\ \A g \in Handlers : g # h => pc'[g] = pc[g] /\ chat'[g] = chat[g]
            /\ pc'[h] = "chat" /\ chat'[h] = "queued"
        BY <1>a, <3>1
      <3>3. chat[h] = "none" /\ h \notin open BY <2>a, <3>1 DEF HandlerOk, Awaited
      <3>4. \A g \in Handlers : HandlerOk(g)'
        <4>1. HandlerOk(h)' BY <2>a, <3>1, <3>2, <3>3 DEF HandlerOk, Awaited
        <4>2. \A g \in Handlers : g # h => HandlerOk(g)' BY <1>b, <3>1, <3>2 DEF HandlerOk
        <4> QED BY <4>1, <4>2
      <3>5. \A g \in Handlers : AnswerOk(g)'
        <4>1. AnswerOk(h)' BY <3>2 DEF AnswerOk
        <4>2. \A g \in Handlers : chat[g] = "over" => chat'[g] = "over" BY <3>2, <3>3
        <4>3. \A g \in Handlers : g # h => AnswerOk(g)'
          BY <1>0, <1>b, <1>d, <3>1, <3>2, <4>2, AnswerStands
        <4> QED BY <4>1, <4>3
      <3>6. \A t \in Sessions : RegisteredOk(t)'
        <4>1. \A g \in Handlers : pc[g] = "chat" => pc'[g] = "chat" BY <3>1, <3>2
        <4> QED BY <1>0, <1>c, <1>d, <3>1, <4>1, RegisteredStands
      <3>7. \A t \in inflight' : \E g \in Handlers : InChat(g)' /\ inSession'[g] = t
        <4>1. TAKE t \in inflight'
        <4>2. CASE t = inSession[h] BY <3>1, <3>2, <4>2 DEF InChat
        <4>3. CASE t \in inflight
          <5>1. PICK g \in Handlers : InChat(g) /\ inSession[g] = t BY <1>0, <4>3 DEF ChatsInv
          <5>2. pc'[g] \in {"chat", "flush"} BY <3>2, <5>1 DEF InChat
          <5> QED BY <3>1, <5>1, <5>2 DEF InChat
        <4> QED BY <3>1, <4>2, <4>3
      <3> QED BY <3>4, <3>5, <3>6, <3>7 DEF ChatsInv
    <2>9. CASE ReadAsk(h)
      <3>1. /\ UNCHANGED <<pc, inSession, target, inflight, chat, asked, open>>
            /\ pc[h] = "chat" /\ heard[h] < asked[h] /\ heard' = [heard EXCEPT ![h] = @ + 1]
            /\ pending' = IF h \in open /\ heard[h] + 1 = asked[h]
                          THEN [pending EXCEPT ![inSession[h]] = <<h, asked[h]>>] ELSE pending
        BY <2>9 DEF ReadAsk, chatVars
      <3>2. \A g \in Handlers : asked[g] \in Nat /\ heard[g] \in Nat BY <1>a, RelayAssumption
      <3>3. \A g \in Handlers : HandlerOk(g)'
        <4>1. HandlerOk(h)' BY <1>a, <2>a, <3>1, <3>2 DEF HandlerOk, Awaited
        <4>2. \A g \in Handlers : g # h => heard'[g] = heard[g] BY <1>a, <3>1
        <4>3. \A g \in Handlers : g # h => HandlerOk(g)' BY <1>b, <3>1, <4>2 DEF HandlerOk
        <4> QED BY <4>1, <4>3
      <3>4. \A g \in Handlers : AnswerOk(g)'
        BY <1>0, <1>b, <1>d, <3>1, AnswerStands
      <3>5. \A t \in Sessions : RegisteredOk(t)'
        <4>1. TAKE t \in Sessions
        <4>2. CASE pending'[t] = pending[t]
          BY <1>0, <1>c, <1>d, <3>1, <4>2, RegisteredStands
        <4>3. CASE pending'[t] # pending[t]
          <5>1. t = inSession[h] /\ pending'[t] = <<h, asked[h]>> BY <1>a, <3>1, <4>3
          <5> QED BY <3>1, <3>2, <5>1 DEF RegisteredOk
        <4> QED BY <4>2, <4>3
      <3>6. \A t \in inflight' : \E g \in Handlers : InChat(g)' /\ inSession'[g] = t
        <4>1. \A g \in Handlers : InChat(g) => pc'[g] \in {"chat", "flush"} BY <3>1 DEF InChat
        <4> QED BY <1>0, <3>1, <4>1, BusyStands
      <3> QED BY <3>3, <3>4, <3>5, <3>6 DEF ChatsInv
    <2>10. CASE ChatEnds(h)
      <3>1. /\ UNCHANGED <<inSession, target, inflight, asked, heard>>
            /\ pc[h] = "chat" /\ pc' = [pc EXCEPT ![h] = "flush"]
            /\ pending' = [pending EXCEPT ![inSession[h]] = None]
            /\ chat' = [chat EXCEPT ![h] = "over"] /\ open' = open \ {h}
        BY <2>10 DEF ChatEnds, Cleared
      <3>2. /\ \A g \in Handlers : g # h => pc'[g] = pc[g] /\ chat'[g] = chat[g]
            /\ pc'[h] = "flush" /\ chat'[h] = "over"
        BY <1>a, <3>1
      <3>3. \A g \in Handlers : HandlerOk(g)'
        <4>1. HandlerOk(h)' BY <2>a, <3>1, <3>2 DEF HandlerOk, Awaited
        <4>2. \A g \in Handlers : g # h => HandlerOk(g)' BY <1>b, <3>1, <3>2 DEF HandlerOk
        <4> QED BY <4>1, <4>2
      <3>4. \A g \in Handlers : AnswerOk(g)'
        <4>1. AnswerOk(h)' BY <3>2 DEF AnswerOk
        <4>2. \A g \in Handlers : chat[g] = "over" => chat'[g] = "over" BY <3>2
        <4>3. \A g \in Handlers : g # h => AnswerOk(g)'
          BY <1>0, <1>b, <1>d, <3>1, <3>2, <4>2, AnswerStands
        <4> QED BY <4>1, <4>3
      <3>5. \A t \in Sessions : RegisteredOk(t)'
        <4>1. \A t \in Sessions : /\ pending'[t] = pending[t] \/ pending'[t] = None
                                  /\ t = inSession[h] => pending'[t] = None
          BY <1>a, <3>1
        <4>2. TAKE t \in Sessions
        <4>3. CASE t = inSession[h] BY <4>1, <4>3 DEF RegisteredOk
        <4>4. CASE t # inSession[h]
          <5>1. \A c \in Handlers : pc[c] = "chat" /\ pending'[t] # None /\ pending[t][1] = c =>
                  pc'[c] = "chat"
            <6>1. TAKE c \in Handlers
            <6>2. HAVE pc[c] = "chat" /\ pending'[t] # None /\ pending[t][1] = c
            <6>3. inSession[c] = t BY <1>c, <4>1, <6>2 DEF RegisteredOk
            <6> QED BY <3>2, <4>4, <6>2, <6>3
          <5> QED BY <1>0, <1>c, <1>d, <3>1, <4>1, <5>1, RegisteredStands
        <4> QED BY <4>3, <4>4
      <3>6. \A t \in inflight' : \E g \in Handlers : InChat(g)' /\ inSession'[g] = t
        <4>1. \A g \in Handlers : InChat(g) => pc'[g] \in {"chat", "flush"}
          BY <3>1, <3>2 DEF InChat
        <4> QED BY <1>0, <3>1, <4>1, BusyStands
      <3> QED BY <3>3, <3>4, <3>5, <3>6 DEF ChatsInv
    <2>11. CASE Flushed(h)
      <3>1. /\ UNCHANGED <<inSession, target, pending, chat, open>>
            /\ pc[h] = "flush" /\ pc' = [pc EXCEPT ![h] = "over"]
            /\ inflight' = inflight \ {inSession[h]}
            /\ asked' = [asked EXCEPT ![h] = 0] /\ heard' = [heard EXCEPT ![h] = 0]
        BY <2>11 DEF Flushed
      <3>2. /\ \A g \in Handlers : g # h => pc'[g] = pc[g] /\ asked'[g] = asked[g]
                                            /\ heard'[g] = heard[g]
            /\ pc'[h] = "over" /\ asked'[h] = 0 /\ heard'[h] = 0
            /\ asked' \in [Handlers -> Nat]
        BY <1>a, <1>d, <3>1
      <3>3. chat[h] = "over" /\ h \notin open BY <2>a, <3>1 DEF HandlerOk
      <3>4. \A g \in Handlers : HandlerOk(g)'
        <4>1. HandlerOk(h)' BY <2>a, <3>1, <3>2, <3>3 DEF HandlerOk, Awaited
        <4>2. \A g \in Handlers : g # h => HandlerOk(g)' BY <1>b, <3>1, <3>2 DEF HandlerOk
        <4> QED BY <4>1, <4>2
      <3>5. \A g \in Handlers : AnswerOk(g)'
        <4>1. AnswerOk(h)' BY <3>2 DEF AnswerOk
        <4>2. \A c \in Handlers : asked[c] <= asked'[c] \/ chat'[c] = "over"
          BY <1>d, <3>1, <3>2, <3>3
        <4>3. \A c \in Handlers : c \in open' => c \in open /\ asked'[c] = asked[c]
          BY <3>1, <3>2, <3>3
        <4>4. \A g \in Handlers : g # h => AnswerOk(g)'
          BY <1>0, <1>b, <3>1, <3>2, <4>2, <4>3, AnswerStands
        <4> QED BY <4>1, <4>4
      <3>6. \A t \in Sessions : RegisteredOk(t)'
        <4>1. \A g \in Handlers : pc[g] = "chat" =>
                 pc'[g] = "chat" /\ asked[g] <= asked'[g]
          BY <1>d, <3>1, <3>2
        <4> QED BY <1>0, <1>c, <3>1, <3>2, <4>1, RegisteredStands
      <3>7. \A t \in inflight' : \E g \in Handlers : InChat(g)' /\ inSession'[g] = t
        <4>1. \A g \in Handlers : InChat(g) /\ inSession[g] \in inflight' =>
                 pc'[g] \in {"chat", "flush"}
          BY <3>1, <3>2 DEF InChat
        <4> QED BY <1>0, <3>1, <4>1, BusyStands
      <3> QED BY <3>4, <3>5, <3>6, <3>7 DEF ChatsInv
    <2> QED BY <1>7, <2>2, <2>3, <2>4, <2>6, <2>7, <2>8, <2>9, <2>10, <2>11 DEF HandlerStep
  <1> QED BY <1>2, <1>3, <1>4, <1>5, <1>6, <1>7 DEF RelayNext


\* Until two chats overlap, a session's chats and registrations are kept by a step that
\* leaves them alone, but for what is registered no longer because nobody waits for it.
LEMMA OverlapStands ==
  ASSUME RelayInv, "overlap" \notin odd', odd \subseteq odd',
         UNCHANGED <<inflight, asked, heard>>, open' \subseteq open,
         unanswered \subseteq unanswered',
         \A h \in Handlers : InChat(h)' => /\ InChat(h) /\ inSession'[h] = inSession[h]
                                           /\ (pc'[h] = "chat" => pc[h] = "chat"),
         \A h \in open' : pc[h] = "chat" /\ pending[inSession[h]] = <<h, asked[h]>> =>
            \/ pending'[inSession[h]] = <<h, asked[h]>>
            \/ <<h, asked[h]>> \in unanswered'
  PROVE  NoOverlap'
  <1>1. NoOverlap /\ open \subseteq Handlers BY DEF RelayInv, OverlapInv, RelayDomains
  <1> HIDE DEF RelayInv
  <1>2. \A h \in Handlers : InChat(h)' => inSession'[h] \in inflight' BY <1>1 DEF NoOverlap
  <1>3. \A g, h \in Handlers : InChat(g)' /\ InChat(h)' /\ inSession'[g] = inSession'[h] => g = h
    BY <1>1 DEF NoOverlap
  <1>4. ASSUME NEW h \in open', pc'[h] = "chat", heard'[h] = asked'[h]
        PROVE  \/ pending'[inSession'[h]] = <<h, asked'[h]>>
               \/ <<h, asked'[h]>> \in unanswered'
    <2>1. h \in Handlers /\ h \in open BY <1>1, <1>4
    <2>2. InChat(h)' BY <1>4 DEF InChat
    <2>3. pc[h] = "chat" /\ inSession'[h] = inSession[h] BY <1>4, <2>1, <2>2
    <2>4. heard[h] = asked[h] BY <1>4
    <2>5. pending[inSession[h]] = <<h, asked[h]>> \/ <<h, asked[h]>> \in unanswered
      BY <1>1, <2>1, <2>3, <2>4 DEF NoOverlap
    <2> QED BY <1>4, <2>3, <2>5
  <1> QED BY <1>2, <1>3, <1>4 DEF NoOverlap

\* Every step keeps the chats of a session apart, unless it makes them overlap.
LEMMA OverlapKept == RelayInv /\ RelayNext => OverlapInv'
  <1> SUFFICES ASSUME RelayInv, RelayNext, "overlap" \notin odd' PROVE NoOverlap'
    BY DEF OverlapInv
  <1>0. OverlapInv /\ ChatsInv /\ RelayDomains BY DEF RelayInv
  <1>a. /\ pc \in [Handlers -> {"idle", "fetch", "session", "post", "posted", "typing", "chat",
                          "flush", "over"}]
        /\ inSession \in [Handlers -> {0} \cup Sessions] /\ batch \in [Loops -> Seq(Msgs)]
        /\ target \in [Handlers -> Requests] /\ pending \in [Sessions -> Requests]
        /\ asked \in [Handlers -> 0..MaxAsks] /\ heard \in [Handlers -> 0..MaxAsks]
        /\ open \subseteq Handlers /\ inflight \subseteq Sessions
    BY <1>0 DEF RelayDomains
  <1>b. \A h \in Handlers : HandlerOk(h) /\ AnswerOk(h) BY <1>0 DEF ChatsInv
  <1>c. \A h \in Handlers : asked[h] \in Nat /\ heard[h] \in Nat BY <1>a, RelayAssumption
  <1> HIDE DEF RelayInv
  <1>1. ASSUME odd \subseteq odd',
               UNCHANGED <<inSession, inflight, pending, asked, heard, unanswered>>,
               open' \subseteq open,
               \A h \in Handlers : pc'[h] = pc[h] \/ pc'[h] \notin {"chat", "flush"}
        PROVE NoOverlap'
    <2>1. \A h \in Handlers : InChat(h)' => /\ InChat(h) /\ inSession'[h] = inSession[h]
                                           /\ (pc'[h] = "chat" => pc[h] = "chat")
      BY <1>1 DEF InChat
    <2> QED BY <1>1, <2>1, OverlapStands
  <1>2. CASE UserSends
    <2>1. UNCHANGED <<odd, inSession, inflight, pending, asked, heard, unanswered, open, pc>>
      BY <1>2 DEF UserSends, chatVars
    <2> QED BY <1>1, <2>1
  <1>3. ASSUME NEW s \in Sessions, Expire(s) PROVE NoOverlap'
    <2>1. /\ UNCHANGED <<odd, inSession, inflight, asked, heard, unanswered, open, pc>>
          /\ pending' = [pending EXCEPT ![s] = None]
          /\ pending[s][1] \notin open \/ asked[pending[s][1]] # pending[s][2]
      BY <1>3 DEF Expire, chatVars, WindowOver
    <2>2. \A h \in Handlers : InChat(h)' => /\ InChat(h) /\ inSession'[h] = inSession[h]
                                           /\ (pc'[h] = "chat" => pc[h] = "chat")
      BY <2>1 DEF InChat
    <2>3. \A h \in open' : pending[inSession[h]] = <<h, asked[h]>> =>
             pending'[inSession[h]] = <<h, asked[h]>>
      <3>1. TAKE h \in open'
      <3>2. HAVE pending[inSession[h]] = <<h, asked[h]>>
      <3>3. inSession[h] # s
        <4>1. SUFFICES ASSUME inSession[h] = s PROVE FALSE OBVIOUS
        <4>2. pending[s][1] = h /\ pending[s][2] = asked[h] BY <3>2, <4>1
        <4> QED BY <2>1, <4>2
      <3> QED BY <1>a, <2>1, <3>2, <3>3
    <2> QED BY <2>1, <2>2, <2>3, OverlapStands
  <1>4. ASSUME NEW l \in Loops, LoopStep(l) PROVE NoOverlap'
    <2>1. CASE \E saves \in BOOLEAN : Poll(l, saves)
      <3>1. PICK saves \in BOOLEAN : Poll(l, saves) BY <2>1
      <3>2. /\ UNCHANGED <<inSession, inflight, pending, asked, heard, unanswered, open, pc>>
            /\ odd \subseteq odd'
        BY <3>1 DEF Poll, chatVars, Mishap
      <3> QED BY <1>1, <3>2
    <2>2. CASE PollEnds(l) \/ BatchDone(l) \/ GuardExpires(l)
      <3>1. /\ UNCHANGED <<inSession, inflight, pending, asked, heard, unanswered, open, pc>>
            /\ odd \subseteq odd'
        BY <2>2 DEF PollEnds, BatchDone, GuardExpires, chatVars, Mishap
      <3> QED BY <1>1, <3>1
    <2>3. CASE Take(l)
      <3>1. /\ UNCHANGED <<odd, inSession, inflight, pending, asked, heard, unanswered, open>>
            /\ pc' = [pc EXCEPT ![<<l, Head(batch[l])>>] = "fetch"]
        BY <2>3 DEF Take, chatVars
      <3>2. \A h \in Handlers : pc'[h] = pc[h] \/ pc'[h] \notin {"chat", "flush"} BY <1>a, <3>1
      <3> QED BY <1>1, <3>1, <3>2
    <2> QED BY <1>4, <2>1, <2>2, <2>3 DEF LoopStep
  <1>5. CASE Login
    <2>1. /\ UNCHANGED <<inSession, inflight, pending, asked, heard, unanswered, open, pc>>
          /\ odd \subseteq odd'
      BY <1>5 DEF Login, chatVars, Mishap
    <2> QED BY <1>1, <2>1
  <1>6. CASE BridgeRestart
    <2>1. open' = {} /\ \A h \in Handlers : pc'[h] = "idle" BY <1>6 DEF BridgeRestart
    <2> QED BY <2>1 DEF NoOverlap, InChat
  <1>7. ASSUME NEW h \in Handlers, ServerStep(h) PROVE NoOverlap'
    <2>1. UNCHANGED <<pc, inSession, pending, inflight, heard, unanswered, odd>>
      BY <1>7, ServerAside
    <2>2. CASE ServerStarts(h) \/ ServerExpires(h) \/ ServerEnds(h)
      <3>1. asked' = asked /\ open' \subseteq open
        BY <2>2 DEF ServerStarts, ServerExpires, ServerEnds
      <3> QED BY <1>1, <2>1, <3>1
    <2>3. CASE ServerAsks(h)
      <3>1. open' = open \cup {h} /\ h \notin open /\ asked' = [asked EXCEPT ![h] = @ + 1]
        BY <2>3 DEF ServerAsks
      <3>2. heard[h] <= asked[h] BY <1>b DEF HandlerOk
      <3>3. heard'[h] # asked'[h] BY <1>a, <1>c, <2>1, <3>1, <3>2
      <3>4. \A g \in Handlers : g # h => asked'[g] = asked[g] BY <1>a, <3>1
      <3>5. NoOverlap BY <1>0, <2>1 DEF OverlapInv
      <3> QED BY <1>a, <2>1, <3>1, <3>3, <3>4, <3>5 DEF NoOverlap, InChat
    <2> QED BY <1>7, <2>2, <2>3 DEF ServerStep
  <1>8. ASSUME NEW h \in Handlers, HandlerStep(h) PROVE NoOverlap'
    <2>a. NoOverlap BY <1>0, <1>8, HandlerMoves DEF OverlapInv
    <2>b. odd \subseteq odd' /\ \A g \in Handlers : g # h => pc'[g] = pc[g]
      BY <1>0, <1>8, HandlerMoves
    <2>c. HandlerOk(h) /\ AnswerOk(h) BY <1>b, <1>8
    <2>1. ASSUME pc[h] \in {"fetch", "session"}, NEW s, Route(h, s),
                 UNCHANGED <<pending, inflight, asked, open, heard, unanswered>>
          PROVE NoOverlap'
      <3>1. /\ inSession' = [inSession EXCEPT ![h] = s]
            /\ pc'[h] \in {"post", "over", "typing"}
        BY <1>a, <2>1 DEF Route
      <3>2. \A g \in Handlers : g # h => inSession'[g] = inSession[g] BY <1>a, <3>1
      <3>3. \A g \in Handlers : InChat(g)' => /\ InChat(g) /\ inSession'[g] = inSession[g]
                                           /\ (pc'[g] = "chat" => pc[g] = "chat")
        BY <2>b, <3>1, <3>2 DEF InChat
      <3> QED BY <2>1, <2>b, <3>3, OverlapStands
    <2>2. CASE Fetched(h)
      BY <2>1, <2>2 DEF Fetched, chatVars
    <2>3. CASE SessionCreated(h)
      <3>1. PICK s \in Sessions : Route(h, s) BY <2>3 DEF SessionCreated
      <3> QED BY <2>1, <2>3, <3>1 DEF SessionCreated, chatVars
    <2>4. CASE NeedsSession(h) \/ SessionFails(h) \/ AnswerArrives(h)
      <3>1. /\ UNCHANGED <<inSession, pending, inflight, asked, heard, unanswered>>
            /\ open' \subseteq open /\ pc'[h] \notin {"chat", "flush"}
        BY <1>a, <2>4 DEF NeedsSession, SessionFails, AnswerArrives, chatVars
      <3> QED BY <1>1, <2>b, <3>1
    <2>5. CASE AnswerReturns(h) \/ AnswerFails(h)
      <3>1. /\ UNCHANGED <<inSession, inflight, asked, heard, open>>
            /\ pc[h] \in {"post", "posted"} /\ pc'[h] = "over" /\ Resolve(h)
            /\ unanswered \subseteq unanswered'
            /\ pc[h] = "post" => target[h] \in unanswered'
        BY <1>a, <2>5 DEF AnswerReturns, AnswerFails, chatVars
      <3>2. \A g \in Handlers : InChat(g)' => /\ InChat(g) /\ inSession'[g] = inSession[g]
                                           /\ (pc'[g] = "chat" => pc[g] = "chat")
        BY <2>b, <3>1 DEF InChat
      <3>3. ASSUME NEW g \in open', pending[inSession[g]] = <<g, asked[g]>>,
                   pending'[inSession[g]] # <<g, asked[g]>>
            PROVE <<g, asked[g]>> \in unanswered'
        <4>1. target[h] = <<g, asked[g]>> BY <1>a, <3>1, <3>3 DEF Resolve
        <4>2. target[h][1] = g /\ target[h][2] = asked[g] /\ g \in open BY <3>1, <4>1
        <4>3. pc[h] # "posted" BY <2>c, <4>2 DEF AnswerOk
        <4> QED BY <3>1, <4>1, <4>3
      <3> QED BY <2>b, <3>1, <3>2, <3>3, OverlapStands
    <2>6. CASE OpenChat(h)
      <3>1. /\ UNCHANGED <<inSession, pending, asked, open, heard, unanswered>>
            /\ pc[h] = "typing" /\ pc'[h] = "chat" /\ inSession[h] \notin inflight
            /\ inflight' = inflight \cup {inSession[h]}
        BY <1>a, <2>6 DEF OpenChat
      <3>2. h \notin open BY <2>c, <3>1 DEF HandlerOk, Awaited
      <3>3. \A g \in Handlers : g # h /\ InChat(g)' =>
              InChat(g) /\ inSession[g] \in inflight /\ inSession[g] # inSession[h]
        BY <2>a, <2>b, <3>1 DEF InChat, NoOverlap
      <3>4. \A g \in Handlers : InChat(g)' => inSession'[g] \in inflight' BY <3>1, <3>3
      <3>5. \A f, g \in Handlers :
              InChat(f)' /\ InChat(g)' /\ inSession'[f] = inSession'[g] => f = g
        <4>1. TAKE f, g \in Handlers
        <4>2. HAVE InChat(f)' /\ InChat(g)' /\ inSession'[f] = inSession'[g]
        <4>3. CASE f # h /\ g # h BY <2>a, <3>1, <3>3, <4>2, <4>3 DEF NoOverlap
        <4>4. CASE f = h \/ g = h BY <3>1, <3>3, <4>2, <4>4
        <4> QED BY <4>3, <4>4
      <3>6. \A g \in open' : pc'[g] = "chat" /\ heard'[g] = asked'[g] =>
               \/ pending'[inSession'[g]] = <<g, asked'[g]>>
               \/ <<g, asked'[g]>> \in unanswered'
        BY <1>a, <2>a, <2>b, <3>1, <3>2 DEF NoOverlap
      <3> QED BY <3>4, <3>5, <3>6 DEF NoOverlap
    <2>7. CASE ReadAsk(h)
      <3>1. /\ UNCHANGED <<pc, inSession, inflight, asked, open, unanswered>>
            /\ pc[h] = "chat" /\ heard' = [heard EXCEPT ![h] = @ + 1]
            /\ pending' = IF h \in open /\ heard[h] + 1 = asked[h]
                          THEN [pending EXCEPT ![inSession[h]] = <<h, asked[h]>>] ELSE pending
        BY <2>7 DEF ReadAsk, chatVars
      <3>2. inSession[h] \in Sessions BY <1>a, <2>c, <3>1 DEF HandlerOk
      <3>3. \A g \in Handlers : InChat(g)' => inSession'[g] \in inflight'
        BY <2>a, <3>1 DEF NoOverlap, InChat
      <3>4. \A f, g \in Handlers :
              InChat(f)' /\ InChat(g)' /\ inSession'[f] = inSession'[g] => f = g
        BY <2>a, <3>1 DEF NoOverlap, InChat
      <3>5. ASSUME NEW g \in open', pc'[g] = "chat", heard'[g] = asked'[g]
            PROVE  \/ pending'[inSession'[g]] = <<g, asked'[g]>>
                   \/ <<g, asked'[g]>> \in unanswered'
        <4>1. g \in Handlers BY <1>a, <3>1, <3>5
        <4>2. CASE g = h BY <1>a, <3>1, <3>2, <3>5, <4>2
        <4>3. CASE g # h
          <5>1. inSession[g] # inSession[h]
            BY <2>a, <3>1, <3>5, <4>1, <4>3 DEF NoOverlap, InChat
          <5>2. heard[g] = asked[g] BY <1>a, <3>1, <3>5, <4>1, <4>3
          <5>3. pending'[inSession[g]] = pending[inSession[g]] BY <1>a, <3>1, <3>2, <5>1
          <5> QED BY <2>a, <3>1, <3>5, <5>2, <5>3 DEF NoOverlap
        <4> QED BY <4>2, <4>3
      <3> QED BY <3>3, <3>4, <3>5 DEF NoOverlap
    <2>8. CASE ChatEnds(h)
      <3>1. /\ UNCHANGED <<inSession, inflight, asked, heard, unanswered>>
            /\ pc[h] = "chat" /\ pc'[h] = "flush" /\ open' = open \ {h}
            /\ pending' = [pending EXCEPT ![inSession[h]] = None]
        BY <1>a, <2>8 DEF ChatEnds, Cleared
      <3>2. \A g \in Handlers : InChat(g)' => /\ InChat(g) /\ inSession'[g] = inSession[g]
                                           /\ (pc'[g] = "chat" => pc[g] = "chat")
        BY <2>b, <3>1 DEF InChat
      <3>3. \A g \in open' : pc[g] = "chat" => inSession[g] # inSession[h]
        BY <1>a, <2>a, <3>1 DEF NoOverlap, InChat
      <3>4. \A g \in open' : pc[g] = "chat" => pending'[inSession[g]] = pending[inSession[g]]
        BY <1>a, <3>1, <3>3
      <3> QED BY <2>b, <3>1, <3>2, <3>4, OverlapStands
    <2>9. CASE Flushed(h)
      <3>1. /\ UNCHANGED <<inSession, pending, open, unanswered>>
            /\ pc[h] = "flush" /\ pc'[h] = "over" /\ inflight' = inflight \ {inSession[h]}
            /\ \A g \in Handlers : g # h => asked'[g] = asked[g] /\ heard'[g] = heard[g]
        BY <1>a, <2>9 DEF Flushed
      <3>2. \A g \in Handlers : InChat(g)' =>
               g # h /\ InChat(g) /\ inSession[g] # inSession[h] /\ inSession'[g] = inSession[g]
        BY <2>a, <2>b, <3>1 DEF InChat, NoOverlap
      <3>3. \A g \in Handlers : InChat(g)' => inSession'[g] \in inflight'
        BY <2>a, <3>1, <3>2 DEF NoOverlap
      <3>4. \A f, g \in Handlers :
              InChat(f)' /\ InChat(g)' /\ inSession'[f] = inSession'[g] => f = g
        BY <2>a, <3>2 DEF NoOverlap
      <3>5. \A g \in open' : pc'[g] = "chat" /\ heard'[g] = asked'[g] =>
               \/ pending'[inSession'[g]] = <<g, asked'[g]>>
               \/ <<g, asked'[g]>> \in unanswered'
        BY <1>a, <2>a, <2>b, <3>1 DEF NoOverlap
      <3> QED BY <3>3, <3>4, <3>5 DEF NoOverlap
    <2> QED BY <1>8, <2>2, <2>3, <2>4, <2>5, <2>6, <2>7, <2>8, <2>9 DEF HandlerStep
  <1> QED BY <1>2, <1>3, <1>4, <1>5, <1>6, <1>7, <1>8 DEF RelayNext

\* Every step keeps the domains.
LEMMA DomainsKept == RelayInv /\ RelayNext => RelayDomains'
  <1> SUFFICES ASSUME RelayInv, RelayNext PROVE RelayDomains' OBVIOUS
  <1>0. RelayDomains /\ ChatsInv BY DEF RelayInv
  <1>a. /\ said \in 0..NumMsgs
        /\ loop \in [Loops -> {"none", "polling", "handling", "over"}]
        /\ newest \in Loops
        /\ cursor \in [Loops -> 0..NumMsgs] /\ current \in [Loops -> 0..NumMsgs]
        /\ batch \in [Loops -> Seq(Msgs)]
        /\ pc \in [Handlers -> {"idle", "fetch", "session", "post", "posted", "typing", "chat",
                                "flush", "over"}]
        /\ inSession \in [Handlers -> {0} \cup Sessions] /\ target \in [Handlers -> Requests]
        /\ peerSession \in {0} \cup Sessions
        /\ stored \in [cursor : 0..NumMsgs, session : {0} \cup Sessions]
        /\ pending \in [Sessions -> Requests] /\ inflight \subseteq Sessions
        /\ chat \in [Handlers -> {"none", "queued", "running", "over"}]
        /\ asked \in [Handlers -> 0..MaxAsks] /\ heard \in [Handlers -> 0..MaxAsks]
        /\ open \subseteq Handlers /\ starts \in [Msgs -> Nat]
    BY <1>0 DEF RelayDomains
  <1>b. /\ None \in Requests /\ 0 \in 0..NumMsgs /\ 0 \in 0..MaxAsks
        /\ \A h \in Handlers : h[1] \in Loops /\ h[2] \in Msgs
        /\ \A h \in Handlers, k \in 1..MaxAsks : <<h, k>> \in Requests
        /\ \A m \in Msgs : m \in 0..NumMsgs
        /\ <<>> \in Seq(Msgs)
    BY RequestPairs, HandlerPairs, RelayAssumption DEF Msgs
  <1> HIDE DEF RelayInv
  <1>1. ASSUME UNCHANGED <<said, loop, newest, cursor, current, batch, stored, peerSession,
                           pc, inSession, target, pending, inflight, chat, asked, heard, open,
                           starts>>
        PROVE RelayDomains'
    BY <1>0, <1>1 DEF RelayDomains
  <1>2. CASE UserSends
    <2>1. said' \in 0..NumMsgs BY <1>2, <1>a, RelayAssumption DEF UserSends
    <2> QED BY <1>2, <1>a, <2>1 DEF UserSends, chatVars, RelayDomains
  <1>3. ASSUME NEW s \in Sessions, Expire(s) PROVE RelayDomains'
    BY <1>3, <1>a, <1>b DEF Expire, loopVars, chatVars, RelayDomains
  <1>4. ASSUME NEW l \in Loops, LoopStep(l) PROVE RelayDomains'
    <2>1. CASE \E saves \in BOOLEAN : Poll(l, saves)
      <3>1. PICK saves \in BOOLEAN : Poll(l, saves) BY <2>1
      <3>2. PICK n \in (cursor[l] + 1)..said :
             /\ cursor' = [cursor EXCEPT ![l] = n]
             /\ batch' = [batch EXCEPT ![l] = [i \in 1..(n - cursor[l]) |-> cursor[l] + i]]
             /\ stored' \in {stored, [stored EXCEPT !.cursor = n]}
        BY <3>1 DEF Poll, SavedCursor
      <3>3. n \in 0..NumMsgs /\ cursor[l] \in Nat /\ n - cursor[l] \in Nat
        BY <1>a, <3>2, RelayAssumption
      <3>4. [i \in 1..(n - cursor[l]) |-> cursor[l] + i] \in Seq(Msgs)
        <4>1. \A i \in 1..(n - cursor[l]) : cursor[l] + i \in Msgs
          BY <3>3, RelayAssumption DEF Msgs
        <4> QED BY <3>3, <4>1, SeqDef
      <3>5. batch' \in [Loops -> Seq(Msgs)] BY <1>a, <3>2, <3>4
      <3>6. cursor' \in [Loops -> 0..NumMsgs] BY <1>a, <3>2, <3>3
      <3>7. stored' \in [cursor : 0..NumMsgs, session : {0} \cup Sessions] BY <1>a, <3>2, <3>3
      <3>8. /\ loop' = [loop EXCEPT ![l] = "handling"]
            /\ UNCHANGED <<said, newest, current, peerSession, pc, inSession, target, pending,
                           inflight, chat, asked, heard, open, starts>>
        BY <3>1 DEF Poll, chatVars
      <3> QED BY <1>a, <3>5, <3>6, <3>7, <3>8 DEF RelayDomains
    <2>2. CASE PollEnds(l) \/ BatchDone(l)
      <3>1. /\ \E x \in {"polling", "over"} : loop' = [loop EXCEPT ![l] = x]
            /\ UNCHANGED <<said, newest, cursor, current, batch, stored, peerSession,
                           pc, inSession, target, pending, inflight, chat, asked, heard, open,
                           starts>>
        BY <2>2 DEF PollEnds, BatchDone, chatVars
      <3>2. loop' \in [Loops -> {"none", "polling", "handling", "over"}] BY <1>a, <3>1
      <3> QED BY <1>a, <3>1, <3>2 DEF RelayDomains
    <2>3. CASE GuardExpires(l)
      BY <1>a, <1>b, <2>3 DEF GuardExpires, chatVars, RelayDomains
    <2>4. CASE Take(l)
      <3>1. /\ batch[l] # <<>> /\ current' = [current EXCEPT ![l] = Head(batch[l])]
            /\ pc' = [pc EXCEPT ![<<l, Head(batch[l])>>] = "fetch"]
            /\ batch' = [batch EXCEPT ![l] = Tail(@)]
            /\ starts' = [starts EXCEPT ![Head(batch[l])] = @ + 1]
            /\ UNCHANGED <<said, loop, newest, cursor, stored, peerSession,
                           inSession, target, pending, inflight, chat, asked, heard, open>>
        BY <2>4 DEF Take, chatVars
      <3>2. Head(batch[l]) \in Msgs /\ Tail(batch[l]) \in Seq(Msgs) BY <1>a, <3>1
      <3>3. batch' \in [Loops -> Seq(Msgs)] BY <1>a, <3>1, <3>2
      <3>4. current' \in [Loops -> 0..NumMsgs] BY <1>a, <1>b, <3>1, <3>2
      <3>5. starts' \in [Msgs -> Nat] BY <1>a, <3>1, <3>2
      <3> QED BY <1>a, <3>1, <3>3, <3>4, <3>5 DEF RelayDomains
    <2> QED BY <1>4, <2>1, <2>2, <2>3, <2>4 DEF LoopStep
  <1>5. CASE Login
    <2>1. PICK c \in cursor[1]..said :
            /\ cursor' = [cursor EXCEPT ![2] = c]
            /\ stored' = [cursor |-> c, session |-> peerSession]
      BY <1>5 DEF Login
    <2>2. c \in 0..NumMsgs /\ 2 \in Loops BY <1>a, <2>1, RelayAssumption DEF Loops
    <2>3. cursor' \in [Loops -> 0..NumMsgs] BY <1>a, <2>1, <2>2
    <2>4. stored' \in [cursor : 0..NumMsgs, session : {0} \cup Sessions]
      BY <1>a, <2>1, <2>2
    <2>5. /\ newest' = 2 /\ loop' = [loop EXCEPT ![2] = "polling"]
          /\ UNCHANGED <<said, current, batch, peerSession, pc, inSession, target, pending,
                         inflight, chat, asked, heard, open, starts>>
      BY <1>5 DEF Login, chatVars
    <2> QED BY <1>a, <2>2, <2>3, <2>4, <2>5 DEF RelayDomains
  <1>6. CASE BridgeRestart
    <2>1. /\ cursor' = [cursor EXCEPT ![newest] = stored.cursor]
          /\ peerSession' = stored.session
          /\ loop' = [l \in Loops |-> IF l = newest THEN "polling" ELSE "over"]
          /\ UNCHANGED <<said, newest, stored, starts>>
      BY <1>6 DEF BridgeRestart
    <2>2. /\ batch' = [l \in Loops |-> <<>>] /\ current' = [l \in Loops |-> 0]
          /\ pc' = [h \in Handlers |-> "idle"] /\ inSession' = [h \in Handlers |-> 0]
          /\ target' = [h \in Handlers |-> None] /\ pending' = [s \in Sessions |-> None]
          /\ inflight' = {} /\ chat' = [h \in Handlers |-> "none"]
          /\ asked' = [h \in Handlers |-> 0] /\ open' = {} /\ heard' = [h \in Handlers |-> 0]
      BY <1>6 DEF BridgeRestart
    <2>3. cursor' \in [Loops -> 0..NumMsgs] /\ peerSession' \in {0} \cup Sessions BY <1>a, <2>1
    <2>4. loop' \in [Loops -> {"none", "polling", "handling", "over"}] BY <2>1
    <2>5. batch' \in [Loops -> Seq(Msgs)] /\ current' \in [Loops -> 0..NumMsgs] BY <1>b, <2>2
    <2>6. target' \in [Handlers -> Requests] /\ pending' \in [Sessions -> Requests]
      BY <1>b, <2>2
    <2>7. asked' \in [Handlers -> 0..MaxAsks] /\ heard' \in [Handlers -> 0..MaxAsks]
      BY <1>b, <2>2
    <2> QED BY <1>a, <2>1, <2>2, <2>3, <2>4, <2>5, <2>6, <2>7 DEF RelayDomains
  <1>7. ASSUME NEW h \in Handlers, ServerStep(h) PROVE RelayDomains'
    <2>1. UNCHANGED <<loopVars, current, pc, inSession, target, peerSession, pending, inflight,
                      heard>>
      BY <1>7, ServerAside
    <2>2. /\ chat' \in [Handlers -> {"none", "queued", "running", "over"}]
          /\ open' \subseteq Handlers
      BY <1>7, <1>a DEF ServerStep, ServerStarts, ServerAsks, ServerExpires, ServerEnds
    <2>3. asked' \in [Handlers -> 0..MaxAsks]
      <3>1. CASE ServerAsks(h)
        BY <1>a, <3>1, RelayAssumption DEF ServerAsks
      <3>2. CASE ~ServerAsks(h)
        BY <1>7, <1>a, <3>2 DEF ServerStep, ServerStarts, ServerExpires, ServerEnds
      <3> QED BY <3>1, <3>2
    <2> QED BY <1>a, <2>1, <2>2, <2>3 DEF RelayDomains, loopVars
  <1>8. ASSUME NEW h \in Handlers, HandlerStep(h) PROVE RelayDomains'
    <2>1. UNCHANGED <<said, loop, newest, cursor, batch, starts>> BY <1>0, <1>8, HandlerMoves
    <2>2. current' \in [Loops -> 0..NumMsgs]
      <3>1. current' = current \/ Returns(h) BY <1>0, <1>8, HandlerMoves
      <3> QED BY <1>a, <1>b, <3>1 DEF Returns
    <2>3. ASSUME NEW s \in Sessions, Route(h, s)
          PROVE /\ pc' \in [Handlers -> {"idle", "fetch", "session", "post", "posted", "typing",
                                         "chat", "flush", "over"}]
                /\ inSession' \in [Handlers -> {0} \cup Sessions]
                /\ target' \in [Handlers -> Requests]
      BY <1>a, <2>3 DEF Route
    <2>4. CASE Fetched(h)
      <3>1. peerSession \in Sessions BY <1>a, <2>4 DEF Fetched
      <3> QED BY <1>a, <2>1, <2>2, <2>3, <2>4, <3>1 DEF Fetched, loopVars, chatVars, RelayDomains
    <2>5. CASE SessionCreated(h)
      <3>1. PICK s \in Sessions :
              /\ peerSession' = s /\ Route(h, s)
              /\ stored' = [cursor |-> IF h[1] = newest THEN cursor[h[1]] ELSE stored.cursor,
                            session |-> s]
        BY <2>5 DEF SessionCreated
      <3>2. stored' \in [cursor : 0..NumMsgs, session : {0} \cup Sessions] BY <1>a, <1>b, <3>1
      <3>3. UNCHANGED <<pending, inflight, chat, asked, open, heard>>
        BY <2>5 DEF SessionCreated, chatVars
      <3> QED BY <1>a, <2>1, <2>2, <2>3, <3>1, <3>2, <3>3 DEF RelayDomains
    <2>6. CASE NeedsSession(h) \/ SessionFails(h)
      BY <1>a, <2>1, <2>2, <2>6
      DEF NeedsSession, SessionFails, loopVars, chatVars, RelayDomains
    <2>7. CASE AnswerArrives(h)
      BY <1>a, <2>1, <2>2, <2>7 DEF AnswerArrives, loopVars, RelayDomains
    <2>8. CASE AnswerReturns(h) \/ AnswerFails(h)
      <3>1. pending' \in [Sessions -> Requests]
        BY <1>a, <1>b, <2>8 DEF AnswerReturns, AnswerFails, Resolve
      <3> QED BY <1>a, <2>1, <2>2, <2>8, <3>1
          DEF AnswerReturns, AnswerFails, loopVars, chatVars, RelayDomains
    <2>9. CASE OpenChat(h)
      <3>1. HandlerOk(h) BY <1>0, <1>8 DEF ChatsInv
      <3>2. inSession[h] \in Sessions BY <1>a, <2>9, <3>1 DEF OpenChat, HandlerOk
      <3> QED BY <1>a, <2>1, <2>2, <2>9, <3>2 DEF OpenChat, loopVars, RelayDomains
    <2>10. CASE ReadAsk(h)
      <3>1. /\ heard[h] < asked[h] /\ heard' = [heard EXCEPT ![h] = @ + 1]
            /\ pending' \in {pending, [pending EXCEPT ![inSession[h]] = <<h, asked[h]>>]}
            /\ UNCHANGED <<loopVars, current, pc, inSession, target, peerSession, inflight,
                           chat, asked, open>>
        BY <2>10 DEF ReadAsk, chatVars
      <3>2. asked[h] \in 1..MaxAsks /\ heard[h] + 1 \in 0..MaxAsks
        BY <1>a, <3>1, RelayAssumption
      <3>3. heard' \in [Handlers -> 0..MaxAsks] BY <1>a, <3>1, <3>2
      <3>4. pending' \in [Sessions -> Requests]
        <4>1. <<h, asked[h]>> \in Requests BY <1>b, <1>8, <3>2
        <4>2. pending' = pending \/ pending' = [pending EXCEPT ![inSession[h]] = <<h, asked[h]>>]
          BY <3>1
        <4>3. pending \in [Sessions -> Requests] BY <1>a
        <4>4. ASSUME NEW f \in [Sessions -> Requests], NEW s, NEW r \in Requests
              PROVE  [f EXCEPT ![s] = r] \in [Sessions -> Requests]
          OBVIOUS
        <4> QED BY <4>1, <4>2, <4>3, <4>4
      <3> QED BY <1>a, <3>1, <3>3, <3>4 DEF loopVars, RelayDomains
    <2>11. CASE ChatEnds(h)
      BY <1>a, <1>b, <2>11 DEF ChatEnds, Cleared, loopVars, RelayDomains
    <2>12. CASE Flushed(h)
      <3>1. asked' \in [Handlers -> 0..MaxAsks] /\ heard' \in [Handlers -> 0..MaxAsks]
        BY <1>a, <1>b, <2>12 DEF Flushed
      <3> QED BY <1>a, <2>12, <3>1 DEF Flushed, loopVars, RelayDomains
    <2> QED BY <1>8, <2>4, <2>5, <2>6, <2>7, <2>8, <2>9, <2>10, <2>11, <2>12 DEF HandlerStep
  <1> QED BY <1>2, <1>3, <1>4, <1>5, <1>6, <1>7, <1>8 DEF RelayNext

\* Every step keeps the account of what was begun.
LEMMA StartsKept == RelayInv /\ RelayNext => StartedInv'
  <1> SUFFICES ASSUME RelayInv, RelayNext, odd' \cap {"save", "login"} = {}
               PROVE  /\ stored'.cursor = cursor'[1]
                      /\ \A m \in Msgs : starts'[m] <= 1 /\ (starts'[m] > 0 => m <= cursor'[1])
                      /\ \A i \in DOMAIN batch'[1] : starts'[batch'[1][i]] = 0
    BY DEF StartedInv
  <1> DEFINE Goal == /\ stored'.cursor = cursor'[1]
                     /\ \A m \in Msgs : starts'[m] <= 1 /\ (starts'[m] > 0 => m <= cursor'[1])
                     /\ \A i \in DOMAIN batch'[1] : starts'[batch'[1][i]] = 0
  <1>0. StartedInv /\ LoopsInv /\ RelayDomains BY DEF RelayInv
  <1>a. /\ cursor \in [Loops -> 0..NumMsgs] /\ batch \in [Loops -> Seq(Msgs)]
        /\ starts \in [Msgs -> Nat] /\ said \in 0..NumMsgs
        /\ stored \in [cursor : 0..NumMsgs, session : {0} \cup Sessions]
    BY <1>0 DEF RelayDomains
  <1> HIDE DEF RelayInv
  <1>b. odd \subseteq odd'
    <2>1. ASSUME NEW l \in Loops, LoopStep(l) PROVE odd \subseteq odd'
      BY <2>1 DEF LoopStep, Poll, PollEnds, Take, BatchDone, GuardExpires, Mishap
    <2>2. ASSUME NEW h \in Handlers, HandlerStep(h) PROVE odd \subseteq odd'
      BY <1>0, <2>2, HandlerMoves
    <2>3. ASSUME NEW h \in Handlers, ServerStep(h) PROVE odd \subseteq odd'
      BY <2>3, ServerAside
    <2> QED BY <2>1, <2>2, <2>3 DEF RelayNext, UserSends, Expire, Login, BridgeRestart, Mishap
  <1>c. /\ stored.cursor = cursor[1] /\ newest = 1
        /\ \A m \in Msgs : starts[m] <= 1 /\ (starts[m] > 0 => m <= cursor[1])
        /\ \A i \in DOMAIN batch[1] : starts[batch[1][i]] = 0
    BY <1>0, <1>b DEF StartedInv, LoopsInv
  <1>1. ASSUME UNCHANGED <<cursor, batch, starts>>, stored'.cursor = stored.cursor PROVE Goal
    BY <1>c, <1>1
  <1> HIDE DEF Goal
  <1>2. CASE UserSends
    <2>1. UNCHANGED <<cursor, batch, starts, stored>> BY <1>2 DEF UserSends
    <2> QED BY <1>1, <2>1 DEF Goal
  <1>3. ASSUME NEW s \in Sessions, Expire(s) PROVE Goal
    BY <1>1, <1>3 DEF Expire, loopVars
  <1>4. ASSUME NEW h \in Handlers, ServerStep(h) PROVE Goal
    BY <1>1, <1>4, ServerAside DEF loopVars
  <1>5. ASSUME NEW h \in Handlers, HandlerStep(h) PROVE Goal
    <2>1. UNCHANGED <<cursor, batch, starts>> /\ pc[h] # "idle" BY <1>0, <1>5, HandlerMoves
    <2>2. h[1] = 1
      <3>1. h[1] \in Loops /\ h[2] \in Msgs /\ h = <<h[1], h[2]>> BY HandlerPairs
      <3>2. \A m \in Msgs : pc[<<2, m>>] = "idle" BY <1>0, <1>c DEF LoopsInv
      <3>3. h[1] # 2 BY <2>1, <3>1, <3>2
      <3> QED BY <3>1, <3>3 DEF Loops
    <2>3. stored'.cursor = stored.cursor
      <3>1. CASE SessionCreated(h)
        BY <1>c, <2>2, <3>1 DEF SessionCreated
      <3>2. CASE ~SessionCreated(h)
        <4>1. stored' = stored
          BY <1>5, <3>2 DEF HandlerStep, Fetched, NeedsSession, SessionFails, AnswerArrives,
                            AnswerReturns, AnswerFails, OpenChat, ReadAsk, ChatEnds, Flushed,
                            loopVars
        <4> QED BY <4>1
      <3> QED BY <3>1, <3>2
    <2> QED BY <1>1, <2>1, <2>3
  <1>6. ASSUME NEW l \in Loops, LoopStep(l) PROVE Goal
    <2>1. CASE PollEnds(l) \/ BatchDone(l) \/ GuardExpires(l)
      BY <1>1, <2>1 DEF PollEnds, BatchDone, GuardExpires
    <2>2. ASSUME loop[l] \in {"polling", "handling"} PROVE l = 1
      <3>1. loop[2] \notin {"polling", "handling"} BY <1>0, <1>c DEF LoopsInv
      <3> QED BY <2>2, <3>1 DEF Loops
    <2>3. CASE \E saves \in BOOLEAN : Poll(l, saves)
      <3>1. PICK saves \in BOOLEAN : Poll(l, saves) BY <2>3
      <3>2. l = 1 BY <2>2, <3>1 DEF Poll
      <3>3. saves BY <3>1 DEF Poll, Mishap
      <3>4. PICK n \in (cursor[1] + 1)..said :
              /\ cursor' = [cursor EXCEPT ![1] = n]
              /\ batch' = [batch EXCEPT ![1] = [i \in 1..(n - cursor[1]) |-> cursor[1] + i]]
              /\ stored' = [stored EXCEPT !.cursor = n]
        <4>1. Poll(1, saves) BY <3>1, <3>2
        <4>2. saves /\ 1 = newest BY <1>c, <3>3
        <4> QED BY <4>1, <4>2 DEF Poll, SavedCursor
      <3>5. starts' = starts BY <3>1 DEF Poll
      <3>6. /\ n \in Nat /\ cursor[1] \in Nat /\ cursor[1] < n /\ 1 \in Loops /\ n <= NumMsgs
            /\ NumMsgs \in Nat
        BY <1>a, <3>4, RelayAssumption DEF Loops
      <3>7. cursor'[1] = n /\ stored'.cursor = n BY <1>a, <3>4, <3>6
      <3>8. /\ DOMAIN batch'[1] = 1..(n - cursor[1])
            /\ \A i \in DOMAIN batch'[1] : batch'[1][i] = cursor[1] + i
        BY <1>a, <3>4, <3>6
      <3>9. \A i \in DOMAIN batch'[1] : batch'[1][i] \in Msgs /\ batch'[1][i] > cursor[1]
        BY <3>6, <3>8 DEF Msgs
      <3>10. \A m \in Msgs : starts[m] \in Nat /\ m \in Nat BY <1>a, RelayAssumption DEF Msgs
      <3>11. \A i \in DOMAIN batch'[1] : starts'[batch'[1][i]] = 0
        <4>1. TAKE i \in DOMAIN batch'[1]
        <4>2. batch'[1][i] \in Msgs /\ batch'[1][i] > cursor[1] BY <3>9
        <4>3. ~(starts[batch'[1][i]] > 0) BY <1>c, <3>6, <3>10, <4>2
        <4> QED BY <3>5, <3>10, <4>2, <4>3
      <3>12. \A m \in Msgs : starts'[m] <= 1 /\ (starts'[m] > 0 => m <= cursor'[1])
        BY <1>c, <3>5, <3>6, <3>7, <3>10
      <3> QED BY <3>7, <3>11, <3>12 DEF Goal
    <2>4. CASE Take(l)
      <3>1. l = 1 BY <2>2, <2>4 DEF Take
      <3>2. PICK m \in Msgs :
              /\ batch[1] # <<>> /\ m = Head(batch[1])
              /\ starts' = [starts EXCEPT ![m] = @ + 1] /\ batch' = [batch EXCEPT ![1] = Tail(@)]
              /\ UNCHANGED <<cursor, stored>>
        <4>1. Head(batch[l]) \in Msgs BY <1>a, <2>4 DEF Take
        <4> QED BY <2>4, <3>1, <4>1 DEF Take
      <3>3. batch[1] \in Seq(Msgs) /\ batch'[1] = Tail(batch[1]) BY <1>a, <3>2 DEF Loops
      <3>4. /\ m = batch[1][1] /\ 1 \in DOMAIN batch[1]
            /\ \A i \in DOMAIN batch'[1] :
                 /\ batch'[1][i] = batch[1][i + 1] /\ i + 1 \in DOMAIN batch[1] /\ i + 1 # 1
                 /\ batch[1][i + 1] \in Msgs
        <4>1. ASSUME NEW q \in Seq(Msgs), q # <<>>
              PROVE /\ Head(q) = q[1] /\ 1 \in DOMAIN q
                    /\ \A i \in DOMAIN Tail(q) :
                         /\ Tail(q)[i] = q[i + 1] /\ i + 1 \in DOMAIN q /\ i + 1 # 1
                         /\ q[i + 1] \in Msgs
          BY <4>1
        <4> QED BY <3>2, <3>3, <4>1
      <3>5. starts[m] = 0 /\ m <= cursor[1]
        <4>1. starts[batch[1][1]] = 0 BY <1>c, <3>4
        <4>2. batch[1][1] <= cursor[1] BY <1>0, <3>4 DEF LoopsInv, Loops
        <4> QED BY <3>4, <4>1, <4>2
      <3>6. starts'[m] = 1 /\ \A k \in Msgs : k # m => starts'[k] = starts[k]
        BY <1>a, <3>2, <3>5
      <3>7. \A i \in DOMAIN batch'[1] : starts'[batch'[1][i]] = 0
        <4>1. TAKE i \in DOMAIN batch'[1]
        <4>2. batch[1][i + 1] # m BY <1>0, <3>4 DEF LoopsInv, Loops
        <4> QED BY <1>c, <3>4, <3>6, <4>2
      <3>8. \A k \in Msgs : starts'[k] <= 1 /\ (starts'[k] > 0 => k <= cursor'[1])
        BY <1>c, <3>2, <3>5, <3>6
      <3> QED BY <1>c, <3>2, <3>7, <3>8 DEF Goal
    <2> QED BY <1>6, <2>1, <2>3, <2>4 DEF LoopStep
  <1>7. CASE Login
    BY <1>7 DEF Login, Mishap
  <1>8. CASE BridgeRestart
    <2>1. /\ UNCHANGED <<stored, starts>> /\ cursor' = [cursor EXCEPT ![newest] = stored.cursor]
          /\ batch'[1] = <<>>
      BY <1>8 DEF BridgeRestart, Loops
    <2>2. cursor' = cursor BY <1>a, <1>c, <2>1 DEF Loops
    <2> QED BY <1>c, <2>1, <2>2 DEF Goal
  <1> QED BY <1>2, <1>3, <1>4, <1>5, <1>6, <1>7, <1>8 DEF RelayNext, Goal

\* Every step keeps the invariant, stuttering included.
LEMMA RelayKept == RelayInv /\ [RelayNext]_relayVars => RelayInv'
  <1>1. RelayInv /\ RelayNext => RelayInv'
    BY DomainsKept, LoopsKept, AwaitedKept, ChatsKept, OverlapKept, QuietKept, StartsKept
    DEF RelayInv
  <1>2. RelayInv /\ UNCHANGED relayVars => RelayInv'
    <2> SUFFICES ASSUME RelayInv, UNCHANGED relayVars PROVE RelayInv' OBVIOUS
    <2>1. RelayDomains' BY DEF RelayInv, RelayDomains, relayVars
    <2>2. LoopsInv' BY DEF RelayInv, LoopsInv, relayVars
    <2>3. AwaitedInv' BY DEF RelayInv, AwaitedInv, relayVars
    <2>4. ChatsInv'
      BY DEF RelayInv, ChatsInv, HandlerOk, AnswerOk, RegisteredOk, InChat, relayVars
    <2>5. OverlapInv' BY DEF RelayInv, OverlapInv, NoOverlap, InChat, relayVars
    <2>6. QuietInv' BY DEF RelayInv, QuietInv, relayVars
    <2>7. StartedInv' BY DEF RelayInv, StartedInv, relayVars
    <2> QED BY <2>1, <2>2, <2>3, <2>4, <2>5, <2>6, <2>7 DEF RelayInv
  <1> QED BY <1>1, <1>2

\* A session has its chats one at a time and with the approvals they asked for: what the
\* invariant keeps says so, as long as the exceptions the property names have not occurred.
LEMMA RelayInvInOrder == RelayInv => RelayInOrder
  <1> SUFFICES ASSUME RelayInv PROVE RelayInOrder OBVIOUS
  <1>1. OneChatPerSession
    <2>1. odd \cap {"guard", "login"} = {} => NoOverlap
      BY DEF RelayInv, OverlapInv, QuietInv
    <2>2. \A s \in inflight : \E h \in Handlers : InChat(h) /\ inSession[h] = s
      BY DEF RelayInv, ChatsInv
    <2> QED BY <2>1, <2>2 DEF OneChatPerSession, NoOverlap
  <1>2. ApprovalsTracked
    <2>1. "overlap" \notin odd => NoOverlap BY DEF RelayInv, OverlapInv
    <2>2. \A s \in Sessions : pending[s] # None => pc[pending[s][1]] = "chat"
      BY DEF RelayInv, ChatsInv, RegisteredOk
    <2> QED BY <2>1, <2>2 DEF ApprovalsTracked, NoOverlap
  <1>3. HandledOnce BY DEF RelayInv, StartedInv, HandledOnce
  <1> QED BY <1>1, <1>2, <1>3 DEF RelayInOrder

\* RelayInOrder, for any number of messages, approvals and mishaps: until a handler has
\* outlived its guard or a second login has started a second loop, a session has one chat at
\* a time, though the check and the entry in inflightSessions are two awaits apart; a busy
\* session always has a chat that will release it; and until two chats of a session overlap,
\* what the server waits for is registered or its answer was lost, and what is registered is
\* of a chat that reads; and but for a failed save and a second login no message is handled
\* twice, restarts included.
THEOREM ChatsInTurn == RelaySpec => []RelayInOrder
  <1>1. RelaySpec => []RelayInv BY RelayInitially, RelayKept, PTL DEF RelaySpec
  <1> QED BY <1>1, RelayInvInOrder, PTL

\* What RelayDomains leaves out.
RelayRest ==
  /\ mishaps \in 0..MaxMishaps /\ unanswered \subseteq Requests
  /\ odd \subseteq {"guard", "login", "save", "restart", "answer", "overlap"}

\* Every step of the relay keeps the rest.
LEMMA RelayRestStep == RelayInv /\ RelayRest /\ [RelayNext]_relayVars => RelayRest'
  <1> SUFFICES ASSUME RelayInv, RelayRest, [RelayNext]_relayVars PROVE RelayRest' OBVIOUS
  <1>0. target \in [Handlers -> Requests] BY DEF RelayInv, RelayDomains
  <1>1. CASE UNCHANGED <<mishaps, unanswered, odd>> BY <1>1 DEF RelayRest
  <1>2. ASSUME NEW kind \in {"guard", "login", "save", "restart", "answer"}, Mishap(kind),
               unanswered' \subseteq Requests
        PROVE  RelayRest'
    BY <1>2, RelayAssumption DEF Mishap, RelayRest
  <1>3. ASSUME NEW l \in Loops, LoopStep(l) PROVE RelayRest'
    <2>1. ASSUME NEW saves \in BOOLEAN, Poll(l, saves) PROVE RelayRest'
      <3>1. UNCHANGED unanswered /\ (UNCHANGED <<mishaps, odd>> \/ Mishap("save"))
        BY <2>1 DEF Poll
      <3> QED BY <1>1, <1>2, <3>1 DEF RelayRest
    <2>2. CASE PollEnds(l) \/ Take(l) \/ BatchDone(l)
      BY <1>1, <2>2 DEF PollEnds, Take, BatchDone
    <2>3. CASE GuardExpires(l) BY <1>2, <2>3 DEF GuardExpires, RelayRest
    <2> QED BY <1>3, <2>1, <2>2, <2>3 DEF LoopStep
  <1>4. ASSUME NEW h \in Handlers, HandlerStep(h) PROVE RelayRest'
    <2>1. CASE Fetched(h) \/ NeedsSession(h) \/ SessionFails(h) \/ AnswerArrives(h)
               \/ AnswerReturns(h) \/ ReadAsk(h) \/ ChatEnds(h) \/ Flushed(h)
      BY <1>1, <2>1 DEF Fetched, NeedsSession, SessionFails, AnswerArrives, AnswerReturns, ReadAsk,
                        ChatEnds, Flushed, loopVars
    <2>2. CASE SessionCreated(h) BY <1>1, <2>2 DEF SessionCreated
    <2>3. CASE AnswerFails(h)
      <3>1. unanswered' = unanswered \cup {target[h]} /\ Mishap("answer") BY <2>3 DEF AnswerFails
      <3> QED BY <1>0, <1>2, <3>1 DEF RelayRest
    <2>4. CASE OpenChat(h)
      <3>1. UNCHANGED <<mishaps, unanswered>> /\ odd' \in {odd, odd \cup {"overlap"}}
        BY <2>4 DEF OpenChat, loopVars
      <3> QED BY <3>1 DEF RelayRest
    <2> QED BY <1>4, <2>1, <2>2, <2>3, <2>4 DEF HandlerStep
  <1>5. ASSUME NEW h \in Handlers, ServerStep(h) PROVE RelayRest'
    BY <1>1, <1>5 DEF ServerStep, ServerStarts, ServerAsks, ServerExpires, ServerEnds, loopVars
  <1>6. CASE UserSends \/ UNCHANGED relayVars BY <1>1, <1>6 DEF UserSends, relayVars
  <1>7. ASSUME NEW s \in Sessions, Expire(s) PROVE RelayRest' BY <1>1, <1>7 DEF Expire, loopVars
  <1>8. CASE Login BY <1>2, <1>8 DEF Login, RelayRest
  <1>9. CASE BridgeRestart BY <1>2, <1>9 DEF BridgeRestart, RelayRest
  <1> QED BY <1>3, <1>4, <1>5, <1>6, <1>7, <1>8, <1>9 DEF RelayNext

\* The relay's variables keep to their domains (RelayTypeOK): a batch has no message twice.
LEMMA RelayIsTyped == RelaySpec => []RelayTypeOK
  <1>1. RelayInit => RelayRest BY RelayAssumption DEF RelayInit, RelayRest
  <1>2. RelayInv /\ RelayRest => RelayTypeOK
    <2> SUFFICES ASSUME RelayInv, RelayRest PROVE RelayTypeOK OBVIOUS
    <2>0. RelayDomains /\ LoopsInv BY DEF RelayInv
    <2>1. ASSUME NEW l \in Loops PROVE Len(batch[l]) <= NumMsgs
      <3> DEFINE b == batch[l]
      <3>1. b \in Seq(Msgs) BY <2>0 DEF RelayDomains
      <3>2. \A i, j \in DOMAIN b : b[i] = b[j] => i = j BY <2>0 DEF LoopsInv
      <3> HIDE DEF b
      <3>3. Len(b) \in Nat /\ DOMAIN b = 1..Len(b) /\ b \in [1..Len(b) -> Msgs] BY <3>1
      <3>4. b \in Injection(1..Len(b), Msgs) BY <3>2, <3>3 DEF Injection, IsInjective
      <3>5. IsFiniteSet(Msgs) /\ Cardinality(Msgs) = NumMsgs
        BY RelayAssumption, FS_Interval DEF Msgs
      <3>6. Cardinality(1..Len(b)) = Len(b) BY <3>3, FS_Interval
      <3>7. Cardinality(1..Len(b)) <= Cardinality(Msgs) BY <3>4, <3>5, FS_Injection
      <3>8. Len(b) <= NumMsgs BY <3>5, <3>6, <3>7
      <3> QED BY <3>8 DEF b
    <2> QED BY <2>0, <2>1 DEF RelayDomains, RelayRest, RelayTypeOK
  <1> QED BY <1>1, <1>2, RelayInitially, RelayKept, RelayRestStep, PTL DEF RelaySpec

(***************************************************************************)
(* What the bridge sends, through its gate: one at a time, nobody          *)
(* forgotten, and each caller told what became of it.                      *)
(***************************************************************************)
\* The sends, the gate and its books keep to their domains.
GateDomains ==
  /\ sending \in [Sends -> {"new", "url", "upload", "queued", "inFlight", "over"}]
  /\ answered \in [Sends -> {"nothing", "ok", "error"}]
  /\ gateLine \in Seq(Sends) /\ entered \in Seq(Sends) /\ arrived \in Seq(Sends)

\* How many have been through the gate.
Through == Len(entered) - Len(gateLine)

\* Who waits is the end of what has entered, once each, and what is in flight is the first.
LineInv ==
  /\ Through \in Nat
  /\ \A i \in DOMAIN gateLine : gateLine[i] = entered[Through + i]
  /\ \A i, j \in DOMAIN entered : entered[i] = entered[j] => i = j
  /\ \A i \in 1..Through : sending[entered[i]] = "over"
  /\ \A i \in DOMAIN gateLine : sending[gateLine[i]] \in {"queued", "inFlight"}
  /\ \A s \in Sends : sending[s] \in {"queued", "inFlight"} =>
       \E i \in DOMAIN gateLine : gateLine[i] = s
  /\ \A s \in Sends : sending[s] = "inFlight" => gateLine[1] = s

\* What has arrived was through the gate, in this order.
ArrivalsInv ==
  \E place \in [DOMAIN arrived -> 1..Through] :
    /\ \A i \in DOMAIN arrived : arrived[i] = entered[place[i]]
    /\ \A i, j \in DOMAIN arrived : i < j => place[i] < place[j]

\* What the callers were told.
TellsInv ==
  \A s \in Sends :
    /\ sending[s] # "over" => answered[s] = "nothing"
    /\ answered[s] = "ok" => \E i \in DOMAIN arrived : arrived[i] = s
    /\ answered[s] = "error" /\ (\E i \in DOMAIN arrived : arrived[i] = s) => s \in lostAnswers

OutInv == GateDomains /\ LineInv /\ ArrivalsInv /\ TellsInv

\* Whoever has entered the gate is queued, in flight or over.
LEMMA EnteredHasMoved ==
  ASSUME OutInv, NEW i \in DOMAIN entered
  PROVE  entered[i] \in Sends /\ sending[entered[i]] \in {"queued", "inFlight", "over"}
  <1>1. /\ entered \in Seq(Sends) /\ gateLine \in Seq(Sends) /\ Through \in Nat
        /\ \A k \in 1..Through : sending[entered[k]] = "over"
        /\ \A k \in DOMAIN gateLine :
             gateLine[k] = entered[Through + k] /\ sending[gateLine[k]] \in {"queued", "inFlight"}
    BY DEF OutInv, GateDomains, LineInv
  <1>2. Len(entered) \in Nat /\ Len(gateLine) \in Nat /\ DOMAIN entered = 1..Len(entered)
        /\ DOMAIN gateLine = 1..Len(gateLine) /\ Through = Len(entered) - Len(gateLine)
    BY <1>1 DEF Through
  <1>3. entered[i] \in Sends BY <1>1
  <1>4. CASE i <= Through BY <1>1, <1>2, <1>3, <1>4
  <1>5. CASE i > Through
    <2>1. PICK k \in DOMAIN gateLine : i = Through + k
      <3>1. i - Through \in 1..Len(gateLine) /\ Through + (i - Through) = i
        BY <1>1, <1>2, <1>5
      <3> QED BY <1>2, <3>1
    <2> QED BY <1>1, <1>3, <2>1
  <1> QED BY <1>1, <1>2, <1>4, <1>5

\* Before the gate a send goes from one stage to the next, or is over with an error.
LEMMA BeforeTheGate ==
  ASSUME OutInv, NEW s \in Sends, sending[s] \in {"new", "url", "upload"},
         NEW next \in {"url", "upload", "over"}, sending' = [sending EXCEPT ![s] = next],
         answered' = IF next = "over" THEN [answered EXCEPT ![s] = "error"] ELSE answered,
         UNCHANGED <<gateLine, entered, arrived, lostAnswers>>
  PROVE  OutInv'
  <1>0. GateDomains /\ LineInv /\ ArrivalsInv /\ TellsInv BY DEF OutInv
  <1>1. \A i \in DOMAIN entered : entered[i] # s BY EnteredHasMoved
  <1>2. /\ sending'[s] = next /\ \A t \in Sends \ {s} : sending'[t] = sending[t]
        /\ sending' \in [Sends -> {"new", "url", "upload", "queued", "inFlight", "over"}]
        /\ answered' \in [Sends -> {"nothing", "ok", "error"}]
        /\ \A t \in Sends \ {s} : answered'[t] = answered[t]
        /\ next = "over" => answered'[s] = "error"
        /\ next # "over" => answered'[s] = answered[s]
    BY <1>0 DEF GateDomains
  <1>3. Through' = Through BY DEF Through
  <1>4. \A i \in DOMAIN entered : entered[i] \in Sends \ {s} BY <1>0, <1>1 DEF GateDomains
  <1>5. \A i \in DOMAIN arrived : arrived[i] # s
    <2>1. PICK place \in [DOMAIN arrived -> 1..Through] :
            \A i \in DOMAIN arrived : arrived[i] = entered[place[i]]
      BY <1>0 DEF ArrivalsInv
    <2>2. 1..Through \subseteq DOMAIN entered BY <1>0 DEF Through, LineInv, GateDomains
    <2> QED BY <1>1, <2>1, <2>2
  <1>6. GateDomains' BY <1>0, <1>2 DEF GateDomains
  <1>7. LineInv'
    <2>1. \A i \in DOMAIN gateLine : gateLine[i] \in Sends \ {s}
      BY <1>0 DEF LineInv, GateDomains
    <2>2. 1..Through \subseteq DOMAIN entered BY <1>0 DEF Through, LineInv, GateDomains
    <2>3. \A i \in 1..Through : sending'[entered[i]] = "over"
      BY <1>0, <1>2, <1>4, <2>2 DEF LineInv
    <2>4. \A i \in DOMAIN gateLine : sending'[gateLine[i]] \in {"queued", "inFlight"}
      BY <1>0, <1>2, <2>1 DEF LineInv
    <2>5. \A t \in Sends : sending'[t] \in {"queued", "inFlight"} => t # s BY <1>2
    <2> QED BY <1>0, <1>2, <1>3, <2>3, <2>4, <2>5 DEF LineInv
  <1>8. ArrivalsInv' BY <1>0, <1>3 DEF ArrivalsInv
  <1>9. TellsInv'
    <2>1. answered[s] = "nothing" BY <1>0 DEF TellsInv
    <2> QED BY <1>0, <1>2, <1>5, <2>1 DEF TellsInv
  <1> QED BY <1>6, <1>7, <1>8, <1>9 DEF OutInv

\* A sender takes the end of the line.
LEMMA EnteringKeeps ==
  ASSUME OutInv, NEW s \in Sends, sending[s] \in {"new", "upload"}, Enters(s),
         UNCHANGED <<arrived, lostAnswers>>
  PROVE  OutInv'
  <1>0. GateDomains /\ LineInv /\ ArrivalsInv /\ TellsInv BY DEF OutInv
  <1>1. /\ sending' = [sending EXCEPT ![s] = "queued"]
        /\ gateLine' = Append(gateLine, s) /\ entered' = Append(entered, s) /\ answered' = answered
    BY DEF Enters
  <1>2. /\ sending'[s] = "queued" /\ \A t \in Sends \ {s} : sending'[t] = sending[t]
        /\ sending' \in [Sends -> {"new", "url", "upload", "queued", "inFlight", "over"}]
    BY <1>0, <1>1 DEF GateDomains
  <1>3. \A i \in DOMAIN entered : entered[i] \in Sends \ {s} BY EnteredHasMoved
  <1>4. PICK n \in Nat, m \in Nat :
          /\ n = Len(entered) /\ m = Len(gateLine) /\ DOMAIN entered = 1..n
          /\ DOMAIN gateLine = 1..m /\ Through = n - m /\ m <= n
    BY <1>0 DEF GateDomains, LineInv, Through
  <1>5. /\ gateLine' \in Seq(Sends) /\ entered' \in Seq(Sends)
        /\ Len(entered') = n + 1 /\ Len(gateLine') = m + 1
        /\ DOMAIN entered' = 1..(n + 1) /\ DOMAIN gateLine' = 1..(m + 1)
        /\ entered'[n + 1] = s /\ gateLine'[m + 1] = s
        /\ \A i \in 1..n : entered'[i] = entered[i]
        /\ \A i \in 1..m : gateLine'[i] = gateLine[i]
    BY <1>0, <1>1, <1>4 DEF GateDomains
  <1>6. Through' = Through BY <1>4, <1>5 DEF Through
  <1>7. GateDomains' BY <1>0, <1>1, <1>2, <1>5 DEF GateDomains
  <1>8. LineInv'
    <2>1. \A i \in 1..(n + 1) : i \in 1..n \/ i = n + 1 BY <1>4
    <2>2. \A i \in 1..(m + 1) : i \in 1..m \/ i = m + 1 BY <1>4
    <2>3. \A i \in DOMAIN gateLine' : gateLine'[i] = entered'[Through' + i]
      <3>1. \A i \in 1..m : gateLine[i] = entered[Through + i] BY <1>0, <1>4 DEF LineInv
      <3>2. \A i \in 1..m : Through + i \in 1..n BY <1>4
      <3>3. Through + (m + 1) = n + 1 BY <1>4
      <3>4. \A i \in 1..m : gateLine'[i] = entered'[Through + i] BY <1>5, <3>1, <3>2
      <3>5. gateLine'[m + 1] = entered'[Through + (m + 1)] BY <1>5, <3>3
      <3> QED BY <1>5, <1>6, <2>2, <3>4, <3>5
    <2>4. \A i, j \in DOMAIN entered' : entered'[i] = entered'[j] => i = j
      BY <1>0, <1>3, <1>4, <1>5, <2>1 DEF LineInv
    <2>5. \A i \in 1..Through' : sending'[entered'[i]] = "over"
      <3> SUFFICES ASSUME NEW i \in 1..Through PROVE sending'[entered'[i]] = "over"
        BY <1>6
      <3>1. i \in 1..n BY <1>4
      <3>2. entered'[i] \in Sends \ {s} /\ sending[entered'[i]] = "over"
        BY <1>0, <1>3, <1>4, <1>5, <3>1 DEF LineInv
      <3> QED BY <1>2, <3>2
    <2>6. \A i \in 1..m : gateLine[i] \in Sends \ {s}
      <3>1. \A i \in 1..m : Through + i \in DOMAIN entered BY <1>4
      <3>2. \A i \in 1..m : gateLine[i] = entered[Through + i] BY <1>0, <1>4 DEF LineInv
      <3> QED BY <1>3, <3>1, <3>2
    <2>7. \A i \in DOMAIN gateLine' : sending'[gateLine'[i]] \in {"queued", "inFlight"}
      BY <1>0, <1>2, <1>4, <1>5, <2>2, <2>6 DEF LineInv
    <2>8. \A t \in Sends : sending'[t] \in {"queued", "inFlight"} =>
            \E i \in DOMAIN gateLine' : gateLine'[i] = t
      <3> SUFFICES ASSUME NEW t \in Sends, sending'[t] \in {"queued", "inFlight"}
                   PROVE  \E i \in DOMAIN gateLine' : gateLine'[i] = t
        OBVIOUS
      <3>1. CASE t = s BY <1>4, <1>5, <3>1
      <3>2. CASE t # s
        <4>1. PICK i \in 1..m : gateLine[i] = t BY <1>0, <1>2, <1>4, <3>2 DEF LineInv
        <4>2. i \in 1..(m + 1) BY <1>4
        <4> QED BY <1>5, <4>1, <4>2
      <3> QED BY <3>1, <3>2
    <2>9. \A t \in Sends : sending'[t] = "inFlight" => gateLine'[1] = t
      <3> SUFFICES ASSUME NEW t \in Sends, sending'[t] = "inFlight" PROVE gateLine'[1] = t
        OBVIOUS
      <3>1. sending[t] = "inFlight" /\ t # s BY <1>2
      <3>2. gateLine[1] = t /\ \E i \in 1..m : gateLine[i] = t
        BY <1>0, <1>4, <3>1 DEF LineInv
      <3>3. 1 \in 1..m BY <1>4, <3>2
      <3> QED BY <1>5, <3>2, <3>3
    <2> QED BY <1>0, <1>6, <2>3, <2>4, <2>5, <2>7, <2>8, <2>9 DEF LineInv
  <1>9. ArrivalsInv'
    <2>1. PICK place \in [DOMAIN arrived -> 1..Through] :
            /\ \A i \in DOMAIN arrived : arrived[i] = entered[place[i]]
            /\ \A i, j \in DOMAIN arrived : i < j => place[i] < place[j]
      BY <1>0 DEF ArrivalsInv
    <2>2. 1..Through \subseteq 1..n BY <1>4
    <2>3. \A i \in DOMAIN arrived : place[i] \in 1..n BY <2>1, <2>2
    <2>4. \A i \in DOMAIN arrived : arrived[i] = entered'[place[i]] BY <1>5, <2>1, <2>3
    <2> QED BY <1>6, <2>1, <2>4 DEF ArrivalsInv
  <1>10. TellsInv' BY <1>0, <1>1, <1>2 DEF TellsInv
  <1> QED BY <1>7, <1>8, <1>9, <1>10 DEF OutInv

\* The first of the line goes out.
LEMMA GoingKeeps ==
  ASSUME OutInv, NEW s \in Sends, GoesOut(s)
  PROVE  OutInv'
  <1>0. GateDomains /\ LineInv /\ ArrivalsInv /\ TellsInv BY DEF OutInv
  <1>1. /\ sending[s] = "queued" /\ Head(gateLine) = s
        /\ sending' = [sending EXCEPT ![s] = "inFlight"]
        /\ UNCHANGED <<gateLine, entered, answered, arrived, lostAnswers>>
    BY DEF GoesOut, HasTheGate, gateVars, outHistory
  <1>2. /\ sending'[s] = "inFlight" /\ \A t \in Sends \ {s} : sending'[t] = sending[t]
        /\ sending' \in [Sends -> {"new", "url", "upload", "queued", "inFlight", "over"}]
    BY <1>0, <1>1 DEF GateDomains
  <1>3. Through' = Through BY <1>1 DEF Through
  <1>4. gateLine[1] = s /\ 1 \in DOMAIN gateLine
    <2>1. PICK i \in DOMAIN gateLine : gateLine[i] = s BY <1>0, <1>1 DEF LineInv
    <2> QED BY <1>0, <1>1, <2>1 DEF GateDomains
  <1>5. GateDomains' BY <1>0, <1>1, <1>2 DEF GateDomains
  <1>6. LineInv'
    <2>1. \A i \in 1..Through : entered[i] \in Sends /\ entered[i] # s
      BY <1>0, <1>1 DEF LineInv, GateDomains, Through
    <2>2. \A i \in DOMAIN gateLine : gateLine[i] \in Sends BY <1>0 DEF GateDomains
    <2>3. \A t \in Sends : sending[t] # "inFlight"
      BY <1>0, <1>1, <1>4 DEF LineInv
    <2>4. \A i \in 1..Through : sending'[entered[i]] = "over" BY <1>0, <1>2, <2>1 DEF LineInv
    <2>5. \A i \in DOMAIN gateLine : sending'[gateLine[i]] \in {"queued", "inFlight"}
      BY <1>0, <1>2, <2>2 DEF LineInv
    <2>6. \A t \in Sends : sending'[t] \in {"queued", "inFlight"} =>
                             sending[t] \in {"queued", "inFlight"}
      BY <1>1, <1>2
    <2>7. \A t \in Sends : sending'[t] = "inFlight" => gateLine[1] = t
      BY <1>2, <1>4, <2>3
    <2> QED BY <1>0, <1>1, <1>3, <2>4, <2>5, <2>6, <2>7 DEF LineInv
  <1>7. ArrivalsInv' BY <1>0, <1>1, <1>3 DEF ArrivalsInv
  <1>8. TellsInv' BY <1>0, <1>1, <1>2 DEF TellsInv
  <1> QED BY <1>5, <1>6, <1>7, <1>8 DEF OutInv

\* It returns, however it went, and the next one is first.
LEMMA ReturningKeeps ==
  ASSUME OutInv, NEW s \in Sends, NEW took \in BOOLEAN, NEW known \in BOOLEAN,
         SendReturns(s, took, known)
  PROVE  OutInv'
  <1>0. GateDomains /\ LineInv /\ ArrivalsInv /\ TellsInv BY DEF OutInv
  <1>1. /\ sending[s] = "inFlight" /\ sending' = [sending EXCEPT ![s] = "over"]
        /\ answered' = [answered EXCEPT ![s] = IF took /\ known THEN "ok" ELSE "error"]
        /\ gateLine' = Tail(gateLine) /\ entered' = entered
        /\ arrived' = IF took THEN Append(arrived, s) ELSE arrived
        /\ lostAnswers' = IF took /\ ~known THEN lostAnswers \cup {s} ELSE lostAnswers
    BY DEF SendReturns, OverWith, GivesBack
  <1>2. /\ sending'[s] = "over" /\ \A t \in Sends \ {s} : sending'[t] = sending[t]
        /\ sending' \in [Sends -> {"new", "url", "upload", "queued", "inFlight", "over"}]
        /\ answered'[s] = (IF took /\ known THEN "ok" ELSE "error")
        /\ \A t \in Sends \ {s} : answered'[t] = answered[t]
        /\ answered' \in [Sends -> {"nothing", "ok", "error"}]
    BY <1>0, <1>1 DEF GateDomains
  <1>3. gateLine[1] = s /\ 1 \in DOMAIN gateLine
    <2>1. PICK i \in DOMAIN gateLine : gateLine[i] = s BY <1>0, <1>1 DEF LineInv
    <2> QED BY <1>0, <1>1, <2>1 DEF GateDomains, LineInv
  <1>4. PICK n \in Nat, m \in Nat :
          /\ n = Len(entered) /\ m = Len(gateLine) /\ DOMAIN entered = 1..n
          /\ DOMAIN gateLine = 1..m /\ Through = n - m /\ m <= n /\ m >= 1
    BY <1>0, <1>3 DEF GateDomains, LineInv, Through
  <1>5. /\ gateLine' \in Seq(Sends) /\ Len(gateLine') = m - 1 /\ DOMAIN gateLine' = 1..(m - 1)
        /\ \A i \in 1..(m - 1) : gateLine'[i] = gateLine[i + 1]
    BY <1>0, <1>1, <1>4 DEF GateDomains
  <1>6. Through' = Through + 1 /\ Through' \in 1..n BY <1>1, <1>4, <1>5 DEF Through
  <1>7. entered[Through + 1] = s BY <1>0, <1>3 DEF LineInv
  <1>8. GateDomains'
    <2>1. arrived' \in Seq(Sends) BY <1>0, <1>1 DEF GateDomains
    <2> QED BY <1>0, <1>1, <1>2, <1>5, <2>1 DEF GateDomains
  <1>9. LineInv'
    <2>1. \A i \in 1..(m - 1) : i + 1 \in 1..m /\ i + 1 # 1 BY <1>4
    <2>2. \A i \in DOMAIN gateLine' : gateLine'[i] = entered'[Through' + i]
      <3> SUFFICES ASSUME NEW i \in 1..(m - 1) PROVE gateLine'[i] = entered[Through' + i]
        BY <1>1, <1>5
      <3>1. Through + (i + 1) = Through' + i BY <1>4, <1>6
      <3>2. i + 1 \in DOMAIN gateLine BY <1>4, <2>1
      <3>3. gateLine[i + 1] = entered[Through + (i + 1)] BY <1>0, <3>2 DEF LineInv
      <3> QED BY <1>5, <3>1, <3>3
    <2>3. \A i \in 1..Through' : sending'[entered'[i]] = "over"
      <3> SUFFICES ASSUME NEW i \in 1..Through' PROVE sending'[entered[i]] = "over"
        BY <1>1
      <3>1. CASE i = Through + 1 BY <1>2, <1>7, <3>1
      <3>2. CASE i # Through + 1
        <4>1. i \in 1..Through /\ i \in 1..n BY <1>4, <1>6, <3>2
        <4>2. entered[i] \in Sends /\ sending[entered[i]] = "over"
          BY <1>0, <1>4, <4>1 DEF LineInv, GateDomains
        <4> QED BY <1>1, <1>2, <4>2
      <3> QED BY <3>1, <3>2
    <2>4. \A i \in DOMAIN gateLine' : gateLine'[i] \in Sends \ {s}
      <3> SUFFICES ASSUME NEW i \in 1..(m - 1) PROVE gateLine[i + 1] \in Sends \ {s}
        BY <1>5
      <3>1. i + 1 \in DOMAIN gateLine /\ 1 \in DOMAIN gateLine /\ i + 1 # 1 BY <1>3, <1>4, <2>1
      <3>2. /\ gateLine[i + 1] = entered[Through + (i + 1)] /\ gateLine[1] = entered[Through + 1]
            /\ gateLine[i + 1] \in Sends
        BY <1>0, <3>1 DEF LineInv, GateDomains
      <3>3. /\ Through + (i + 1) \in DOMAIN entered /\ Through + 1 \in DOMAIN entered
            /\ Through + (i + 1) # Through + 1
        BY <1>4
      <3> QED BY <1>0, <1>3, <3>2, <3>3 DEF LineInv
    <2>5. \A i \in DOMAIN gateLine' : sending'[gateLine'[i]] \in {"queued", "inFlight"}
      <3> SUFFICES ASSUME NEW i \in 1..(m - 1)
                   PROVE  sending'[gateLine'[i]] \in {"queued", "inFlight"}
        BY <1>5
      <3>1. i + 1 \in DOMAIN gateLine /\ gateLine'[i] = gateLine[i + 1] BY <1>4, <1>5, <2>1
      <3>2. sending[gateLine'[i]] \in {"queued", "inFlight"} BY <1>0, <3>1 DEF LineInv
      <3> QED BY <1>2, <1>5, <2>4, <3>2
    <2>6. \A t \in Sends : sending'[t] \in {"queued", "inFlight"} =>
            \E i \in DOMAIN gateLine' : gateLine'[i] = t
      <3> SUFFICES ASSUME NEW t \in Sends, sending'[t] \in {"queued", "inFlight"}
                   PROVE  \E i \in DOMAIN gateLine' : gateLine'[i] = t
        OBVIOUS
      <3>1. t # s /\ sending[t] \in {"queued", "inFlight"} BY <1>2
      <3>2. PICK i \in 1..m : gateLine[i] = t BY <1>0, <1>4, <3>1 DEF LineInv
      <3>3. i # 1 BY <1>3, <3>1, <3>2
      <3>4. i - 1 \in 1..(m - 1) /\ (i - 1) + 1 = i BY <1>4, <3>3
      <3> QED BY <1>5, <3>2, <3>4
    <2>7. \A t \in Sends : sending'[t] # "inFlight"
      BY <1>0, <1>2, <1>3 DEF LineInv
    <2> QED BY <1>0, <1>1, <1>4, <1>6, <2>2, <2>3, <2>5, <2>6, <2>7 DEF LineInv
  <1>10. arrived \in Seq(Sends) /\ Len(arrived) \in Nat /\ DOMAIN arrived = 1..Len(arrived)
    BY <1>0 DEF GateDomains
  <1>11. PICK place \in [DOMAIN arrived -> 1..Through] :
           /\ \A i \in DOMAIN arrived : arrived[i] = entered[place[i]]
           /\ \A i, j \in DOMAIN arrived : i < j => place[i] < place[j]
    BY <1>0 DEF ArrivalsInv
  <1>12. ArrivalsInv'
    <2>1. CASE ~took
      <3>1. arrived' = arrived /\ place \in [DOMAIN arrived -> 1..Through']
        BY <1>1, <1>4, <1>6, <1>11, <2>1
      <3> QED BY <1>1, <1>11, <3>1 DEF ArrivalsInv
    <2>2. CASE took
      <3> DEFINE k == Len(arrived)
                 p == [i \in 1..(k + 1) |-> IF i = k + 1 THEN Through + 1 ELSE place[i]]
      <3>1. /\ arrived' = Append(arrived, s) /\ DOMAIN arrived' = 1..(k + 1)
            /\ arrived'[k + 1] = s /\ \A i \in 1..k : arrived'[i] = arrived[i]
        BY <1>1, <1>10, <2>2
      <3>2. p \in [DOMAIN arrived' -> 1..Through']
        <4>1. \A i \in 1..(k + 1) : p[i] \in 1..Through' BY <1>4, <1>6, <1>10, <1>11
        <4> QED BY <3>1, <4>1
      <3>3. p[k + 1] = Through + 1 /\ \A i \in 1..k : p[i] = place[i] /\ place[i] \in 1..Through
        BY <1>10, <1>11
      <3> HIDE DEF p
      <3>4. \A i \in 1..(k + 1) : i \in 1..k \/ i = k + 1 BY <1>10
      <3>5. \A i \in DOMAIN arrived' : arrived'[i] = entered'[p[i]]
        BY <1>1, <1>7, <1>10, <1>11, <3>1, <3>3, <3>4
      <3>6. \A i, j \in DOMAIN arrived' : i < j => p[i] < p[j]
        BY <1>4, <1>10, <1>11, <3>1, <3>3, <3>4
      <3> QED BY <3>2, <3>5, <3>6 DEF ArrivalsInv
    <2> QED BY <2>1, <2>2
  <1>13. TellsInv'
    <2>1. \A i \in DOMAIN arrived : arrived[i] # s
      <3>1. 1..Through \subseteq DOMAIN entered /\ Through + 1 \notin 1..Through
            /\ Through + 1 \in DOMAIN entered
        BY <1>4
      <3> QED BY <1>0, <1>7, <1>11, <3>1 DEF LineInv
    <2>2. \A t \in Sends : (\E i \in DOMAIN arrived' : arrived'[i] = t)
                             <=> (\E i \in DOMAIN arrived : arrived[i] = t) \/ (took /\ t = s)
      <3>1. CASE ~took BY <1>1, <3>1
      <3>2. CASE took
        <4> DEFINE k == Len(arrived)
        <4>1. /\ DOMAIN arrived' = 1..(k + 1)
              /\ arrived'[k + 1] = s /\ \A i \in 1..k : arrived'[i] = arrived[i]
          BY <1>1, <1>10, <3>2
        <4>2. \A i : i \in 1..(k + 1) <=> i \in 1..k \/ i = k + 1 BY <1>10
        <4> QED BY <1>10, <3>2, <4>1, <4>2
      <3> QED BY <3>1, <3>2
    <2> SUFFICES ASSUME NEW t \in Sends
                 PROVE  /\ sending'[t] # "over" => answered'[t] = "nothing"
                        /\ answered'[t] = "ok" => \E i \in DOMAIN arrived' : arrived'[i] = t
                        /\ answered'[t] = "error" /\ (\E i \in DOMAIN arrived' : arrived'[i] = t)
                             => t \in lostAnswers'
      BY DEF TellsInv
    <2>3. CASE t = s
      BY <1>1, <1>2, <2>1, <2>2, <2>3
    <2>4. CASE t # s
      <3>1. /\ sending[t] # "over" => answered[t] = "nothing"
            /\ answered[t] = "ok" => \E i \in DOMAIN arrived : arrived[i] = t
            /\ answered[t] = "error" /\ (\E i \in DOMAIN arrived : arrived[i] = t)
                 => t \in lostAnswers
        BY <1>0 DEF TellsInv
      <3>2. lostAnswers \subseteq lostAnswers' BY <1>1
      <3> QED BY <1>2, <2>2, <2>4, <3>1, <3>2
    <2> QED BY <2>3, <2>4
  <1> QED BY <1>8, <1>9, <1>12, <1>13 DEF OutInv

\* What touches none of this keeps it.
LEMMA BooksStand ==
  ASSUME OutInv, UNCHANGED <<sending, answered, gateLine, entered, arrived, lostAnswers>>
  PROVE  OutInv'
  <1>0. GateDomains /\ LineInv /\ ArrivalsInv /\ TellsInv BY DEF OutInv
  <1>1. Through' = Through BY DEF Through
  <1>2. GateDomains' BY <1>0 DEF GateDomains
  <1>3. LineInv' BY <1>0, <1>1 DEF LineInv
  <1>4. ArrivalsInv' BY <1>0, <1>1 DEF ArrivalsInv
  <1>5. TellsInv' BY <1>0 DEF TellsInv
  <1> QED BY <1>2, <1>3, <1>4, <1>5 DEF OutInv

\* Every step of the bridge's sending keeps the invariant.
LEMMA OutStep == OutInv /\ [OutNext]_outVars => OutInv'
  <1> SUFFICES ASSUME OutInv, [OutNext]_outVars PROVE OutInv' OBVIOUS
  <1>1. CASE UNCHANGED outVars \/ GapPasses
    <2>1. UNCHANGED <<sending, answered, gateLine, entered, arrived, lostAnswers>>
      BY <1>1 DEF outVars, GapPasses, outHistory
    <2> QED BY <2>1, BooksStand
  <1>2. ASSUME NEW s \in Sends, SendRefused(s) \/ UrlFails(s) PROVE OutInv'
    <2>1. /\ sending[s] \in {"new", "url"} /\ sending' = [sending EXCEPT ![s] = "over"]
          /\ answered' = [answered EXCEPT ![s] = "error"]
          /\ UNCHANGED <<gateLine, entered, arrived, lostAnswers>>
      BY <1>2 DEF SendRefused, UrlFails, OverWith, gateVars, outHistory
    <2> QED BY <2>1, BeforeTheGate
  <1>3. ASSUME NEW s \in Sends, MediumAsked(s) PROVE OutInv'
    <2>1. /\ sending[s] = "new" /\ sending' = [sending EXCEPT ![s] = "url"]
          /\ UNCHANGED <<answered, gateLine, entered, arrived, lostAnswers>>
      BY <1>3 DEF MediumAsked, gateVars, outHistory
    <2> QED BY <2>1, BeforeTheGate
  <1>4. ASSUME NEW s \in Sends, UrlGiven(s) PROVE OutInv'
    <2>1. /\ sending[s] = "url" /\ sending' = [sending EXCEPT ![s] = "upload"]
          /\ UNCHANGED <<answered, gateLine, entered, arrived, lostAnswers>>
      BY <1>4 DEF UrlGiven, gateVars, outHistory
    <2> QED BY <2>1, BeforeTheGate
  <1>5. ASSUME NEW s \in Sends, NEW refused \in BOOLEAN, UploadFails(s, refused) PROVE OutInv'
    <2>1. sending[s] = "upload" /\ UNCHANGED <<gateLine, entered, arrived, lostAnswers>>
      BY <1>5 DEF UploadFails, gateVars, outHistory
    <2>2. CASE /\ sending' = [sending EXCEPT ![s] = "over"]
               /\ answered' = [answered EXCEPT ![s] = "error"]
      BY <2>1, <2>2, BeforeTheGate
    <2>3. CASE UNCHANGED <<sending, answered>>
      BY <2>1, <2>3, BooksStand
    <2> QED BY <1>5, <2>2, <2>3 DEF UploadFails, OverWith
  <1>6. ASSUME NEW s \in Sends, TextAsked(s) \/ Uploads(s) PROVE OutInv'
    <2>1. sending[s] \in {"new", "upload"} /\ Enters(s) /\ UNCHANGED <<arrived, lostAnswers>>
      BY <1>6 DEF TextAsked, Uploads, outHistory
    <2> QED BY <2>1, EnteringKeeps
  <1> QED BY <1>1, <1>2, <1>3, <1>4, <1>5, <1>6, GoingKeeps, ReturningKeeps DEF OutNext

\* Nothing was asked for, and nothing sent.
LEMMA OutInitially == OutInit => OutInv
  <1> SUFFICES ASSUME OutInit PROVE OutInv OBVIOUS
  <1> USE DEF OutInit
  <1>1. <<>> \in Seq(Sends) /\ Len(<<>>) = 0 /\ DOMAIN <<>> = {} OBVIOUS
  <1>2. Through = 0 BY <1>1 DEF Through
  <1>3. GateDomains BY <1>1 DEF GateDomains
  <1>4. LineInv BY <1>1, <1>2 DEF LineInv
  <1>5. ArrivalsInv
    <2> DEFINE p == [i \in {} |-> 1]
    <2>1. p \in [DOMAIN arrived -> 1..Through] BY <1>1
    <2> HIDE DEF p
    <2> QED BY <1>1, <2>1 DEF ArrivalsInv
  <1>6. TellsInv BY DEF TellsInv
  <1> QED BY <1>3, <1>4, <1>5, <1>6 DEF OutInv

\* For any number of sends, media among them: one is in flight at a time, whoever is first
\* can go, also after sends that failed; what arrives does so once and in the order of the
\* gate, and its sender is told, but for lost answers (send-gate.ts: run).
THEOREM SendsArrive == OutSpec => []SendsAreKept
  <1>1. OutInv => SendsAreKept
    <2> SUFFICES ASSUME OutInv PROVE SendsAreKept OBVIOUS
    <2>0. GateDomains /\ LineInv /\ ArrivalsInv /\ TellsInv BY DEF OutInv
    <2>1. \A i, j \in DOMAIN gateLine : gateLine[i] = gateLine[j] => i = j
      <3> SUFFICES ASSUME NEW i \in DOMAIN gateLine, NEW j \in DOMAIN gateLine,
                          gateLine[i] = gateLine[j]
                   PROVE  i = j
        OBVIOUS
      <3>1. /\ Through + i \in DOMAIN entered /\ Through + j \in DOMAIN entered
            /\ i \in Nat /\ j \in Nat /\ Through \in Nat
        BY <2>0 DEF GateDomains, LineInv, Through
      <3>2. entered[Through + i] = entered[Through + j] BY <2>0 DEF LineInv
      <3>3. Through + i = Through + j BY <2>0, <3>1, <3>2 DEF LineInv
      <3> QED BY <3>1, <3>3
    <2>2. Cardinality({s \in Sends : sending[s] = "inFlight"}) <= 1
      <3> DEFINE F == {s \in Sends : sending[s] = "inFlight"}
      <3>1. \A s, t \in F : s = t BY <2>0 DEF LineInv
      <3> HIDE DEF F
      <3>2. CASE F = {} BY <3>2, FS_EmptySet DEF F
      <3>3. CASE F # {}
        <4>1. PICK s \in F : TRUE BY <3>3
        <4>2. F = {s} BY <3>1, <4>1
        <4>3. Cardinality({s}) = 1 BY FS_Singleton
        <4>4. Cardinality(F) <= 1 BY <4>2, <4>3
        <4> QED BY <4>4 DEF F
      <3> QED BY <3>2, <3>3
    <2>3. ToSet(gateLine) = {s \in Sends : sending[s] \in {"queued", "inFlight"}}
      BY <2>0 DEF ToSet, LineInv, GateDomains
    <2>4. \A s \in Sends : sending[s] = "inFlight" => Head(gateLine) = s
      <3> SUFFICES ASSUME NEW s \in Sends, sending[s] = "inFlight" PROVE Head(gateLine) = s
        OBVIOUS
      <3>1. gateLine[1] = s /\ gateLine # <<>> BY <2>0 DEF LineInv
      <3> QED BY <2>0, <3>1 DEF GateDomains
    <2>5. GateIsServed BY <2>1, <2>2, <2>3, <2>4 DEF GateIsServed
    <2>6. PICK place \in [DOMAIN arrived -> 1..Through] :
            /\ \A i \in DOMAIN arrived : arrived[i] = entered[place[i]]
            /\ \A i, j \in DOMAIN arrived : i < j => place[i] < place[j]
      BY <2>0 DEF ArrivalsInv
    <2>7. 1..Through \subseteq DOMAIN entered /\ \A i \in 1..Through : i \in Nat
      BY <2>0 DEF LineInv, GateDomains, Through
    <2>8. ToSet(arrived) \subseteq ToSet(entered) BY <2>6, <2>7 DEF ToSet
    <2>9. ASSUME NEW i \in DOMAIN arrived, NEW j \in DOMAIN arrived, i < j
          PROVE  /\ arrived[i] # arrived[j]
                 /\ \E a, b \in DOMAIN entered :
                      a < b /\ entered[a] = arrived[i] /\ entered[b] = arrived[j]
      <3>1. /\ place[i] \in DOMAIN entered /\ place[j] \in DOMAIN entered /\ place[i] < place[j]
            /\ entered[place[i]] = arrived[i] /\ entered[place[j]] = arrived[j]
        BY <2>6, <2>7, <2>9
      <3>2. place[i] # place[j] BY <2>6, <2>7, <3>1
      <3> QED BY <2>0, <3>1, <3>2 DEF LineInv
    <2>10. ArrivesAsTold BY <2>0, <2>8, <2>9 DEF ArrivesAsTold, TellsInv, ToSet
    <2> QED BY <2>5, <2>10 DEF SendsAreKept
  <1> QED BY <1>1, OutInitially, OutStep, PTL DEF OutSpec

\* What GateDomains leaves out: who still uploads has an attempt left.
OutRest ==
  /\ uploadsTried \in [Sends -> 0..UploadTries]
  /\ \A s \in Sends : sending[s] \in {"new", "url", "upload"} => uploadsTried[s] < UploadTries
  /\ rested \in BOOLEAN /\ lostAnswers \subseteq Sends

\* The variables of what is sent keep to their domains (OutTypeOK).
LEMMA SendsAreTyped == OutSpec => []OutTypeOK
  <1>1. OutInit => OutRest BY OutgoingAssumption DEF OutInit, OutRest
  <1>2. OutInv /\ OutRest /\ [OutNext]_outVars => OutRest'
    <2> SUFFICES ASSUME OutInv, OutRest, [OutNext]_outVars PROVE OutRest' OBVIOUS
    <2>0. sending \in [Sends -> {"new", "url", "upload", "queued", "inFlight", "over"}]
      BY DEF OutInv, GateDomains
    <2>1. ASSUME NEW s \in Sends, NEW to,
                 sending' = [sending EXCEPT ![s] = to], uploadsTried' = uploadsTried,
                 to \in {"url", "upload"} => sending[s] \in {"new", "url"}, to # "new",
                 rested' \in BOOLEAN, lostAnswers' \subseteq Sends
          PROVE  OutRest'
      <3>1. \A t \in Sends : sending'[t] \in {"new", "url", "upload"} =>
                               sending[t] \in {"new", "url", "upload"}
        BY <2>0, <2>1
      <3> QED BY <2>1, <3>1 DEF OutRest
    <2>2. CASE UNCHANGED outVars \/ GapPasses
      BY <2>2 DEF outVars, GapPasses, outHistory, OutRest
    <2>3. ASSUME NEW s \in Sends, SendRefused(s) \/ TextAsked(s) \/ MediumAsked(s) \/ UrlGiven(s)
                                  \/ UrlFails(s) \/ Uploads(s) \/ GoesOut(s)
          PROVE  OutRest'
      BY <2>1, <2>3 DEF SendRefused, TextAsked, MediumAsked, UrlGiven, UrlFails, Uploads, GoesOut,
                        OverWith, Enters, gateVars, outHistory, OutRest
    <2>4. ASSUME NEW s \in Sends, NEW refused \in BOOLEAN, UploadFails(s, refused) PROVE OutRest'
      <3>1. /\ sending[s] = "upload" /\ uploadsTried' = [uploadsTried EXCEPT ![s] = @ + 1]
            /\ UNCHANGED <<rested, lostAnswers>>
            /\ \/ sending' = [sending EXCEPT ![s] = "over"]
               \/ sending' = sending /\ uploadsTried'[s] # UploadTries
        BY <2>4 DEF UploadFails, OverWith, gateVars, outHistory
      <3>2. uploadsTried[s] \in 0..UploadTries /\ uploadsTried[s] < UploadTries
        BY <3>1 DEF OutRest
      <3>3. /\ uploadsTried'[s] = uploadsTried[s] + 1 /\ uploadsTried'[s] \in 0..UploadTries
            /\ \A t \in Sends \ {s} : uploadsTried'[t] = uploadsTried[t]
        BY <3>1, <3>2, OutgoingAssumption DEF OutRest
      <3>4. uploadsTried' \in [Sends -> 0..UploadTries]
        BY <3>1, <3>3 DEF OutRest
      <3>5. \A t \in Sends : sending'[t] \in {"new", "url", "upload"} =>
                               uploadsTried'[t] < UploadTries
        <4> TAKE t \in Sends
        <4>1. CASE t = s
          <5>1. sending'[s] = "over" \/ uploadsTried'[s] # UploadTries BY <2>0, <3>1
          <5> QED BY <3>3, <4>1, <5>1, OutgoingAssumption
        <4>2. CASE t # s
          <5>1. sending'[t] = sending[t] BY <2>0, <3>1, <4>2
          <5> QED BY <3>3, <4>2, <5>1 DEF OutRest
        <4> QED BY <4>1, <4>2
      <3> QED BY <3>1, <3>4, <3>5 DEF OutRest
    <2>5. ASSUME NEW s \in Sends, NEW took \in BOOLEAN, NEW told0 \in BOOLEAN,
                 SendReturns(s, took, told0)
          PROVE  OutRest'
      <3>1. /\ sending' = [sending EXCEPT ![s] = "over"] /\ uploadsTried' = uploadsTried
            /\ rested' = FALSE /\ lostAnswers' \subseteq lostAnswers \cup {s}
        BY <2>5 DEF SendReturns, OverWith
      <3> QED BY <2>1, <3>1 DEF OutRest
    <2> QED BY <2>2, <2>3, <2>4, <2>5 DEF OutNext
  <1>3. OutInv /\ OutRest => OutTypeOK BY DEF OutInv, GateDomains, OutRest, OutTypeOK
  <1> QED BY <1>1, <1>2, <1>3, OutInitially, OutStep, PTL DEF OutSpec

(***************************************************************************)
(* A reply comes to the user whole: nothing twice, nothing missing.        *)
(***************************************************************************)
\* The texts keep to their domains, and each token of the reply has its place in it.
ReplyDomains ==
  /\ text \in Seq(Tokens) /\ buffer \in Seq(Tokens) /\ rest \in Seq(Tokens) /\ got \in Seq(Tokens)
  /\ \A p \in DOMAIN text : text[p].at = p

\* A text that is found in another one, behind the first n tokens.
PartAt(s, n, of) == n + Len(s) <= Len(of) /\ \A i \in DOMAIN s : s[i] = of[n + i]

\* The user has the first n tokens of the reply, but for gaps, in order and once.
SentUpTo(n) ==
  /\ n \in 0..Len(text)
  /\ \A i, j \in DOMAIN got : i < j => got[i].at < got[j].at
  /\ \A i \in DOMAIN got : got[i].at \in 1..n /\ got[i] = text[got[i].at]
  /\ SentAllOf(1..n)

\* Where the reply is: what is not sent is in the buffer, or in the rest with gaps behind it.
ReplyStands ==
  /\ stage \in {"reading", "cutting"} =>
       /\ SentUpTo(preflushed)
       /\ preflushed + Len(buffer) = Len(text) /\ PartAt(buffer, preflushed, text)
  /\ stage = "sending" =>
       \E n \in 0..Len(text) :
         /\ SentUpTo(n) /\ PartAt(rest, n, text)
         /\ cutShort \/ \A p \in (n + Len(rest) + 1)..Len(text) : text[p].kind = "gap"
  /\ stage = "over" => \E n \in 0..Len(text) : SentUpTo(n) /\ (cutShort \/ n = Len(text))
  /\ stage \in {"reading", "cutting", "sending", "over"}

ReplyInv == ReplyDomains /\ ReplyStands

\* Some places of a text have a first and a last one.
LEMMA FirstAndLast ==
  ASSUME NEW n \in Nat, NEW S, S \subseteq 1..n, S # {}
  PROVE  /\ Min(S) \in S /\ Max(S) \in S
         /\ \A i \in S : Min(S) <= i /\ i <= Max(S)
  <1>1. \E x \in S : \A y \in S : x =< y
    <2>1. PICK x \in S : \A y \in S : ~(<<y, x>> \in OpToRel(<, Nat))
      <3>1. S \subseteq Nat OBVIOUS
      <3> QED BY <3>1, NatLessThanWellFounded, WFMin
    <2>2. \A y \in S : y \in Nat OBVIOUS
    <2>3. \A y \in S : ~(y < x) BY <2>1, <2>2 DEF OpToRel
    <2> QED BY <2>2, <2>3
  <1>2. \E x \in S : \A y \in S : x >= y
    <2> DEFINE T == {n - x : x \in S}
    <2>1. PICK t \in T : \A y \in T : ~(<<y, t>> \in OpToRel(<, Nat))
      <3>1. \A x \in S : n - x \in Nat OBVIOUS
      <3>2. T \subseteq Nat /\ T # {} BY <3>1
      <3> HIDE DEF T
      <3> QED BY <3>2, NatLessThanWellFounded, WFMin
    <2>2. T \subseteq Nat OBVIOUS
    <2>3. \A y \in T : ~(y < t) BY <2>1, <2>2 DEF OpToRel
    <2>4. PICK x \in S : t = n - x OBVIOUS
    <2>5. \A y \in S : ~(n - y < n - x) BY <2>3, <2>4
    <2>6. \A y \in S : x >= y BY <2>5
    <2> QED BY <2>6
  <1>3. Min(S) \in S /\ \A y \in S : Min(S) =< y BY <1>1 DEF Min
  <1>4. Max(S) \in S /\ \A y \in S : Max(S) >= y BY <1>2 DEF Max
  <1> QED BY <1>3, <1>4

\* What is cut out of a text is a part of it.
LEMMA CutIsPart ==
  ASSUME NEW s \in Seq(Tokens), NEW a \in Nat, NEW b \in Nat, a <= b, b <= Len(s)
  PROVE  /\ SubSeq(s, a + 1, b) \in Seq(Tokens)
         /\ Len(SubSeq(s, a + 1, b)) = b - a
         /\ PartAt(SubSeq(s, a + 1, b), a, s)
  <1>1. Len(s) \in Nat /\ DOMAIN s = 1..Len(s) /\ \A i \in 1..Len(s) : s[i] \in Tokens OBVIOUS
  <1>2. \A i \in (a + 1)..b : s[i] \in Tokens BY <1>1
  <1>3. /\ SubSeq(s, a + 1, b) \in Seq(Tokens)
        /\ Len(SubSeq(s, a + 1, b)) = IF a + 1 <= b THEN b - (a + 1) + 1 ELSE 0
        /\ \A i \in 1..(b - (a + 1) + 1) : SubSeq(s, a + 1, b)[i] = s[a + 1 + i - 1]
    BY <1>2, SubSeqProperties
  <1>4. Len(SubSeq(s, a + 1, b)) = b - a BY <1>3
  <1>5. DOMAIN SubSeq(s, a + 1, b) = 1..(b - a) BY <1>3, <1>4
  <1>6. \A i \in 1..(b - a) : i \in 1..(b - (a + 1) + 1) /\ a + 1 + i - 1 = a + i OBVIOUS
  <1>7. \A i \in 1..(b - a) : SubSeq(s, a + 1, b)[i] = s[a + i] BY <1>3, <1>6
  <1>8. a + (b - a) <= Len(s) BY <1>1
  <1> QED BY <1>3, <1>4, <1>5, <1>7, <1>8 DEF PartAt

\* What is left of a text is a part of it.
LEMMA RestIsPart ==
  ASSUME NEW s \in Seq(Tokens), NEW a \in Nat, a <= Len(s)
  PROVE  /\ SubSeq(s, a + 1, Len(s)) \in Seq(Tokens)
         /\ a + Len(SubSeq(s, a + 1, Len(s))) = Len(s)
         /\ PartAt(SubSeq(s, a + 1, Len(s)), a, s)
  <1>1. PICK n \in Nat : n = Len(s) OBVIOUS
  <1>2. n <= Len(s) BY <1>1
  <1>3. /\ SubSeq(s, a + 1, n) \in Seq(Tokens) /\ Len(SubSeq(s, a + 1, n)) = n - a
        /\ PartAt(SubSeq(s, a + 1, n), a, s)
    BY <1>1, <1>2, CutIsPart
  <1>4. a + (n - a) = n OBVIOUS
  <1> QED BY <1>1, <1>3, <1>4

\* A part of a part.
LEMMA PartOfPart ==
  ASSUME NEW s \in Seq(Tokens), NEW p \in Seq(Tokens), NEW q \in Seq(Tokens),
         NEW a \in Nat, NEW b \in Nat, PartAt(p, a, s), PartAt(q, b, p)
  PROVE  PartAt(q, a + b, s)
  <1>1. /\ Len(s) \in Nat /\ Len(p) \in Nat /\ Len(q) \in Nat
        /\ DOMAIN p = 1..Len(p) /\ DOMAIN q = 1..Len(q)
    OBVIOUS
  <1>2. a + Len(p) <= Len(s) /\ \A i \in 1..Len(p) : p[i] = s[a + i] BY <1>1 DEF PartAt
  <1>3. b + Len(q) <= Len(p) /\ \A i \in 1..Len(q) : q[i] = p[b + i] BY <1>1 DEF PartAt
  <1>4. \A i \in 1..Len(q) : b + i \in 1..Len(p) /\ a + (b + i) = a + b + i BY <1>1, <1>3
  <1>5. \A i \in 1..Len(q) : q[i] = s[a + b + i] BY <1>2, <1>3, <1>4
  <1>6. a + b + Len(q) <= Len(s) BY <1>1, <1>2, <1>3
  <1> QED BY <1>1, <1>5, <1>6 DEF PartAt

\* What is trimmed off is gaps.
LEMMA TrimIs ==
  ASSUME NEW s \in Seq(Tokens)
  PROVE  /\ Trim(s) \in Seq(Tokens)
         /\ \E a \in Nat :
              /\ PartAt(Trim(s), a, s)
              /\ \A i \in DOMAIN s : i <= a \/ i > a + Len(Trim(s)) => s[i].kind = "gap"
  <1> DEFINE shown == {i \in 1..Len(s) : s[i].kind # "gap"}
  <1>1. Len(s) \in Nat /\ DOMAIN s = 1..Len(s) OBVIOUS
  <1>2. CASE shown = {}
    <2>1. Trim(s) = <<>> BY <1>2 DEF Trim
    <2>2. \A i \in DOMAIN s : s[i].kind = "gap" BY <1>1, <1>2
    <2>3. <<>> \in Seq(Tokens) /\ Len(<<>>) = 0 /\ DOMAIN <<>> = {} OBVIOUS
    <2>4. PartAt(Trim(s), 0, s) BY <1>1, <2>1, <2>3 DEF PartAt
    <2> QED BY <2>1, <2>2, <2>3, <2>4
  <1>3. CASE shown # {}
    <2>1. shown \subseteq 1..Len(s) OBVIOUS
    <2>2. \A i \in DOMAIN s : s[i].kind # "gap" => i \in shown BY <1>1
    <2>3. Trim(s) = SubSeq(s, Min(shown), Max(shown)) BY <1>3 DEF Trim
    <2> HIDE DEF shown
    <2>4. /\ Min(shown) \in shown /\ Max(shown) \in shown
          /\ \A i \in shown : Min(shown) <= i /\ i <= Max(shown)
      BY <1>1, <1>3, <2>1, FirstAndLast
    <2>5. PICK a \in Nat, b \in Nat : a + 1 = Min(shown) /\ b = Max(shown) /\ a <= b /\ b <= Len(s)
      <3>1. /\ Min(shown) \in 1..Len(s) /\ Max(shown) \in 1..Len(s) /\ Min(shown) <= Max(shown)
        BY <2>1, <2>4
      <3>2. Min(shown) - 1 \in Nat /\ Max(shown) \in Nat /\ Min(shown) - 1 + 1 = Min(shown)
            /\ Min(shown) - 1 <= Max(shown) /\ Max(shown) <= Len(s)
        BY <1>1, <3>1
      <3> QED BY <3>2
    <2>6. Trim(s) = SubSeq(s, a + 1, b) BY <2>3, <2>5
    <2>7. Trim(s) \in Seq(Tokens) /\ Len(Trim(s)) = b - a /\ PartAt(Trim(s), a, s)
      BY <2>5, <2>6, CutIsPart
    <2>8. \A i \in DOMAIN s : i <= a \/ i > a + Len(Trim(s)) => i \notin shown
      BY <1>1, <2>4, <2>5, <2>7
    <2> QED BY <2>2, <2>7, <2>8
  <1> QED BY <1>2, <1>3

\* What is trimmed off the start is gaps.
LEMMA TrimStartIs ==
  ASSUME NEW s \in Seq(Tokens)
  PROVE  /\ TrimStart(s) \in Seq(Tokens)
         /\ \E a \in Nat :
              /\ PartAt(TrimStart(s), a, s) /\ a + Len(TrimStart(s)) = Len(s)
              /\ \A i \in DOMAIN s : i <= a => s[i].kind = "gap"
  <1> DEFINE shown == {i \in 1..Len(s) : s[i].kind # "gap"}
  <1>1. Len(s) \in Nat /\ DOMAIN s = 1..Len(s) OBVIOUS
  <1>2. CASE shown = {}
    <2>1. TrimStart(s) = <<>> BY <1>2 DEF TrimStart
    <2>2. \A i \in DOMAIN s : s[i].kind = "gap" BY <1>1, <1>2
    <2>3. <<>> \in Seq(Tokens) /\ Len(<<>>) = 0 /\ DOMAIN <<>> = {} OBVIOUS
    <2>4. PartAt(TrimStart(s), Len(s), s) BY <1>1, <2>1, <2>3 DEF PartAt
    <2>5. Len(s) + Len(TrimStart(s)) = Len(s) BY <1>1, <2>1, <2>3
    <2> QED BY <1>1, <2>1, <2>2, <2>3, <2>4, <2>5
  <1>3. CASE shown # {}
    <2>1. shown \subseteq 1..Len(s) OBVIOUS
    <2>2. \A i \in DOMAIN s : s[i].kind # "gap" => i \in shown BY <1>1
    <2>3. TrimStart(s) = SubSeq(s, Min(shown), Len(s)) BY <1>3 DEF TrimStart
    <2> HIDE DEF shown
    <2>4. Min(shown) \in shown /\ \A i \in shown : Min(shown) <= i
      BY <1>1, <1>3, <2>1, FirstAndLast
    <2>5. PICK a \in Nat : a + 1 = Min(shown) /\ a <= Len(s)
      <3>1. Min(shown) \in 1..Len(s) BY <2>1, <2>4
      <3>2. Min(shown) - 1 \in Nat /\ Min(shown) - 1 + 1 = Min(shown) /\ Min(shown) - 1 <= Len(s)
        BY <1>1, <3>1
      <3> QED BY <3>2
    <2>6. TrimStart(s) = SubSeq(s, a + 1, Len(s)) BY <2>3, <2>5
    <2>7. /\ TrimStart(s) \in Seq(Tokens) /\ a + Len(TrimStart(s)) = Len(s)
          /\ PartAt(TrimStart(s), a, s)
      BY <2>5, <2>6, RestIsPart
    <2>8. \A i \in DOMAIN s : i <= a => i \notin shown BY <1>1, <2>4, <2>5
    <2> QED BY <2>2, <2>7, <2>8
  <1> QED BY <1>2, <1>3

\* The start of a buffer, trimmed, is a part of the buffer with gaps around it.
LEMMA TrimmedStart ==
  ASSUME NEW b \in Seq(Tokens), NEW c \in Nat, c <= Len(b)
  PROVE  /\ Trim(SubSeq(b, 1, c)) \in Seq(Tokens)
         /\ \E a \in Nat :
              /\ PartAt(Trim(SubSeq(b, 1, c)), a, b) /\ a + Len(Trim(SubSeq(b, 1, c))) <= c
              /\ \A i \in 1..c : i <= a \/ i > a + Len(Trim(SubSeq(b, 1, c))) => b[i].kind = "gap"
  <1> DEFINE p == SubSeq(b, 1, c)
  <1>1. p \in Seq(Tokens) /\ Len(p) = c /\ PartAt(p, 0, b)
    <2>1. 0 + 1 = 1 /\ c - 0 = c OBVIOUS
    <2> QED BY <2>1, CutIsPart
  <1> HIDE DEF p
  <1>2. Trim(p) \in Seq(Tokens) BY <1>1, TrimIs
  <1>3. PICK a \in Nat :
          /\ PartAt(Trim(p), a, p)
          /\ \A i \in DOMAIN p : i <= a \/ i > a + Len(Trim(p)) => p[i].kind = "gap"
    BY <1>1, TrimIs
  <1>4. DOMAIN p = 1..c /\ \A i \in 1..c : p[i] = b[i]
    <2>1. DOMAIN p = 1..c BY <1>1
    <2>2. \A i \in DOMAIN p : p[i] = b[0 + i] BY <1>1 DEF PartAt
    <2> QED BY <2>1, <2>2
  <1>5. PartAt(Trim(p), a, b)
    <2>1. PartAt(Trim(p), 0 + a, b) BY <1>1, <1>2, <1>3, PartOfPart
    <2> QED BY <2>1
  <1>6. a + Len(Trim(p)) <= c BY <1>1, <1>3 DEF PartAt
  <1>7. \A i \in 1..c : i <= a \/ i > a + Len(Trim(p)) => b[i].kind = "gap" BY <1>3, <1>4
  <1> QED BY <1>2, <1>5, <1>6, <1>7 DEF p

\* An early segment: what goes, what stays, and only gaps between and before.
SegmentCuts(seg, b, a, m) ==
  /\ PartAt(seg.send, a, b) /\ a + Len(seg.send) <= m
  /\ PartAt(seg.keep, m, b) /\ m + Len(seg.keep) = Len(b)
  /\ \A i \in 1..m : i <= a \/ i > a + Len(seg.send) => b[i].kind = "gap"

\* takeEarlySegment loses nothing but gaps.
LEMMA SegmentIs ==
  ASSUME NEW b \in Seq(Tokens)
  PROVE  /\ TakeEarlySegment(b).send \in Seq(Tokens) /\ TakeEarlySegment(b).keep \in Seq(Tokens)
         /\ \E a \in Nat, m \in Nat : SegmentCuts(TakeEarlySegment(b), b, a, m)
  <1>1. Len(b) \in Nat /\ DOMAIN b = 1..Len(b) OBVIOUS
  <1>2. ASSUME NEW c \in 1..Len(b), NEW seg,
               seg = [send |-> Trim(SubSeq(b, 1, c)), keep |-> SubSeq(b, c + 1, Len(b))]
        PROVE  /\ seg.send \in Seq(Tokens) /\ seg.keep \in Seq(Tokens)
               /\ \E a \in Nat, m \in Nat : SegmentCuts(seg, b, a, m)
    <2>1. c \in Nat /\ c <= Len(b) BY <1>1
    <2>2. PICK a \in Nat :
            /\ PartAt(seg.send, a, b) /\ a + Len(seg.send) <= c
            /\ \A i \in 1..c : i <= a \/ i > a + Len(seg.send) => b[i].kind = "gap"
      BY <1>2, <2>1, TrimmedStart
    <2>3. seg.keep \in Seq(Tokens) /\ c + Len(seg.keep) = Len(b) /\ PartAt(seg.keep, c, b)
      BY <1>2, <2>1, RestIsPart
    <2>5. seg.send \in Seq(Tokens) BY <1>2, <2>1, TrimmedStart
    <2> QED BY <2>1, <2>2, <2>3, <2>5 DEF SegmentCuts
  <1>3. CASE ParagraphCuts(b) # {}
    <2> DEFINE c == Max(ParagraphCuts(b))
    <2>1. ParagraphCuts(b) \subseteq 1..Len(b) BY DEF ParagraphCuts
    <2>2. c \in 1..Len(b) /\ b[c].kind = "gap"
      <3>1. c \in ParagraphCuts(b) BY <1>1, <1>3, <2>1, FirstAndLast
      <3> QED BY <3>1 DEF ParagraphCuts
    <2>3. TakeEarlySegment(b)
            = [send |-> Trim(SubSeq(b, 1, c - 1)), keep |-> SubSeq(b, c + 1, Len(b))]
      BY <1>3 DEF TakeEarlySegment
    <2> HIDE DEF c
    <2> DEFINE seg == [send |-> Trim(SubSeq(b, 1, c - 1)), keep |-> SubSeq(b, c + 1, Len(b))]
    <2>4. c \in Nat /\ c <= Len(b) /\ c - 1 \in Nat /\ c - 1 <= Len(b) BY <1>1, <2>2
    <2>5. PICK a \in Nat :
            /\ PartAt(seg.send, a, b) /\ a + Len(seg.send) <= c - 1
            /\ \A i \in 1..(c - 1) : i <= a \/ i > a + Len(seg.send) => b[i].kind = "gap"
      BY <2>4, TrimmedStart
    <2>6. seg.keep \in Seq(Tokens) /\ c + Len(seg.keep) = Len(b) /\ PartAt(seg.keep, c, b)
      BY <2>4, RestIsPart
    <2>7. seg.send \in Seq(Tokens) BY <2>4, TrimmedStart
    <2> HIDE DEF seg
    <2>8. c + Len(seg.keep) = Len(b) /\ a + Len(seg.send) <= c
      <3>1. Len(seg.send) \in Nat BY <2>7
      <3>2. a + Len(seg.send) <= c - 1 BY <2>5 DEF seg
      <3> QED BY <2>4, <2>6, <3>1, <3>2
    <2>9. \A i \in 1..c : i <= a \/ i > a + Len(seg.send) => b[i].kind = "gap"
      <3>1. \A i \in 1..c : i \in 1..(c - 1) \/ i = c BY <2>4
      <3> QED BY <2>2, <2>5, <3>1
    <2>10. SegmentCuts(seg, b, a, c) BY <2>5, <2>6, <2>8, <2>9 DEF SegmentCuts
    <2>11. TakeEarlySegment(b) = seg BY <2>3 DEF seg
    <2> QED BY <2>4, <2>6, <2>7, <2>10, <2>11
  <1>4. CASE ParagraphCuts(b) = {} /\ ~sentFirst /\ SentenceCuts(b) # {}
    <2> DEFINE c == Min(SentenceCuts(b))
    <2>1. SentenceCuts(b) \subseteq 1..Len(b) BY <1>1, ReplyAssumption DEF SentenceCuts
    <2>2. c \in 1..Len(b)
      <3>1. c \in SentenceCuts(b) BY <1>1, <1>4, <2>1, FirstAndLast
      <3> QED BY <2>1, <3>1
    <2>3. TakeEarlySegment(b)
            = [send |-> Trim(SubSeq(b, 1, c)), keep |-> SubSeq(b, c + 1, Len(b))]
      BY <1>4 DEF TakeEarlySegment
    <2> QED BY <1>2, <2>2, <2>3
  <1>5. CASE ParagraphCuts(b) = {} /\ (sentFirst \/ SentenceCuts(b) = {}) /\ Len(b) >= FlushAt
    <2>1. PICK c \in 1..Len(b) : c = LongCut(b)
      <3> DEFINE w(kind) == {i \in SegmentMin..Min({Len(b), FlushAt}) : b[i].kind = kind}
      <3>1. FlushAt \in 1..Len(b) /\ SegmentMin \in 1..Len(b)
        BY <1>1, <1>5, ReplyAssumption
      <3>2. Min({Len(b), FlushAt}) \in 1..Len(b)
        <4>1. Len(b) \in 1..Len(b) BY <1>1, <3>1
        <4>2. {Len(b), FlushAt} \subseteq 1..Len(b) /\ {Len(b), FlushAt} # {} BY <3>1, <4>1
        <4>3. Min({Len(b), FlushAt}) \in {Len(b), FlushAt} BY <1>1, <4>2, FirstAndLast
        <4> QED BY <4>2, <4>3
      <3>3. \A kind \in Kinds : w(kind) \subseteq 1..Len(b)
        <4>1. SegmentMin..Min({Len(b), FlushAt}) \subseteq 1..Len(b) BY <1>1, <3>1, <3>2
        <4> QED BY <4>1
      <3>4. \A kind \in Kinds : w(kind) # {} => Max(w(kind)) \in 1..Len(b)
        <4> SUFFICES ASSUME NEW kind \in Kinds, w(kind) # {} PROVE Max(w(kind)) \in 1..Len(b)
          OBVIOUS
        <4>1. w(kind) \subseteq 1..Len(b) BY <3>3
        <4> HIDE DEF w
        <4>2. Max(w(kind)) \in w(kind) BY <1>1, <4>1, FirstAndLast
        <4> QED BY <4>1, <4>2
      <3>5. LongCut(b) = IF w("stop") # {} THEN Max(w("stop"))
                         ELSE IF w("colon") # {} THEN Max(w("colon")) ELSE FlushAt
        BY DEF LongCut
      <3> HIDE DEF w
      <3> QED BY <3>1, <3>4, <3>5 DEF Kinds
    <2> DEFINE k == SubSeq(b, c + 1, Len(b))
               seg == [send |-> Trim(SubSeq(b, 1, c)), keep |-> TrimStart(k)]
    <2>2. TakeEarlySegment(b) = seg
      <3>1. ~(ParagraphCuts(b) # {}) /\ ~(~sentFirst /\ SentenceCuts(b) # {}) BY <1>5
      <3> QED BY <1>5, <2>1, <3>1 DEF TakeEarlySegment
    <2>3. c \in Nat /\ c <= Len(b) BY <1>1, <2>1
    <2>4. PICK a \in Nat :
            /\ PartAt(seg.send, a, b) /\ a + Len(seg.send) <= c
            /\ \A i \in 1..c : i <= a \/ i > a + Len(seg.send) => b[i].kind = "gap"
      BY <2>3, TrimmedStart
    <2>5. k \in Seq(Tokens) /\ c + Len(k) = Len(b) /\ PartAt(k, c, b)
      BY <2>3, RestIsPart
    <2> HIDE DEF k
    <2>6. seg.keep \in Seq(Tokens) /\ seg.send \in Seq(Tokens)
      BY <2>3, <2>5, TrimmedStart, TrimStartIs
    <2>7. PICK d \in Nat :
            /\ PartAt(seg.keep, d, k) /\ d + Len(seg.keep) = Len(k)
            /\ \A i \in DOMAIN k : i <= d => k[i].kind = "gap"
      BY <2>5, TrimStartIs
    <2> HIDE DEF seg
    <2>8. PartAt(seg.keep, c + d, b) BY <2>3, <2>5, <2>6, <2>7, PartOfPart
    <2>9. /\ Len(seg.send) \in Nat /\ Len(seg.keep) \in Nat /\ Len(k) \in Nat
          /\ DOMAIN k = 1..Len(k)
      BY <2>5, <2>6
    <2>10. c + d + Len(seg.keep) = Len(b) /\ a + Len(seg.send) <= c + d /\ c + d \in Nat
      <3>1. c + Len(k) = Len(b) BY <2>5
      <3>2. d + Len(seg.keep) = Len(k) BY <2>7 DEF seg
      <3>3. a + Len(seg.send) <= c BY <2>4 DEF seg
      <3>4. PICK x \in Nat, y \in Nat, z \in Nat :
              x = Len(k) /\ y = Len(seg.keep) /\ z = Len(seg.send)
        BY <2>9
      <3>5. c + x = Len(b) /\ d + y = x /\ a + z <= c BY <3>1, <3>2, <3>3, <3>4
      <3>6. c \in Nat /\ Len(b) \in Nat BY <1>1, <2>3
      <3>7. c + d + y = Len(b) BY <3>5, <3>6
      <3>8. a + z <= c + d BY <3>5, <3>6
      <3>9. c + d \in Nat BY <3>6
      <3> QED BY <3>4, <3>7, <3>8, <3>9
    <2>11. \A i \in 1..(c + d) : i <= a \/ i > a + Len(seg.send) => b[i].kind = "gap"
      <3> SUFFICES ASSUME NEW i \in 1..(c + d), i <= a \/ i > a + Len(seg.send)
                   PROVE  b[i].kind = "gap"
        OBVIOUS
      <3>1. CASE i <= c BY <2>3, <2>4, <3>1
      <3>2. CASE i > c
        <4>1. i - c \in 1..Len(k) /\ i - c <= d /\ c + (i - c) = i
          BY <2>3, <2>7, <2>9, <3>2 DEF seg
        <4>2. k[i - c].kind = "gap" BY <2>7, <2>9, <4>1
        <4>3. k[i - c] = b[c + (i - c)] BY <2>5, <2>9, <4>1 DEF PartAt
        <4> QED BY <4>1, <4>2, <4>3
      <3> QED BY <2>3, <3>1, <3>2
    <2>12. SegmentCuts(seg, b, a, c + d) BY <2>4, <2>8, <2>10, <2>11 DEF SegmentCuts
    <2> QED BY <2>2, <2>6, <2>10, <2>12
  <1>6. CASE /\ ParagraphCuts(b) = {} /\ (sentFirst \/ SentenceCuts(b) = {})
             /\ ~(Len(b) >= FlushAt)
    <2> DEFINE seg == [send |-> <<>>, keep |-> b]
    <2>1. TakeEarlySegment(b) = seg
      <3>1. ~(ParagraphCuts(b) # {}) /\ ~(~sentFirst /\ SentenceCuts(b) # {}) BY <1>6
      <3> QED BY <1>6, <3>1 DEF TakeEarlySegment
    <2>2. <<>> \in Seq(Tokens) /\ Len(<<>>) = 0 /\ DOMAIN <<>> = {} OBVIOUS
    <2>3. PartAt(<<>>, 0, b) BY <1>1, <2>2 DEF PartAt
    <2>4. PartAt(b, 0, b) BY <1>1 DEF PartAt
    <2>5. SegmentCuts(seg, b, 0, 0) BY <1>1, <2>2, <2>3, <2>4 DEF SegmentCuts
    <2> QED BY <2>1, <2>2, <2>5
  <1> QED BY <1>3, <1>4, <1>5, <1>6

\* A piece of the rest is not empty.
LEMMA PieceEndIs ==
  ASSUME NEW s \in Seq(Tokens), s # <<>>
  PROVE  PieceEnd(s) \in 1..Len(s)
  <1> DEFINE gaps == {i \in 1..Min({PieceMax, Len(s) - 1}) : s[i + 1].kind = "gap"}
  <1>1. Len(s) \in Nat /\ Len(s) >= 1 BY EmptySeq
  <1>2. CASE Len(s) <= PieceMax
    <2>1. PieceEnd(s) = Len(s) BY <1>2 DEF PieceEnd
    <2> QED BY <1>1, <2>1
  <1>3. CASE ~(Len(s) <= PieceMax)
    <2>1. PieceMax \in 1..Len(s) /\ Len(s) - 1 \in 1..Len(s) BY <1>1, <1>3, ReplyAssumption
    <2>2. Min({PieceMax, Len(s) - 1}) \in 1..Len(s)
      <3>1. {PieceMax, Len(s) - 1} \subseteq 1..Len(s) /\ {PieceMax, Len(s) - 1} # {} BY <2>1
      <3>2. Min({PieceMax, Len(s) - 1}) \in {PieceMax, Len(s) - 1}
        BY <1>1, <3>1, FirstAndLast
      <3> QED BY <3>1, <3>2
    <2>3. gaps \subseteq 1..Len(s) BY <1>1, <2>2
    <2>4. PieceEnd(s) = IF gaps # {} THEN Max(gaps) ELSE PieceMax BY <1>3 DEF PieceEnd
    <2> HIDE DEF gaps
    <2>5. gaps # {} => Max(gaps) \in gaps BY <1>1, <2>3, FirstAndLast
    <2> QED BY <2>1, <2>3, <2>4, <2>5
  <1> QED BY <1>2, <1>3

\* Sending the part of the reply behind what the user has, but for gaps, brings the user on.
LEMMA SendingKeeps ==
  ASSUME ReplyDomains, NEW n \in Nat, NEW m \in Nat, NEW a \in Nat, NEW s \in Seq(Tokens),
         SentUpTo(n), n <= a, a + Len(s) <= m, m <= Len(text), PartAt(s, a, text),
         \A p \in (n + 1)..m : p <= a \/ p > a + Len(s) => text[p].kind = "gap",
         text' = text, got' = got \o s
  PROVE  got' \in Seq(Tokens) /\ SentUpTo(m)'
  <1>1. /\ text \in Seq(Tokens) /\ got \in Seq(Tokens) /\ \A p \in DOMAIN text : text[p].at = p
        /\ Len(text) \in Nat /\ Len(got) \in Nat /\ Len(s) \in Nat
        /\ DOMAIN text = 1..Len(text) /\ DOMAIN got = 1..Len(got) /\ DOMAIN s = 1..Len(s)
    BY DEF ReplyDomains
  <1>2. PICK g \in Nat, k \in Nat : g = Len(got) /\ k = Len(s) BY <1>1
  <1>3. /\ got' \in Seq(Tokens) /\ Len(got') = g + k /\ DOMAIN got' = 1..(g + k)
        /\ \A i \in 1..(g + k) : got'[i] = IF i <= g THEN got[i] ELSE s[i - g]
    <2>1. /\ got \o s \in Seq(Tokens) /\ Len(got \o s) = Len(got) + Len(s)
          /\ \A i \in 1..Len(got) + Len(s) :
               (got \o s)[i] = IF i <= Len(got) THEN got[i] ELSE s[i - Len(got)]
      BY <1>1, ConcatProperties
    <2> QED BY <1>2, <2>1
  <1>4. \A i \in 1..g : got'[i] = got[i] /\ got[i].at \in 1..n /\ got[i] = text[got[i].at]
    <2>1. \A i \in 1..g : i \in 1..(g + k) /\ i <= g BY <1>2
    <2>2. \A i \in 1..g : got[i].at \in 1..n /\ got[i] = text[got[i].at]
      BY <1>1, <1>2 DEF SentUpTo
    <2> QED BY <1>3, <2>1, <2>2
  <1>5. \A i \in (g + 1)..(g + k) :
          got'[i] = text[a + (i - g)] /\ a + (i - g) \in 1..Len(text) /\ a + (i - g) <= m
    <2> SUFFICES ASSUME NEW i \in (g + 1)..(g + k)
                 PROVE  got'[i] = text[a + (i - g)] /\ a + (i - g) \in 1..Len(text)
                        /\ a + (i - g) <= m
      OBVIOUS
    <2>1. i \in 1..(g + k) /\ ~(i <= g) /\ i - g \in 1..k BY <1>2
    <2>2. got'[i] = s[i - g] BY <1>3, <2>1
    <2>3. s[i - g] = text[a + (i - g)] BY <1>1, <1>2, <2>1 DEF PartAt
    <2>4. a + (i - g) <= m /\ a + (i - g) \in 1..Len(text) BY <1>1, <1>2, <2>1
    <2> QED BY <2>2, <2>3, <2>4
  <1>6. \A i \in (g + 1)..(g + k) : got'[i].at = a + (i - g) BY <1>1, <1>5
  <1>7. \A i \in DOMAIN got' : i \in 1..g \/ i \in (g + 1)..(g + k) BY <1>2, <1>3
  <1>8. n <= m BY <1>1
  <1>9. m \in 0..Len(text)' BY <1>1
  <1>10. \A i, j \in DOMAIN got' : i < j => got'[i].at < got'[j].at
    <2> SUFFICES ASSUME NEW i \in DOMAIN got', NEW j \in DOMAIN got', i < j
                 PROVE  got'[i].at < got'[j].at
      OBVIOUS
    <2>1. CASE j \in 1..g
      <3>1. i \in 1..g BY <1>2, <1>3, <2>1
      <3>2. got[i].at < got[j].at BY <1>1, <1>2, <2>1, <3>1 DEF SentUpTo
      <3> QED BY <1>4, <2>1, <3>1, <3>2
    <2>2. CASE i \in 1..g /\ j \in (g + 1)..(g + k)
      <3>1. got'[i].at \in 1..n BY <1>4, <2>2
      <3>2. PICK x \in 1..n : got'[i].at = x BY <3>1
      <3>3. PICK y \in Int : y = a + (j - g) /\ y > n BY <1>2, <2>2
      <3>4. got'[j].at = y BY <1>6, <2>2, <3>3
      <3>5. x < y BY <3>2, <3>3
      <3> QED BY <3>2, <3>4, <3>5
    <2>3. CASE i \in (g + 1)..(g + k) /\ j \in (g + 1)..(g + k)
      <3>1. got'[i].at = a + (i - g) /\ got'[j].at = a + (j - g) BY <1>6, <2>3
      <3>2. a + (i - g) < a + (j - g) BY <1>2, <2>3
      <3> QED BY <3>1, <3>2
    <2>4. CASE i \in (g + 1)..(g + k) /\ j \in 1..g BY <1>2, <2>4
    <2> QED BY <1>7, <2>1, <2>2, <2>3, <2>4
  <1>11. \A i \in DOMAIN got' : got'[i].at \in 1..m /\ got'[i] = text'[got'[i].at]
    <2> SUFFICES ASSUME NEW i \in DOMAIN got'
                 PROVE  got'[i].at \in 1..m /\ got'[i] = text[got'[i].at]
      OBVIOUS
    <2>1. CASE i \in 1..g
      <3>1. got'[i].at \in 1..n /\ got'[i] = text[got'[i].at] BY <1>4, <2>1
      <3> QED BY <1>8, <3>1
    <2>2. CASE i \in (g + 1)..(g + k)
      <3>1. got'[i].at = a + (i - g) /\ got'[i] = text[a + (i - g)] BY <1>5, <1>6, <2>2
      <3>2. a + (i - g) \in 1..m BY <1>1, <1>5, <2>2
      <3> QED BY <3>1, <3>2
    <2> QED BY <1>7, <2>1, <2>2
  <1>12. SentAllOf(1..m)'
    <2> SUFFICES ASSUME NEW p \in 1..m, text[p].kind # "gap"
                 PROVE  \E i \in DOMAIN got' : got'[i] = text[p]
      BY DEF SentAllOf
    <2>1. CASE p \in 1..n
      <3>1. PICK i \in DOMAIN got : got[i] = text[p] BY <2>1 DEF SentUpTo, SentAllOf
      <3>2. i \in 1..g /\ i \in DOMAIN got' BY <1>1, <1>2, <1>3
      <3> QED BY <1>4, <3>1, <3>2
    <2>2. CASE p \in (n + 1)..m
      <3>1. ~(p <= a) /\ ~(p > a + Len(s)) BY <2>2
      <3>2. PICK i \in (g + 1)..(g + k) : a + (i - g) = p
        <4>1. g + (p - a) \in (g + 1)..(g + k) BY <1>1, <1>2, <2>2, <3>1
        <4>2. a + (g + (p - a) - g) = p BY <1>2, <2>2
        <4> QED BY <4>1, <4>2
      <3>3. got'[i] = text[p] BY <1>5, <3>2
      <3>4. i \in DOMAIN got' BY <1>2, <1>3
      <3> QED BY <3>3, <3>4
    <2>3. p \in 1..n \/ p \in (n + 1)..m OBVIOUS
    <2> QED BY <2>1, <2>2, <2>3
  <1> QED BY <1>3, <1>9, <1>10, <1>11, <1>12 DEF SentUpTo

\* What the user has stands while the reply grows behind it.
LEMMA SentStands ==
  ASSUME ReplyDomains, NEW n \in Nat, SentUpTo(n), got' = got, Len(text') \in Nat,
         Len(text) <= Len(text'), \A p \in DOMAIN text : text'[p] = text[p]
  PROVE  SentUpTo(n)'
  <1>1. DOMAIN text = 1..Len(text) /\ Len(text) \in Nat BY DEF ReplyDomains
  <1>2. n <= Len(text) BY <1>1 DEF SentUpTo
  <1>3. \A p \in 1..n : text'[p] = text[p] BY <1>1, <1>2
  <1>4. n \in 0..Len(text') BY <1>1, <1>2
  <1>5. SentAllOf(1..n)' BY <1>3 DEF SentAllOf, SentUpTo
  <1>6. \A i \in DOMAIN got' : got'[i].at \in 1..n /\ got'[i] = text'[got'[i].at]
    BY <1>3 DEF SentUpTo
  <1>7. \A i, j \in DOMAIN got' : i < j => got'[i].at < got'[j].at BY DEF SentUpTo
  <1> QED BY <1>4, <1>5, <1>6, <1>7 DEF SentUpTo

\* A step that only moves the stage on while the reply is read.
LEMMA ReadingStands ==
  ASSUME ReplyInv, stage \in {"reading", "cutting"}, stage' \in {"reading", "cutting"},
         UNCHANGED <<text, buffer, preflushed, rest, got, cutShort>>
  PROVE  ReplyInv'
  <1>1. ReplyDomains /\ SentUpTo(preflushed) /\ preflushed + Len(buffer) = Len(text)
        /\ PartAt(buffer, preflushed, text)
    BY DEF ReplyInv, ReplyStands
  <1>2. ReplyDomains' BY <1>1 DEF ReplyDomains
  <1>3. SentUpTo(preflushed)' BY <1>1 DEF SentUpTo, SentAllOf
  <1>4. PartAt(buffer, preflushed, text)' BY <1>1 DEF PartAt
  <1>5. (preflushed + Len(buffer) = Len(text))' BY <1>1
  <1> QED BY <1>2, <1>3, <1>4, <1>5 DEF ReplyInv, ReplyStands

\* Every step of a reply keeps the invariant.
LEMMA ReplyStep == ReplyInv /\ [ReplyNext]_replyVars => ReplyInv'
  <1> SUFFICES ASSUME ReplyInv, [ReplyNext]_replyVars PROVE ReplyInv' OBVIOUS
  <1>0. ReplyDomains /\ ReplyStands BY DEF ReplyInv
  <1>t. /\ text \in Seq(Tokens) /\ buffer \in Seq(Tokens) /\ rest \in Seq(Tokens)
        /\ got \in Seq(Tokens) /\ \A p \in DOMAIN text : text[p].at = p
        /\ Len(text) \in Nat /\ Len(buffer) \in Nat /\ Len(rest) \in Nat
        /\ DOMAIN text = 1..Len(text) /\ DOMAIN buffer = 1..Len(buffer)
        /\ DOMAIN rest = 1..Len(rest)
    BY <1>0 DEF ReplyDomains
  \* Where the reply is when it is read.
  <1>r. ASSUME stage \in {"reading", "cutting"}
        PROVE  \E n \in Nat : /\ n = preflushed /\ n <= Len(text) /\ SentUpTo(n)
                              /\ n + Len(buffer) = Len(text) /\ PartAt(buffer, n, text)
    <2>1. /\ SentUpTo(preflushed) /\ preflushed + Len(buffer) = Len(text)
          /\ PartAt(buffer, preflushed, text)
      BY <1>0, <1>r DEF ReplyStands
    <2>2. preflushed \in 0..Len(text) BY <2>1 DEF SentUpTo
    <2>3. preflushed \in Nat /\ preflushed <= Len(text) BY <1>t, <2>2
    <2> QED BY <2>1, <2>3
  <1>1. CASE UNCHANGED replyVars
    <2>1. UNCHANGED <<text, buffer, preflushed, rest, got, cutShort, stage>>
      BY <1>1 DEF replyVars
    <2>2. ReplyDomains' BY <1>t, <2>1 DEF ReplyDomains
    <2>3. ReplyStands' BY <1>0, <2>1 DEF ReplyStands, SentUpTo, SentAllOf, PartAt
    <2> QED BY <2>2, <2>3 DEF ReplyInv
  <1>2. ASSUME NEW t \in Kinds, ReadToken(t) PROVE ReplyInv'
    <2> DEFINE token == [kind |-> t, at |-> Len(text) + 1]
    <2>1. /\ stage = "reading" /\ text' = Append(text, token) /\ buffer' = Append(buffer, token)
          /\ stage' \in {"reading", "cutting"}
          /\ UNCHANGED <<preflushed, rest, got, cutShort>>
      BY <1>2 DEF ReadToken, AtNextLine
    <2>2. PICK n \in Nat : /\ n = preflushed /\ n <= Len(text) /\ SentUpTo(n)
                           /\ n + Len(buffer) = Len(text) /\ PartAt(buffer, n, text)
      BY <1>r, <2>1
    <2>3. token \in Tokens /\ token.at = Len(text) + 1 BY <1>t DEF Tokens
    <2> HIDE DEF token
    <2>4. /\ text' \in Seq(Tokens) /\ Len(text') = Len(text) + 1
          /\ text'[Len(text) + 1] = token /\ DOMAIN text' = 1..(Len(text) + 1)
          /\ \A p \in DOMAIN text : text'[p] = text[p]
      BY <1>t, <2>1, <2>3
    <2>5. /\ buffer' \in Seq(Tokens) /\ Len(buffer') = Len(buffer) + 1
          /\ buffer'[Len(buffer) + 1] = token /\ DOMAIN buffer' = 1..(Len(buffer) + 1)
          /\ \A p \in DOMAIN buffer : buffer'[p] = buffer[p]
      BY <1>t, <2>1, <2>3
    <2>6. ReplyDomains'
      <3>1. \A p \in DOMAIN text' : p \in DOMAIN text \/ p = Len(text) + 1 BY <1>t, <2>4
      <3>2. \A p \in DOMAIN text' : text'[p].at = p BY <1>t, <2>3, <2>4, <3>1
      <3> QED BY <1>t, <2>1, <2>4, <2>5, <3>2 DEF ReplyDomains
    <2>7. SentUpTo(n)'
      <3>1. Len(text') \in Nat /\ Len(text) <= Len(text') BY <1>t, <2>4
      <3> QED BY <1>0, <2>1, <2>2, <2>4, <3>1, SentStands
    <2>8. n + Len(buffer') = Len(text') BY <1>t, <2>2, <2>4, <2>5
    <2>9. PartAt(buffer', n, text')
      <3>1. \A i \in DOMAIN buffer' : i \in DOMAIN buffer \/ i = Len(buffer) + 1
        BY <1>t, <2>5
      <3>2. \A i \in DOMAIN buffer : n + i \in DOMAIN text BY <1>t, <2>2
      <3>3. \A i \in DOMAIN buffer : buffer'[i] = text'[n + i]
        BY <2>2, <2>4, <2>5, <3>2 DEF PartAt
      <3>4. n + (Len(buffer) + 1) = Len(text) + 1
        <4>1. n + Len(buffer) = Len(text) BY <2>2
        <4>2. Len(buffer) \in Nat /\ Len(text) \in Nat BY <1>t
        <4> QED BY <4>1, <4>2
      <3>5. buffer'[Len(buffer) + 1] = text'[n + (Len(buffer) + 1)] BY <2>4, <2>5, <3>4
      <3>6. n + Len(buffer') <= Len(text') BY <1>t, <2>4, <2>8
      <3> QED BY <3>1, <3>3, <3>5, <3>6 DEF PartAt
    <2>10. preflushed' = n BY <2>1, <2>2
    <2>11. SentUpTo(preflushed)' BY <2>7, <2>10 DEF SentUpTo, SentAllOf
    <2> QED BY <2>1, <2>6, <2>8, <2>9, <2>10, <2>11 DEF ReplyInv, ReplyStands
  <1>3. CASE NothingToCut \/ SegmentFails \/ LongTaskStarted
    <2>1. /\ stage \in {"reading", "cutting"} /\ stage' \in {"reading", "cutting"}
          /\ UNCHANGED <<text, buffer, preflushed, rest, got, cutShort>>
      BY <1>3 DEF NothingToCut, SegmentFails, LongTaskStarted, AtNextLine
    <2> QED BY <2>1, ReadingStands
  <1>4. CASE CutSegment
    <2> DEFINE seg == TakeEarlySegment(buffer)
    <2>1. /\ stage = "cutting" /\ stage' = stage /\ got' = got \o seg.send
          /\ preflushed' = preflushed + (Len(buffer) - Len(seg.keep)) /\ buffer' = seg.keep
          /\ UNCHANGED <<text, rest, cutShort>>
      BY <1>4 DEF CutSegment, Consumed
    <2>2. PICK n \in Nat : /\ n = preflushed /\ n <= Len(text) /\ SentUpTo(n)
                           /\ n + Len(buffer) = Len(text) /\ PartAt(buffer, n, text)
      BY <1>r, <2>1
    <2>3. PICK send \in Seq(Tokens), keep \in Seq(Tokens) : send = seg.send /\ keep = seg.keep
      BY <1>t, SegmentIs
    <2>4. PICK a \in Nat, m \in Nat : SegmentCuts(seg, buffer, a, m) BY <1>t, SegmentIs
    <2> HIDE DEF seg
    <2>5. /\ PartAt(send, a, buffer) /\ a + Len(send) <= m
          /\ PartAt(keep, m, buffer) /\ m + Len(keep) = Len(buffer)
          /\ \A i \in 1..m : i <= a \/ i > a + Len(send) => buffer[i].kind = "gap"
      BY <2>3, <2>4 DEF SegmentCuts
    <2>6. /\ PartAt(send, n + a, text) /\ PartAt(keep, n + m, text)
      BY <1>t, <2>2, <2>5, PartOfPart
    <2>7. Len(send) \in Nat /\ Len(keep) \in Nat BY <2>3
    <2>8. /\ n <= n + a /\ n + a + Len(send) <= n + m /\ n + m <= Len(text)
          /\ n + a \in Nat /\ n + m \in Nat
      BY <1>t, <2>2, <2>5, <2>7
    <2>9. \A p \in (n + 1)..(n + m) :
            p <= n + a \/ p > n + a + Len(send) => text[p].kind = "gap"
      <3> SUFFICES ASSUME NEW p \in (n + 1)..(n + m), p <= n + a \/ p > n + a + Len(send)
                   PROVE  text[p].kind = "gap"
        OBVIOUS
      <3>1. /\ p - n \in 1..m /\ p - n \in DOMAIN buffer /\ n + (p - n) = p
            /\ p - n <= a \/ p - n > a + Len(send)
        BY <1>t, <2>5, <2>7
      <3>2. buffer[p - n].kind = "gap" BY <2>5, <3>1
      <3>3. buffer[p - n] = text[n + (p - n)] BY <2>2, <3>1 DEF PartAt
      <3> QED BY <3>1, <3>2, <3>3
    <2>10. got' \in Seq(Tokens) /\ SentUpTo(n + m)'
      <3>1. got' = got \o send /\ text' = text BY <2>1, <2>3
      <3>2. PICK u \in Nat, v \in Nat : u = n + a /\ v = n + m BY <2>8
      <3>3. got' \in Seq(Tokens) /\ SentUpTo(v)'
        BY <1>0, <2>2, <2>6, <2>8, <2>9, <3>1, <3>2, SendingKeeps
      <3> QED BY <3>2, <3>3
    <2>11. preflushed' = n + m
      <3>1. preflushed' = n + (Len(buffer) - Len(keep)) BY <2>1, <2>2, <2>3
      <3>2. m + Len(keep) = Len(buffer) BY <2>5
      <3>3. Len(buffer) - Len(keep) = m BY <2>7, <3>2
      <3> QED BY <3>1, <3>3
    <2>12. SentUpTo(preflushed)' BY <2>10, <2>11 DEF SentUpTo, SentAllOf
    <2>13. buffer' = keep BY <2>1, <2>3
    <2>14. PartAt(buffer, preflushed, text)' BY <2>1, <2>6, <2>11, <2>13 DEF PartAt
    <2>15. (preflushed + Len(buffer) = Len(text))'
      <3>1. n + m + Len(keep) = Len(text)
        <4>1. n + Len(buffer) = Len(text) /\ m + Len(keep) = Len(buffer) BY <2>2, <2>5
        <4> QED BY <2>7, <4>1
      <3> QED BY <2>1, <2>11, <2>13, <3>1
    <2>16. ReplyDomains' BY <1>t, <2>1, <2>3, <2>10, <2>13 DEF ReplyDomains
    <2> QED BY <2>1, <2>12, <2>14, <2>15, <2>16 DEF ReplyInv, ReplyStands
  <1>5. ASSUME NEW recap \in BOOLEAN, StreamEnds(recap) PROVE ReplyInv'
    <2> DEFINE left == SubSeq(text, preflushed + 1, Len(text))
    <2>1. /\ stage = "reading" /\ stage' = "sending"
          /\ rest' = IF recap THEN <<>> ELSE Trim(left)
          /\ cutShort' = (recap /\ Trim(left) # <<>>)
          /\ UNCHANGED <<text, buffer, preflushed, got>>
      BY <1>5 DEF StreamEnds, AtNextLine
    <2>2. PICK n \in Nat : n = preflushed /\ n <= Len(text) /\ SentUpTo(n)
      BY <1>r, <2>1
    <2>3. left \in Seq(Tokens) /\ n + Len(left) = Len(text) /\ PartAt(left, n, text)
      BY <1>t, <2>2, RestIsPart
    <2> HIDE DEF left
    <2>4. PICK trimmed \in Seq(Tokens), a \in Nat :
            /\ trimmed = Trim(left) /\ PartAt(trimmed, a, left)
            /\ \A i \in DOMAIN left : i <= a \/ i > a + Len(trimmed) => left[i].kind = "gap"
      BY <2>3, TrimIs
    <2>5. /\ Len(left) \in Nat /\ DOMAIN left = 1..Len(left) /\ Len(trimmed) \in Nat
          /\ a + Len(trimmed) <= Len(left)
      BY <2>3, <2>4 DEF PartAt
    <2>6. \A p \in (n + 1)..Len(text) :
            p <= n + a \/ p > n + a + Len(trimmed) => text[p].kind = "gap"
      <3> SUFFICES ASSUME NEW p \in (n + 1)..Len(text), p <= n + a \/ p > n + a + Len(trimmed)
                   PROVE  text[p].kind = "gap"
        OBVIOUS
      <3>1. /\ p - n \in DOMAIN left /\ n + (p - n) = p
            /\ p - n <= a \/ p - n > a + Len(trimmed)
        BY <1>t, <2>3, <2>5
      <3>2. left[p - n].kind = "gap" BY <2>4, <3>1
      <3>3. left[p - n] = text[n + (p - n)] BY <2>3, <3>1 DEF PartAt
      <3> QED BY <3>1, <3>2, <3>3
    <2>7. PICK v \in Nat : v = n + a /\ v <= Len(text) /\ n <= v
      <3>1. n + a \in Nat /\ n + a <= Len(text) /\ n <= n + a BY <1>t, <2>2, <2>3, <2>5
      <3> QED BY <3>1
    <2>8. SentUpTo(v)'
      <3>1. /\ <<>> \in Seq(Tokens) /\ Len(<<>>) = 0 /\ got' = got \o <<>> /\ text' = text
            /\ PartAt(<<>>, v, text) /\ v + 0 <= v
        BY <1>t, <2>1, <2>7, ConcatEmptySeq DEF PartAt
      <3>2. \A p \in (n + 1)..v : text[p].kind = "gap" BY <1>t, <2>6, <2>7
      <3> QED BY <1>0, <2>2, <2>7, <3>1, <3>2, SendingKeeps
    <2>9. cutShort' \/ /\ rest' = trimmed
                       /\ \A p \in (v + Len(trimmed) + 1)..Len(text') : text'[p].kind = "gap"
      <3>1. CASE recap
        <4>1. CASE trimmed = <<>> BY <2>1, <2>4, <2>5, <2>6, <2>7, <3>1, <4>1, <1>t, <2>2
        <4> QED BY <2>1, <2>4, <3>1, <4>1
      <3>2. CASE ~recap
        <4>1. rest' = trimmed BY <2>1, <2>4, <3>2
        <4>2. \A p \in (v + Len(trimmed) + 1)..Len(text) :
                p \in (n + 1)..Len(text) /\ p > n + a + Len(trimmed)
          BY <1>t, <2>2, <2>5, <2>7
        <4> QED BY <2>1, <2>6, <4>1, <4>2
      <3> QED BY <3>1, <3>2
    <2>10. PartAt(rest', v, text')
      <3>1. PartAt(trimmed, v, text) BY <1>t, <2>2, <2>3, <2>4, <2>7, PartOfPart
      <3>2. PartAt(<<>>, v, text) BY <1>t, <2>7 DEF PartAt
      <3>3. rest' = trimmed \/ rest' = <<>> BY <2>1, <2>4
      <3> QED BY <2>1, <3>1, <3>2, <3>3
    <2>11. rest' \in Seq(Tokens) BY <2>1, <2>4
    <2>12. ReplyDomains' BY <1>t, <2>1, <2>11 DEF ReplyDomains
    <2>13. v \in 0..Len(text') BY <1>t, <2>1, <2>7
    <2>14. cutShort' \/ \A p \in (v + Len(rest') + 1)..Len(text') : text'[p].kind = "gap"
      BY <2>9
    <2> QED BY <2>1, <2>8, <2>10, <2>12, <2>13, <2>14 DEF ReplyInv, ReplyStands
  <1>6. CASE ChatBrokenOff
    <2>1. /\ stage = "reading" /\ stage' = "over" /\ cutShort'
          /\ UNCHANGED <<text, buffer, preflushed, rest, got>>
      BY <1>6 DEF ChatBrokenOff, AtNextLine
    <2>2. PICK n \in Nat : n <= Len(text) /\ SentUpTo(n) BY <1>r, <2>1
    <2>3. SentUpTo(n)' /\ n \in 0..Len(text') BY <1>t, <2>1, <2>2 DEF SentUpTo, SentAllOf
    <2>4. ReplyDomains' BY <1>t, <2>1 DEF ReplyDomains
    <2> QED BY <2>1, <2>3, <2>4 DEF ReplyInv, ReplyStands
  <1>7. CASE SendPiece \/ PieceFails \/ ReplyOver
    <2>1. PICK n \in 0..Len(text) :
            /\ SentUpTo(n) /\ PartAt(rest, n, text)
            /\ cutShort \/ \A p \in (n + Len(rest) + 1)..Len(text) : text[p].kind = "gap"
      BY <1>0, <1>7 DEF SendPiece, PieceFails, ReplyOver, ReplyStands
    <2>2. n \in Nat /\ n <= Len(text) /\ n + Len(rest) <= Len(text) BY <1>t, <2>1 DEF PartAt
    <2>3. CASE SendPiece
      <3> DEFINE e == PieceEnd(rest)
                 piece == SubSeq(rest, 1, e)
                 cutOff == SubSeq(rest, e + 1, Len(rest))
      <3>1. /\ rest # <<>> /\ stage' = "sending" /\ got' = got \o piece /\ rest' = Trim(cutOff)
            /\ UNCHANGED <<text, buffer, cutShort>>
        BY <2>3 DEF SendPiece
      <3>2. e \in 1..Len(rest) BY <1>t, <3>1, PieceEndIs
      <3> HIDE DEF e
      <3>3. PICK c \in Nat : c = e /\ c <= Len(rest) BY <1>t, <3>2
      <3>4. piece \in Seq(Tokens) /\ Len(piece) = c /\ PartAt(piece, 0, rest)
        <4>1. 0 + 1 = 1 /\ c - 0 = c OBVIOUS
        <4> QED BY <1>t, <3>3, <4>1, CutIsPart
      <3>5. cutOff \in Seq(Tokens) /\ c + Len(cutOff) = Len(rest) /\ PartAt(cutOff, c, rest)
        BY <1>t, <3>3, RestIsPart
      <3> HIDE DEF piece, cutOff
      <3>6. PICK more \in Seq(Tokens), a \in Nat :
              /\ more = Trim(cutOff) /\ PartAt(more, a, cutOff)
              /\ \A i \in DOMAIN cutOff : i <= a \/ i > a + Len(more) => cutOff[i].kind = "gap"
        BY <3>5, TrimIs
      <3>7. /\ Len(cutOff) \in Nat /\ DOMAIN cutOff = 1..Len(cutOff) /\ Len(more) \in Nat
            /\ a + Len(more) <= Len(cutOff)
        BY <3>5, <3>6 DEF PartAt
      <3>8. PartAt(cutOff, n + c, text)
        BY <1>t, <2>1, <2>2, <3>5, PartOfPart
      <3>9. \A p \in (n + c + 1)..(n + Len(rest)) :
              p <= n + c + a \/ p > n + c + a + Len(more) => text[p].kind = "gap"
        <4> SUFFICES ASSUME NEW p \in (n + c + 1)..(n + Len(rest)),
                            p <= n + c + a \/ p > n + c + a + Len(more)
                     PROVE  text[p].kind = "gap"
          OBVIOUS
        <4> DEFINE q == p - (n + c)
        <4>1. q \in DOMAIN cutOff /\ n + c + q = p /\ (q <= a \/ q > a + Len(more))
          BY <1>t, <2>2, <3>5, <3>7
        <4> HIDE DEF q
        <4>2. cutOff[q].kind = "gap" BY <3>6, <4>1
        <4>3. cutOff[q] = text[n + c + q] BY <3>8, <4>1 DEF PartAt
        <4> QED BY <4>1, <4>2, <4>3
      <3>10. PICK v \in Nat : v = n + c + a /\ v <= Len(text) /\ n + c <= v
        <4>1. n + c + a \in Nat /\ n + c + a <= Len(text) /\ n + c <= n + c + a
          BY <1>t, <2>2, <3>3, <3>5, <3>7
        <4> QED BY <4>1
      <3>11. got' \in Seq(Tokens) /\ SentUpTo(v)'
        <4>1. PartAt(piece, n, text)
          <5>1. PartAt(piece, n + 0, text) BY <1>t, <2>1, <2>2, <3>4, PartOfPart
          <5> QED BY <2>2, <5>1
        <4>2. n <= n /\ n + Len(piece) <= v BY <2>2, <3>3, <3>4, <3>10
        <4>3. \A p \in (n + 1)..v : p <= n \/ p > n + Len(piece) => text[p].kind = "gap"
          <5> SUFFICES ASSUME NEW p \in (n + 1)..v, p > n + Len(piece)
                       PROVE  text[p].kind = "gap"
            BY <2>2
          <5>1. p \in (n + c + 1)..(n + Len(rest)) /\ p <= n + c + a
            BY <1>t, <2>2, <3>3, <3>4, <3>5, <3>7, <3>10
          <5> QED BY <3>9, <5>1
        <4> QED BY <1>0, <2>1, <2>2, <3>1, <3>4, <3>10, <4>1, <4>2, <4>3, SendingKeeps
      <3>12. PartAt(more, v, text)
        <4>1. n + c \in Nat BY <2>2
        <4>2. PartAt(more, n + c + a, text) BY <1>t, <3>5, <3>6, <3>8, <4>1, PartOfPart
        <4> QED BY <3>10, <4>2
      <3>13. rest' = more BY <3>1, <3>6
      <3>14. PartAt(rest, v, text)' BY <3>1, <3>12, <3>13 DEF PartAt
      <3>15. cutShort' \/ \A p \in (v + Len(rest') + 1)..Len(text') : text'[p].kind = "gap"
        <4> SUFFICES ASSUME ~cutShort, NEW p \in (v + Len(more) + 1)..Len(text)
                     PROVE  text[p].kind = "gap"
          BY <3>1, <3>13
        <4>1. CASE p <= n + Len(rest)
          <5>1. p \in (n + c + 1)..(n + Len(rest)) /\ p > n + c + a + Len(more)
            BY <1>t, <2>2, <3>3, <3>7, <3>10, <4>1
          <5> QED BY <3>9, <5>1
        <4>2. CASE p > n + Len(rest)
          <5>1. p \in (n + Len(rest) + 1)..Len(text) BY <1>t, <2>2, <3>7, <3>10, <4>2
          <5> QED BY <2>1, <5>1
        <4>3. p \in Nat BY <3>7, <3>10
        <4> QED BY <1>t, <2>2, <4>1, <4>2, <4>3
      <3>16. ReplyDomains' BY <1>t, <3>1, <3>11, <3>13 DEF ReplyDomains
      <3>17. v \in 0..Len(text') BY <1>t, <3>1, <3>10
      <3> QED BY <3>1, <3>11, <3>14, <3>15, <3>16, <3>17 DEF ReplyInv, ReplyStands
    <2>4. CASE PieceFails
      <3> DEFINE e == PieceEnd(rest)
                 piece == SubSeq(rest, 1, e)
      <3>1. /\ stage' = "over" /\ cutShort' /\ UNCHANGED <<text, buffer, rest>> /\ rest # <<>>
            /\ got' = got \/ got' = got \o piece
        BY <2>4 DEF PieceFails
      <3>2. e \in 1..Len(rest) BY <1>t, <3>1, PieceEndIs
      <3> HIDE DEF e
      <3>3. CASE got' = got
        <4>1. SentUpTo(n)' /\ n \in 0..Len(text')
          BY <2>1, <3>1, <3>3 DEF SentUpTo, SentAllOf
        <4>2. ReplyDomains' BY <1>t, <3>1, <3>3 DEF ReplyDomains
        <4> QED BY <3>1, <4>1, <4>2 DEF ReplyInv, ReplyStands
      <3>4. CASE got' = got \o piece
        <4>1. PICK c \in Nat : c = e /\ c <= Len(rest) BY <1>t, <3>2
        <4>2. piece \in Seq(Tokens) /\ Len(piece) = c /\ PartAt(piece, 0, rest)
          <5>1. 0 + 1 = 1 /\ c - 0 = c OBVIOUS
          <5> QED BY <1>t, <4>1, <5>1, CutIsPart
        <4> HIDE DEF piece
        <4>3. PartAt(piece, n, text)
          <5>1. PartAt(piece, n + 0, text) BY <1>t, <2>1, <2>2, <4>2, PartOfPart
          <5> QED BY <2>2, <5>1
        <4>4. PICK v \in Nat : v = n + c /\ v <= Len(text) BY <1>t, <2>2, <4>1
        <4>5. n <= n /\ n + Len(piece) <= v BY <2>2, <4>2, <4>4
        <4>6. \A p \in (n + 1)..v : p <= n \/ p > n + Len(piece) => text[p].kind = "gap"
          BY <2>2, <4>2, <4>4
        <4>7. got' \in Seq(Tokens) /\ SentUpTo(v)'
          BY <1>0, <2>1, <2>2, <3>1, <3>4, <4>2, <4>3, <4>4, <4>5, <4>6, SendingKeeps
        <4>8. v \in 0..Len(text') BY <1>t, <3>1, <4>4
        <4>9. ReplyDomains' BY <1>t, <3>1, <4>7 DEF ReplyDomains
        <4> QED BY <3>1, <4>7, <4>8, <4>9 DEF ReplyInv, ReplyStands
      <3> QED BY <3>1, <3>3, <3>4
    <2>5. CASE ReplyOver
      <3>1. /\ rest = <<>> /\ stage' = "over" /\ UNCHANGED <<text, buffer, rest, got, cutShort>>
        BY <2>5 DEF ReplyOver
      <3>2. ReplyDomains' BY <1>t, <3>1 DEF ReplyDomains
      <3>3. CASE cutShort
        <4>1. SentUpTo(n)' /\ n \in 0..Len(text') BY <2>1, <3>1 DEF SentUpTo, SentAllOf
        <4> QED BY <3>1, <3>2, <3>3, <4>1 DEF ReplyInv, ReplyStands
      <3>4. CASE ~cutShort
        <4>1. \A p \in (n + 1)..Len(text) : text[p].kind = "gap"
          <5>1. Len(rest) = 0 /\ n + 0 + 1 = n + 1 BY <2>2, <3>1
          <5> QED BY <2>1, <3>4, <5>1
        <4>2. PICK v \in Nat : v = Len(text) BY <1>t
        <4>3. /\ <<>> \in Seq(Tokens) /\ Len(<<>>) = 0 /\ got' = got \o <<>> /\ text' = text
              /\ PartAt(<<>>, v, text) /\ v + 0 <= v
          BY <1>t, <3>1, <4>2, ConcatEmptySeq DEF PartAt
        <4>4. SentUpTo(v)'
          <5>1. n <= v /\ v + Len(<<>>) <= v /\ v <= Len(text) BY <2>2, <4>2, <4>3
          <5>2. \A p \in (n + 1)..v : p <= v \/ p > v + Len(<<>>) => text[p].kind = "gap"
            BY <4>1, <4>2
          <5> QED BY <1>0, <2>1, <2>2, <4>3, <5>1, <5>2, SendingKeeps
        <4>5. v \in 0..Len(text') /\ v = Len(text') BY <3>1, <4>2
        <4> QED BY <3>1, <3>2, <4>4, <4>5 DEF ReplyInv, ReplyStands
      <3> QED BY <3>3, <3>4
    <2> QED BY <1>7, <2>3, <2>4, <2>5
  <1> QED BY <1>1, <1>2, <1>3, <1>4, <1>5, <1>6, <1>7 DEF ReplyNext

\* Nothing was read, and nothing sent.
LEMMA ReplyInitially == ReplyInit => ReplyInv
  <1> SUFFICES ASSUME ReplyInit PROVE ReplyInv OBVIOUS
  <1>1. /\ text = <<>> /\ buffer = <<>> /\ rest = <<>> /\ got = <<>> /\ preflushed = 0
        /\ stage = "reading"
    BY DEF ReplyInit
  <1>2. <<>> \in Seq(Tokens) /\ Len(<<>>) = 0 /\ DOMAIN <<>> = {} OBVIOUS
  <1>3. ReplyDomains BY <1>1, <1>2 DEF ReplyDomains
  <1>4. SentUpTo(preflushed) BY <1>1, <1>2 DEF SentUpTo, SentAllOf
  <1>5. PartAt(buffer, preflushed, text) BY <1>1, <1>2 DEF PartAt
  <1> QED BY <1>1, <1>2, <1>3, <1>4, <1>5 DEF ReplyInv, ReplyStands

\* The one early segment that came though its sending failed is a part of the reply behind
\* what the user had, and after it nothing is sent early.
DoubledOnce ==
  /\ doubled \in Seq(Tokens)
  /\ doubled # <<>> => broken /\ \E a \in Nat : PartAt(doubled, a, text) /\ SentAllOf(1..a)
  /\ stage = "cutting" => ~broken

\* What the user has of a part of the reply, she keeps.
LEMMA SentAllStands ==
  ASSUME ReplyDomains, ReplyDomains', NEW a \in Nat, a <= Len(text), SentAllOf(1..a),
         Len(text) <= Len(text'), \A p \in DOMAIN text : text'[p] = text[p],
         \A i \in DOMAIN got : i \in DOMAIN got' /\ got'[i] = got[i]
  PROVE  SentAllOf(1..a)'
  <1>1. DOMAIN text = 1..Len(text) /\ Len(text) \in Nat BY DEF ReplyDomains
  <1>2. \A p \in 1..a : p \in DOMAIN text BY <1>1
  <1> QED BY <1>2 DEF SentAllOf

\* Every step of a reply keeps it so.
LEMMA DoubledStep ==
  ReplyInv /\ ReplyInv' /\ DoubledOnce /\ [ReplyNext]_replyVars => DoubledOnce'
  <1> SUFFICES ASSUME ReplyInv, ReplyInv', DoubledOnce, [ReplyNext]_replyVars PROVE DoubledOnce'
    OBVIOUS
  <1>0. ReplyDomains /\ ReplyStands /\ ReplyDomains' BY DEF ReplyInv
  <1>t. /\ text \in Seq(Tokens) /\ buffer \in Seq(Tokens) /\ rest \in Seq(Tokens)
        /\ got \in Seq(Tokens) /\ got' \in Seq(Tokens) /\ text' \in Seq(Tokens)
        /\ Len(text) \in Nat /\ Len(text') \in Nat /\ DOMAIN text = 1..Len(text)
        /\ Len(got) \in Nat /\ DOMAIN got = 1..Len(got)
        /\ Len(buffer) \in Nat /\ DOMAIN buffer = 1..Len(buffer)
    BY <1>0 DEF ReplyDomains
  \* A step that sends nothing early whose answer is lost.
  <1>k. ASSUME doubled' = doubled, broken => broken', stage' = "cutting" => ~broken',
               Len(text) <= Len(text'), \A p \in DOMAIN text : text'[p] = text[p],
               got' = got \/ \E s \in Seq(Tokens) : got' = got \o s
        PROVE  DoubledOnce'
    <2>1. \A i \in DOMAIN got : i \in DOMAIN got' /\ got'[i] = got[i]
      <3>1. CASE got' = got BY <3>1
      <3>2. ASSUME NEW s \in Seq(Tokens), got' = got \o s
            PROVE  \A i \in DOMAIN got : i \in DOMAIN got' /\ got'[i] = got[i]
        <4>1. /\ Len(got') = Len(got) + Len(s) /\ Len(s) \in Nat /\ DOMAIN got' = 1..Len(got')
              /\ \A i \in 1..Len(got) + Len(s) :
                   got'[i] = IF i <= Len(got) THEN got[i] ELSE s[i - Len(got)]
          BY <1>t, <3>2, ConcatProperties
        <4> QED BY <1>t, <4>1
      <3> QED BY <1>k, <3>1, <3>2
    <2>2. ASSUME doubled # <<>>
          PROVE  broken' /\ \E a \in Nat : PartAt(doubled, a, text') /\ SentAllOf(1..a)'
      <3>1. PICK a \in Nat : PartAt(doubled, a, text) /\ SentAllOf(1..a)
        BY <2>2 DEF DoubledOnce
      <3>2. Len(doubled) \in Nat /\ DOMAIN doubled = 1..Len(doubled) BY DEF DoubledOnce
      <3>3. a + Len(doubled) <= Len(text) /\ \A i \in DOMAIN doubled : doubled[i] = text[a + i]
        BY <3>1 DEF PartAt
      <3>4. a <= Len(text) /\ \A i \in DOMAIN doubled : a + i \in DOMAIN text
        BY <1>t, <3>2, <3>3
      <3>5. a + Len(doubled) <= Len(text') BY <1>k, <1>t, <3>2, <3>3
      <3>6. PartAt(doubled, a, text') BY <1>k, <3>3, <3>4, <3>5 DEF PartAt
      <3>7. SentAllOf(1..a)' BY <1>0, <1>k, <2>1, <3>1, <3>4, SentAllStands
      <3>8. broken' BY <1>k, <2>2 DEF DoubledOnce
      <3> QED BY <3>6, <3>7, <3>8
    <2>3. doubled' \in Seq(Tokens) BY <1>k DEF DoubledOnce
    <2> QED BY <1>k, <2>2, <2>3 DEF DoubledOnce
  <1>1. ASSUME NEW t \in Kinds, ReadToken(t) PROVE DoubledOnce'
    <2> DEFINE token == [kind |-> t, at |-> Len(text) + 1]
    <2>1. /\ text' = Append(text, token) /\ UNCHANGED <<broken, got, doubled>>
          /\ stage' = IF broken \/ longTask THEN "reading" ELSE "cutting"
      BY <1>1 DEF ReadToken
    <2>2. token \in Tokens BY <1>t DEF Tokens
    <2> HIDE DEF token
    <2>3. Len(text') = Len(text) + 1 /\ \A p \in DOMAIN text : text'[p] = text[p]
      BY <1>t, <2>1, <2>2
    <2>4. Len(text) <= Len(text') BY <1>t, <2>3
    <2>5. stage' = "cutting" => ~broken' BY <2>1
    <2> QED BY <1>k, <2>1, <2>3, <2>4, <2>5
  <1>2. CASE CutSegment
    <2>1. /\ UNCHANGED <<text, broken, stage, doubled>>
          /\ got' = got \o TakeEarlySegment(buffer).send
      BY <1>2 DEF CutSegment
    <2>2. TakeEarlySegment(buffer).send \in Seq(Tokens) BY <1>t, SegmentIs
    <2>3. stage' = "cutting" => ~broken' BY <2>1 DEF DoubledOnce
    <2>4. got' = got \/ \E s \in Seq(Tokens) : got' = got \o s BY <2>1, <2>2
    <2>5. Len(text) <= Len(text') /\ \A p \in DOMAIN text : text'[p] = text[p] BY <1>t, <2>1
    <2> QED BY ONLY <1>k, <2>1, <2>3, <2>4, <2>5
  <1>3. CASE SegmentFails
    <2> DEFINE seg == TakeEarlySegment(buffer)
    <2>1. /\ stage = "cutting" /\ stage' = "reading" /\ broken' = TRUE
          /\ UNCHANGED <<text, buffer, preflushed, got>>
          /\ doubled' = doubled \/ doubled' = doubled \o seg.send
      BY <1>3 DEF SegmentFails
    <2>2. doubled = <<>> BY <2>1 DEF DoubledOnce
    <2>3. PICK send \in Seq(Tokens), a \in Nat, m \in Nat :
            send = seg.send /\ SegmentCuts(seg, buffer, a, m)
      BY <1>t, SegmentIs
    <2> HIDE DEF seg
    <2>4. /\ PartAt(send, a, buffer) /\ a + Len(send) <= m /\ m <= Len(buffer)
          /\ \A i \in 1..m : i <= a => buffer[i].kind = "gap"
      <3>1. seg.keep \in Seq(Tokens) BY <1>t, SegmentIs DEF seg
      <3>2. Len(seg.keep) \in Nat BY <3>1
      <3>3. m + Len(seg.keep) = Len(buffer) BY <2>3 DEF SegmentCuts
      <3>4. m <= Len(buffer)
        <4>1. PICK x \in Nat, y \in Nat : x = Len(buffer) /\ y = Len(seg.keep) BY <1>t, <3>2
        <4>2. m + y = x BY <3>3, <4>1
        <4>3. m <= x BY <4>2
        <4> QED BY <4>1, <4>3
      <3> QED BY <2>3, <3>4 DEF SegmentCuts
    <2>5. PICK n \in Nat : /\ n = preflushed /\ n <= Len(text) /\ SentAllOf(1..n)
                           /\ n + Len(buffer) = Len(text) /\ PartAt(buffer, n, text)
      <3>1. /\ SentUpTo(preflushed) /\ preflushed + Len(buffer) = Len(text)
            /\ PartAt(buffer, preflushed, text)
        BY <1>0, <2>1 DEF ReplyStands
      <3>2. preflushed \in 0..Len(text) /\ SentAllOf(1..preflushed) BY <3>1 DEF SentUpTo
      <3>3. preflushed \in Nat /\ preflushed <= Len(text) BY <1>t, <3>2
      <3> QED BY <3>1, <3>2, <3>3
    <2>6. PartAt(send, n + a, text) BY <1>t, <2>3, <2>4, <2>5, PartOfPart
    <2>7. SentAllOf(1..(n + a))
      <3> SUFFICES ASSUME NEW p \in 1..(n + a), text[p].kind # "gap"
                   PROVE  \E i \in DOMAIN got : got[i] = text[p]
        BY DEF SentAllOf
      <3>1. CASE p <= n
        <4>1. p \in 1..n BY <2>5, <3>1
        <4> QED BY <2>5, <4>1 DEF SentAllOf
      <3>2. CASE p > n
        <4>1. Len(send) \in Nat BY <2>3
        <4>2. p - n \in 1..m /\ p - n <= a /\ p - n \in DOMAIN buffer /\ n + (p - n) = p
          BY <1>t, <2>4, <2>5, <3>2, <4>1
        <4>3. buffer[p - n].kind = "gap" BY <2>4, <4>2
        <4>4. buffer[p - n] = text[n + (p - n)] BY <2>5, <4>2 DEF PartAt
        <4> QED BY <4>2, <4>3, <4>4
      <3> QED BY <2>5, <3>1, <3>2
    <2>8. doubled' = <<>> \/ doubled' = send
      <3>1. <<>> \o send = send BY <2>3, ConcatEmptySeq
      <3> QED BY <2>1, <2>2, <2>3, <3>1
    <2>9. PICK v \in Nat : v = n + a BY <2>5
    <2>10. PartAt(send, v, text') /\ SentAllOf(1..v)'
      BY <2>1, <2>6, <2>7, <2>9 DEF PartAt, SentAllOf
    <2>11. doubled' \in Seq(Tokens)
      <3>1. <<>> \in Seq(Tokens) OBVIOUS
      <3>2. send \in Seq(Tokens) BY <2>3
      <3> QED BY ONLY <2>8, <3>1, <3>2
    <2>12. doubled' # <<>> => PartAt(doubled', v, text') BY <2>8, <2>10
    <2> QED BY <2>1, <2>10, <2>11, <2>12 DEF DoubledOnce
  <1>4. ASSUME NothingToCut \/ LongTaskStarted \/ ChatBrokenOff \/ ReplyOver
                 \/ \E recap \in BOOLEAN : StreamEnds(recap)
        PROVE  DoubledOnce'
    <2>1. /\ UNCHANGED <<text, broken, got, doubled>> /\ stage' # "cutting"
      BY <1>4 DEF NothingToCut, LongTaskStarted, ChatBrokenOff, ReplyOver, StreamEnds, AtNextLine
    <2> QED BY <1>k, <1>t, <2>1
  <1>5. CASE SendPiece \/ PieceFails
    <2>1. /\ UNCHANGED <<text, broken, doubled>> /\ stage' # "cutting" /\ rest # <<>>
          /\ got' = got \/ got' = got \o SubSeq(rest, 1, PieceEnd(rest))
      BY <1>5 DEF SendPiece, PieceFails
    <2>2. SubSeq(rest, 1, PieceEnd(rest)) \in Seq(Tokens)
      <3>1. PICK c \in Nat : c = PieceEnd(rest) /\ c <= Len(rest) /\ 0 <= c
        BY <1>t, <2>1, PieceEndIs
      <3>2. SubSeq(rest, 0 + 1, c) \in Seq(Tokens) BY <1>t, <3>1, CutIsPart
      <3> QED BY <3>1, <3>2
    <2>3. got' = got \/ \E s \in Seq(Tokens) : got' = got \o s BY <2>1, <2>2
    <2>4. Len(text) <= Len(text') /\ \A p \in DOMAIN text : text'[p] = text[p] BY <1>t, <2>1
    <2> QED BY ONLY <1>k, <2>1, <2>3, <2>4
  <1>6. CASE UNCHANGED replyVars
    <2>1. UNCHANGED <<text, broken, got, doubled, stage>> BY <1>6 DEF replyVars
    <2> QED BY <2>1 DEF DoubledOnce, SentAllOf, PartAt
  <1> QED BY <1>1, <1>2, <1>3, <1>4, <1>5, <1>6 DEF ReplyNext

\* Nothing was sent yet.
LEMMA DoubledInitially == ReplyInit => DoubledOnce
  BY DEF ReplyInit, DoubledOnce

\* For any reply and any sizes of its segments and pieces, whatever is sent early, cut, trimmed
\* or fails: the user has a prefix of it, nothing twice and nothing left out in between, and the
\* whole of it when all is over; beside it comes at most the one early segment whose answer was
\* lost (relay.ts: chatOnceInner).
THEOREM RepliesArrive == ReplySpec => []NothingTwiceNothingMissing
  <1>1. ReplyInv /\ DoubledOnce => NothingTwiceNothingMissing
    <2> SUFFICES ASSUME ReplyInv, DoubledOnce PROVE NothingTwiceNothingMissing OBVIOUS
    <2>0. ReplyDomains /\ ReplyStands BY DEF ReplyInv
    <2>1. /\ text \in Seq(Tokens) /\ Len(text) \in Nat /\ DOMAIN text = 1..Len(text)
      BY <2>0 DEF ReplyDomains
    <2>2. PICK n \in 0..Len(text) :
            SentUpTo(n) /\ (stage = "over" => cutShort \/ n = Len(text))
      <3>1. CASE stage \in {"reading", "cutting"} BY <2>0, <3>1 DEF ReplyStands, SentUpTo
      <3>2. CASE stage = "sending" BY <2>0, <3>2 DEF ReplyStands
      <3>3. CASE stage = "over" BY <2>0, <3>3 DEF ReplyStands
      <3> QED BY <2>0, <3>1, <3>2, <3>3 DEF ReplyStands
    <2>3. /\ \A i, j \in DOMAIN got : i < j => got[i].at < got[j].at
          /\ \A i \in DOMAIN got : got[i].at \in 1..n /\ got[i] = text[got[i].at]
          /\ SentAllOf(1..n)
      BY <2>2 DEF SentUpTo
    <2>4. 1..n \subseteq DOMAIN text BY <2>1
    <2>5. \A p \in 1..n : 1..p \subseteq 1..n OBVIOUS
    <2>6. \A p \in 1..n : SentAllOf(1..p) BY <2>3, <2>5 DEF SentAllOf
    <2>7. stage = "over" /\ ~cutShort => SentAllOf(DOMAIN text) BY <2>1, <2>2, <2>3
    <2>8. /\ \A i, j \in DOMAIN doubled : i < j => doubled[i].at < doubled[j].at
          /\ \A i \in DOMAIN doubled :
               doubled[i].at \in DOMAIN text /\ doubled[i] = text[doubled[i].at]
          /\ doubled # <<>> => SentAllOf(1..(doubled[1].at - 1))
      <3>1. CASE doubled = <<>>
        <4>1. DOMAIN doubled = {} BY <3>1
        <4> QED BY <3>1, <4>1
      <3>2. CASE doubled # <<>>
        <4>1. PICK a \in Nat : PartAt(doubled, a, text) /\ SentAllOf(1..a)
          BY <3>2 DEF DoubledOnce
        <4>2. doubled \in Seq(Tokens) BY DEF DoubledOnce
        <4>3. Len(doubled) \in Nat /\ DOMAIN doubled = 1..Len(doubled) /\ Len(doubled) >= 1
          BY <3>2, <4>2, EmptySeq
        <4>4. a + Len(doubled) <= Len(text) /\ \A i \in DOMAIN doubled : doubled[i] = text[a + i]
          BY <4>1 DEF PartAt
        <4>5. \A i \in DOMAIN doubled : a + i \in DOMAIN text BY <2>1, <4>3, <4>4
        <4>6. \A i \in DOMAIN doubled : doubled[i].at = a + i
          BY <2>0, <4>4, <4>5 DEF ReplyDomains
        <4>7. \A i, j \in DOMAIN doubled : i < j => a + i < a + j BY <4>3
        <4>8. 1 \in DOMAIN doubled /\ a + 1 - 1 = a BY <4>3
        <4>9. SentAllOf(1..(doubled[1].at - 1)) BY <4>1, <4>6, <4>8
        <4> QED BY <4>4, <4>5, <4>6, <4>7, <4>9
      <3> QED BY <3>1, <3>2
    <2> QED BY <2>3, <2>4, <2>6, <2>7, <2>8 DEF NothingTwiceNothingMissing
  <1> QED BY <1>1, ReplyInitially, ReplyStep, DoubledInitially, DoubledStep, PTL DEF ReplySpec

\* What ReplyDomains leaves out.
ReplyRest ==
  /\ Len(text) <= MaxText /\ preflushed \in 0..Len(text)
  /\ {sentFirst, broken, longTask, cutShort} \subseteq BOOLEAN

\* The variables of a reply keep to their domains (ReplyTypeOK): no more is sent early than
\* there is.
LEMMA ReplyIsTyped == ReplySpec => []ReplyTypeOK
  <1>1. ReplyInit => ReplyRest
    <2> SUFFICES ASSUME ReplyInit PROVE ReplyRest OBVIOUS
    <2>1. text = <<>> /\ preflushed = 0 /\ Len(<<>>) = 0 BY DEF ReplyInit
    <2>2. {sentFirst, broken, longTask, cutShort} \subseteq BOOLEAN BY DEF ReplyInit
    <2> QED BY <2>1, <2>2, ReplyAssumption DEF ReplyRest
  <1>2. ReplyInv /\ ReplyInv' /\ ReplyRest /\ [ReplyNext]_replyVars => ReplyRest'
    <2> SUFFICES ASSUME ReplyInv, ReplyInv', ReplyRest, [ReplyNext]_replyVars PROVE ReplyRest'
      OBVIOUS
    <2>0. text \in Seq(Tokens) /\ Len(text) \in Nat BY DEF ReplyInv, ReplyDomains
    <2>1. CASE UNCHANGED <<text, preflushed>>
               /\ {sentFirst', broken', longTask', cutShort'} \subseteq BOOLEAN
      BY <2>1 DEF ReplyRest
    <2>2. ASSUME NEW t \in Kinds, ReadToken(t) PROVE ReplyRest'
      <3>1. /\ Len(text) < MaxText /\ preflushed' = preflushed
            /\ \E token \in Tokens : text' = Append(text, token)
            /\ UNCHANGED <<sentFirst, broken, longTask, cutShort>>
        <4>1. [kind |-> t, at |-> Len(text) + 1] \in Tokens BY <2>0 DEF Tokens
        <4> QED BY <2>2, <4>1 DEF ReadToken
      <3>2. Len(text') = Len(text) + 1 BY <2>0, <3>1
      <3> QED BY <2>0, <3>1, <3>2, ReplyAssumption DEF ReplyRest
    <2>3. CASE CutSegment
      <3>1. /\ UNCHANGED <<text, broken, longTask, cutShort>> /\ sentFirst' = TRUE
            /\ stage' = "cutting"
        BY <2>3 DEF CutSegment
      <3>2. preflushed' \in 0..Len(text')
        BY <3>1 DEF ReplyInv, ReplyStands, SentUpTo
      <3> QED BY <3>1, <3>2 DEF ReplyRest
    <2>4. ASSUME NEW recap \in BOOLEAN, StreamEnds(recap) PROVE ReplyRest'
      <3>1. /\ UNCHANGED <<text, preflushed, sentFirst, broken, longTask>>
            /\ cutShort' \in BOOLEAN
        BY <2>4 DEF StreamEnds
      <3> QED BY <2>1, <3>1 DEF ReplyRest
    <2>5. CASE \/ NothingToCut \/ SegmentFails \/ LongTaskStarted \/ ChatBrokenOff \/ SendPiece
               \/ PieceFails \/ ReplyOver \/ UNCHANGED replyVars
      <3>1. /\ UNCHANGED <<text, preflushed, sentFirst>>
            /\ broken' \in {broken, TRUE} /\ longTask' \in {longTask, TRUE}
            /\ cutShort' \in {cutShort, TRUE}
        BY <2>5 DEF NothingToCut, SegmentFails, LongTaskStarted, ChatBrokenOff, SendPiece,
                    PieceFails, ReplyOver, replyVars
      <3> QED BY <2>1, <3>1 DEF ReplyRest
    <2> QED BY <2>2, <2>3, <2>4, <2>5 DEF ReplyNext
  <1>3. ReplyInv /\ ReplyRest /\ DoubledOnce => ReplyTypeOK
    <2> SUFFICES ASSUME ReplyInv, ReplyRest, DoubledOnce PROVE ReplyTypeOK OBVIOUS
    <2>1. Len(text) \in Nat BY DEF ReplyInv, ReplyDomains
    <2>2. preflushed \in 0..MaxText BY <2>1, ReplyAssumption DEF ReplyRest
    <2>3. stage \in {"reading", "cutting", "sending", "over"} BY DEF ReplyInv, ReplyStands
    <2> QED BY <2>2, <2>3 DEF ReplyInv, ReplyDomains, ReplyRest, DoubledOnce, ReplyTypeOK
  <1> QED BY <1>1, <1>2, <1>3, ReplyInitially, ReplyStep, DoubledInitially, DoubledStep, PTL
         DEF ReplySpec

\* Both, of a reply and the sends in one system with the parts beside them.
THEOREM HandedOver == ForegroundSpec => []HandedOverOnce
  <1>1. ForegroundInit => ReplyInit /\ OutInit BY DEF ForegroundInit
  <1>2. ForegroundNext => [ReplyNext]_replyVars /\ [OutNext]_outVars BY DEF ForegroundNext
  <1>3. UNCHANGED foreVars => UNCHANGED replyVars /\ UNCHANGED outVars BY DEF foreVars
  <1>4. [ForegroundNext]_foreVars => [ReplyNext]_replyVars /\ [OutNext]_outVars
    BY <1>2, <1>3
  <1>5. ForegroundSpec => ReplySpec /\ OutSpec
    BY <1>1, <1>4, PTL DEF ForegroundSpec, ReplySpec, OutSpec
  <1>6. NothingTwiceNothingMissing /\ SendsAreKept => HandedOverOnce BY DEF HandedOverOnce
  <1> QED BY <1>5, <1>6, RepliesArrive, SendsArrive, PTL

===============================================================================
