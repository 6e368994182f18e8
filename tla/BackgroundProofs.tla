-------------------------- MODULE BackgroundProofs ---------------------------
(***************************************************************************)
(* Of what goes on without the user: the spin lock of the files, the       *)
(* chains of the colleagues' mail, a request to the model, the reminders   *)
(* and the heartbeat.  They share no state, and each part below is about   *)
(* one of them alone.                                                      *)
(***************************************************************************)
EXTENDS MCBackground, TaskSchedulerProofs, WellFoundedInduction

(***************************************************************************)
(* The spin lock of the files is exclusive until a living holder's file is *)
(* taken away, for any number of processes, files and deaths.              *)
(***************************************************************************)
\* A holder has made a file, no two processes the same, and the file at the
\* lock's path has been made by now.
OwnFiles ==
  /\ lockFile <= filesMade
  /\ \A p \in Lockers : mine[p] <= filesMade
  /\ \A p \in SpinHolders : mine[p] # 0
  /\ \A p, q \in Lockers : mine[p] = mine[q] /\ mine[p] # 0 => p = q

\* Until a living holder's file is taken away it stands at the lock's path.
HoldersFileStands == excuses = {} => \A p \in SpinHolders : lockFile = mine[p]

SpinInv == SpinTypeOK /\ OwnFiles /\ HoldersFileStands

\* The exclusion asked for follows: holders have different files, and one path.
LEMMA InvariantIsExclusive == SpinInv => SpinExclusive
  BY DEF SpinInv, OwnFiles, HoldersFileStands, SpinExclusive, SpinHolders

\* No file, no holder.
LEMMA SpinInitially == SpinInit => SpinInv
  BY SpinAssumption
  DEF SpinInit, SpinInv, SpinTypeOK, OwnFiles, HoldersFileStands, SpinHolders, LockFiles

\* Whoever unlinks the path takes no holder's file but its own, unless an excuse
\* is written down.
LEMMA UnlinkIsExcused ==
  ASSUME SpinInv, NEW p \in Lockers, NEW f, excuses \cup Wronged(p, f) = {}
  PROVE  SpinHolders \ {p} = {}
  <1>1. excuses = {} /\ Wronged(p, f) = {} OBVIOUS
  <1>2. SUFFICES ASSUME NEW q \in SpinHolders \ {p} PROVE FALSE OBVIOUS
  <1>3. q \in Lockers /\ spinning[q] \in {"stamping", "inside"} BY DEF SpinHolders
  <1>4. lockFile = mine[q] /\ mine[q] # 0
    BY <1>1 DEF SpinInv, OwnFiles, HoldersFileStands
  <1>5. Wronged(p, f) # {} BY <1>3, <1>4 DEF Wronged
  <1> QED BY <1>1, <1>5

\* Every step keeps every variable in its domain.
LEMMA SpinTypeStep == SpinInv /\ [SpinNext]_spinVars => SpinTypeOK'
  <1> SUFFICES ASSUME SpinInv, [SpinNext]_spinVars PROVE SpinTypeOK' OBVIOUS
  <1> USE SpinAssumption DEF SpinInv, SpinTypeOK, LockFiles
  <1>1. ASSUME NEW p \in Lockers, SpinMakes(p) PROVE SpinTypeOK'
    BY <1>1 DEF SpinMakes, SpinAt
  <1>2. ASSUME NEW p \in Lockers, SpinStamps(p) PROVE SpinTypeOK'
    <2>1. mine[p] \in LockFiles
      BY <1>2 DEF SpinStamps, OwnFiles, SpinHolders
    <2> QED BY <1>2, <2>1 DEF SpinStamps, SpinAt
  <1>3. ASSUME NEW p \in Lockers, SpinStampFails(p) PROVE SpinTypeOK'
    BY <1>3 DEF SpinStampFails, SpinAt
  <1>4. ASSUME NEW p \in Lockers, SpinOpens(p) PROVE SpinTypeOK'
    BY <1>4 DEF SpinOpens, SpinAt
  <1>5. ASSUME NEW p \in Lockers, SpinReads(p) PROVE SpinTypeOK'
    BY <1>5 DEF SpinReads, SpinAt
  <1>6. ASSUME NEW p \in Lockers, SpinRemoves(p) PROVE SpinTypeOK'
    BY <1>6 DEF SpinRemoves, SpinAt, Wronged
  <1>7. ASSUME NEW p \in Lockers, SpinLeaves(p) PROVE SpinTypeOK'
    BY <1>7 DEF SpinLeaves, SpinAt, Wronged
  <1>8. ASSUME NEW p \in Lockers, SpinDies(p) PROVE SpinTypeOK'
    BY <1>8 DEF SpinDies, SpinAt
  <1>9. ASSUME NEW f \in LockFiles, SpinAges(f) PROVE SpinTypeOK'
    BY <1>9 DEF SpinAges
  <1>10. CASE UNCHANGED spinVars BY <1>10 DEF spinVars
  <1> QED BY <1>1, <1>2, <1>3, <1>4, <1>5, <1>6, <1>7, <1>8, <1>9, <1>10 DEF SpinNext, SpinStep

\* Every step leaves each process a file of its own, and a holder's file, until
\* it is taken away, at the path.
LEMMA SpinFilesStep == SpinInv /\ [SpinNext]_spinVars => OwnFiles' /\ HoldersFileStands'
  <1> SUFFICES ASSUME SpinInv, [SpinNext]_spinVars PROVE OwnFiles' /\ HoldersFileStands' OBVIOUS
  <1> USE SpinAssumption DEF SpinTypeOK, OwnFiles, HoldersFileStands, SpinHolders
  <1>1. ASSUME NEW p \in Lockers, SpinMakes(p) PROVE OwnFiles' /\ HoldersFileStands'
    <2>1. excuses = {} => SpinHolders = {} BY <1>1 DEF SpinInv, SpinMakes
    <2>2. filesMade' = filesMade + 1 /\ lockFile' = filesMade + 1
          /\ mine' = [mine EXCEPT ![p] = filesMade + 1]
          /\ spinning' = [spinning EXCEPT ![p] = "stamping"] /\ excuses' = excuses
      BY <1>1 DEF SpinMakes, SpinAt
    <2>3. OwnFiles' BY <2>2 DEF SpinInv
    <2>4. HoldersFileStands' BY <2>1, <2>2 DEF SpinInv
    <2> QED BY <2>3, <2>4
  <1>2. ASSUME NEW p \in Lockers, SpinStamps(p) PROVE OwnFiles' /\ HoldersFileStands'
    BY <1>2 DEF SpinInv, SpinStamps, SpinAt
  <1>3. ASSUME NEW p \in Lockers, SpinStampFails(p) \/ SpinOpens(p) \/ SpinReads(p) \/ SpinDies(p)
        PROVE OwnFiles' /\ HoldersFileStands'
    <2>1. UNCHANGED <<lockFile, filesMade, mine, excuses>>
      BY <1>3 DEF SpinStampFails, SpinOpens, SpinReads, SpinDies
    <2>2. SpinHolders' \subseteq SpinHolders
      BY <1>3 DEF SpinStampFails, SpinOpens, SpinReads, SpinDies, SpinAt, SpinInv
    <2> QED BY <2>1, <2>2 DEF SpinInv
  <1>4. ASSUME NEW p \in Lockers, SpinRemoves(p) \/ SpinLeaves(p) PROVE OwnFiles' /\ HoldersFileStands'
    <2>1. lockFile' = 0 /\ UNCHANGED <<filesMade, mine>> /\ SpinHolders' \subseteq SpinHolders \ {p}
      BY <1>4 DEF SpinRemoves, SpinLeaves, SpinAt, SpinInv
    <2>2. OwnFiles' BY <2>1 DEF SpinInv
    <2>3. \E f : excuses' = excuses \cup Wronged(p, f) BY <1>4 DEF SpinRemoves, SpinLeaves
    <2>4. excuses' = {} => SpinHolders' = {} BY <2>1, <2>3, UnlinkIsExcused
    <2> QED BY <2>2, <2>4
  <1>5. ASSUME NEW f \in LockFiles, SpinAges(f) PROVE OwnFiles' /\ HoldersFileStands'
    BY <1>5 DEF SpinInv, SpinAges
  <1>6. CASE UNCHANGED spinVars BY <1>6 DEF SpinInv, spinVars
  <1> QED BY <1>1, <1>2, <1>3, <1>4, <1>5, <1>6 DEF SpinNext, SpinStep

\* In every behaviour of the lock every variable keeps to its domain.
THEOREM SpinTypeCorrect == SpinSpec => []SpinTypeOK
  <1>1. SpinInv /\ [SpinNext]_spinVars => SpinInv'
    BY SpinTypeStep, SpinFilesStep DEF SpinInv
  <1>2. SpinInv => SpinTypeOK BY DEF SpinInv
  <1> QED BY SpinInitially, <1>1, <1>2, PTL DEF SpinSpec

\* withExclusiveFileLock: two processes are inside at once only after the file of
\* a living holder was unlinked, in one of the ways SpinExclusive names.
THEOREM SpinIsExclusive == SpinSpec => []SpinExclusive
  <1>1. SpinInv /\ [SpinNext]_spinVars => SpinInv'
    BY SpinTypeStep, SpinFilesStep DEF SpinInv
  <1> QED BY SpinInitially, <1>1, InvariantIsExclusive, PTL DEF SpinSpec

(***************************************************************************)
(* Work the colleagues pass on does not go round, for any staff, any       *)
(* number of letters and any MAX_MAIL_CHAIN.  Nothing of the workers is    *)
(* needed: what a letter's state is when it is passed on makes no          *)
(* difference to the chains.                                               *)
(***************************************************************************)
\* The books have a page for each letter.
BooksKept ==
  /\ letters \in 0..NumLetters
  /\ sender \in [Letters -> Staff \cup {Xiaoye}] /\ addressee \in [Letters -> Staff \cup {Xiaoye}]
  /\ mailChain = [m \in Letters |-> mailChain[m]] /\ trueChain = [m \in Letters |-> trueChain[m]]
  /\ nested \cup strayed \subseteq 1..letters

\* Where no newer letter was taken for the one worked on, the chain a letter
\* carries is the one it came through.
ChainsAreTrue == \A m \in Letters \ strayed : mailChain[m] = trueChain[m]

MailInv == BooksKept /\ ChainsAreTrue /\ NoPingPong

\* No letter was written.
LEMMA MailInitially == MailInit => MailInv
  BY MailChainAssumption
  DEF MailInit, MailInv, BooksKept, ChainsAreTrue, NoPingPong, Letters

\* A letter keeps the invariant if its chain is the parent's with its sender, and
\* one that is passed on, and no question, is checked against it.
LEMMA WritingKeeps ==
  ASSUME MailInv, NEW from \in Staff \cup {Xiaoye}, NEW to \in Staff, NEW isAsk \in BOOLEAN,
         NEW chain, NEW work \in {0} \cup Letters, NEW parent,
         Writes(from, to, isAsk, chain, work, parent),
         work = 0 => from = Xiaoye /\ chain = <<>>,
         work # 0 => chain = NextMailChain(mailChain[parent], from),
         from # Xiaoye /\ ~isAsk => MayPassOn(to, chain)
  PROVE  MailInv'
  <1> DEFINE m == letters + 1
  <1> USE MailChainAssumption DEF MailInv, Letters
  <1>1. m \in Letters /\ letters' = m /\ m \notin strayed /\ m \notin nested
    BY DEF BooksKept, Writes
  <1>2. /\ sender' = [sender EXCEPT ![m] = from] /\ addressee' = [addressee EXCEPT ![m] = to]
        /\ nested' = IF isAsk THEN nested \cup {m} ELSE nested
        /\ mailChain' = [mailChain EXCEPT ![m] = chain]
        /\ trueChain' = [trueChain EXCEPT ![m] = IF work = 0 THEN <<>>
                                                 ELSE Append(trueChain[work], from)]
        /\ strayed' = IF work # parent \/ work \in strayed THEN strayed \cup {m} ELSE strayed
    BY <1>1 DEF Writes
  <1>3. BooksKept'
    <2>1. letters' \in 0..NumLetters BY <1>1
    <2>2. /\ sender' \in [Letters -> Staff \cup {Xiaoye}]
          /\ addressee' \in [Letters -> Staff \cup {Xiaoye}]
      BY <1>2 DEF BooksKept
    <2>3. mailChain' = [k \in Letters |-> mailChain'[k]]
      BY <1>1, <1>2 DEF BooksKept
    <2>4. trueChain' = [k \in Letters |-> trueChain'[k]]
      BY <1>1, <1>2 DEF BooksKept
    <2>5. nested' \cup strayed' \subseteq 1..letters' BY <1>1, <1>2 DEF BooksKept
    <2> QED BY <2>1, <2>2, <2>3, <2>4, <2>5 DEF BooksKept
  <1>4. mailChain'[m] = chain /\ sender'[m] = from /\ addressee'[m] = to
        /\ trueChain'[m] = IF work = 0 THEN <<>> ELSE Append(trueChain[work], from)
    BY <1>1, <1>2 DEF BooksKept
  <1>5. m \notin strayed' => chain = trueChain'[m]
    <2>1. CASE work = 0 BY <1>4, <2>1
    <2>2. CASE work # 0
      <3>1. SUFFICES ASSUME m \notin strayed' PROVE chain = trueChain'[m] OBVIOUS
      <3>2. work = parent /\ work \notin strayed BY <1>2, <3>1
      <3>3. mailChain[work] = trueChain[work] BY <2>2, <3>2 DEF ChainsAreTrue
      <3> QED BY <1>4, <2>2, <3>2, <3>3 DEF NextMailChain
    <2> QED BY <2>1, <2>2
  <1>6. ASSUME NEW k \in Letters, k # m
        PROVE  /\ mailChain'[k] = mailChain[k] /\ trueChain'[k] = trueChain[k]
               /\ sender'[k] = sender[k] /\ addressee'[k] = addressee[k]
               /\ (k \in strayed' <=> k \in strayed) /\ (k \in nested' <=> k \in nested)
    BY <1>1, <1>2, <1>6 DEF BooksKept
  <1>7. ChainsAreTrue' BY <1>1, <1>4, <1>5, <1>6 DEF ChainsAreTrue
  <1>8. NoPingPong'
    <2>1. ASSUME NEW k \in 1..letters, sender'[k] # Xiaoye, k \notin nested' \cup strayed'
          PROVE  addressee'[k] \notin ToSet(trueChain'[k]) /\ Len(trueChain'[k]) <= MaxMailChain
      <3>1. k \in Letters /\ k # m BY DEF BooksKept
      <3> QED BY <1>6, <2>1, <3>1 DEF NoPingPong
    <2>2. ASSUME from # Xiaoye, m \notin nested' \cup strayed'
          PROVE  to \notin ToSet(trueChain'[m]) /\ Len(trueChain'[m]) <= MaxMailChain
      BY <1>2, <1>5, <2>2 DEF MayPassOn
    <2>3. 1..letters' = (1..letters) \cup {m} BY <1>1 DEF BooksKept
    <2> QED BY <1>4, <2>1, <2>2, <2>3 DEF NoPingPong
  <1> QED BY <1>3, <1>7, <1>8

\* What a worker and a waiter do leaves the envelopes alone.
LEMMA EnvelopeKept == MailInv /\ UNCHANGED envelope => MailInv'
  BY DEF MailInv, BooksKept, ChainsAreTrue, NoPingPong, envelope

\* Each step writes a letter, which WritingKeeps covers, or leaves the envelopes alone.
LEMMA MailStep == MailInv /\ [MailNext]_mailVars => MailInv'
  <1> SUFFICES ASSUME MailInv, [MailNext]_mailVars PROVE MailInv' OBVIOUS
  <1>1. ASSUME NEW c \in Staff, Delegate(c) PROVE MailInv'
    <2>1. Writes(Xiaoye, c, FALSE, <<>>, 0, 0) BY <1>1 DEF Delegate
    <2> QED BY <2>1, WritingKeeps
  <1>2. ASSUME NEW c \in Staff, NEW to \in Staff, NEW work \in Letters,
               SendFrom(c, to, work) \/ AskColleague(c, to, work)
        PROVE  MailInv'
    <2> DEFINE chain == NextMailChain(mailChain[CallerMail(c)], c)
    <2>1. work # 0 BY DEF Letters
    <2>2. CASE SendFrom(c, to, work)
      <3>1. Writes(c, to, FALSE, chain, work, CallerMail(c)) /\ MayPassOn(to, chain)
        BY <2>2 DEF SendFrom
      <3> QED BY <2>1, <3>1, WritingKeeps
    <2>3. CASE AskColleague(c, to, work)
      <3>1. Writes(c, to, TRUE, chain, work, CallerMail(c)) BY <2>3 DEF AskColleague
      <3> QED BY <2>1, <3>1, WritingKeeps
    <2> QED BY <1>2, <2>2, <2>3
  <1>3. ASSUME NEW c \in Staff,
               \/ WorkerTakes(c) \/ AskReturns(c) \/ AskGivesUp(c) \/ ChatTimesOut(c)
               \/ \E outcome \in {"done", "failed"} : MailSettles(c, outcome)
        PROVE  MailInv'
    <2>1. UNCHANGED envelope
      BY <1>3 DEF WorkerTakes, AskReturns, AskGivesUp, ChatTimesOut, MailSettles
    <2> QED BY <2>1, EnvelopeKept
  <1>4. CASE UNCHANGED mailVars BY <1>4, EnvelopeKept DEF mailVars, envelope
  <1> QED BY <1>1, <1>2, <1>3, <1>4 DEF MailNext, ColleagueStep

\* #assertSendChain: a letter that is passed on never reaches a colleague it has
\* come through, nor comes through more than MAX_MAIL_CHAIN of them, unless
\* #callerMail took a newer letter for the one that was worked on.
THEOREM MailNeverGoesRound == MailSpec => []NoPingPong
  <1>1. MailInv => NoPingPong BY DEF MailInv
  <1> QED BY MailInitially, MailStep, <1>1, PTL DEF MailSpec

(***************************************************************************)
(* The letters' domains.                                                   *)
(***************************************************************************)
\* Only a letter that was written has a status, and each chain is of colleagues.
LettersTyped ==
  /\ status \in [Letters -> {"none", "queued", "running", "done", "failed"}]
  /\ \A m \in Letters : status[m] # "none" => m <= letters
  /\ \A m \in Letters : {mailChain[m], trueChain[m]} \subseteq Seq(Staff)
  /\ awaits \in [Staff -> {0} \cup Letters]

MailDomains == BooksKept /\ LettersTyped

\* They are what the type invariant asks for.
LEMMA MailDomainsAreTypes == MailDomains => MailTypeOK
  <1> SUFFICES ASSUME MailDomains PROVE MailTypeOK OBVIOUS
  <1>1. nested \cup strayed \subseteq Letters
    BY MailChainAssumption DEF MailDomains, BooksKept, Letters
  <1> QED BY <1>1 DEF MailDomains, BooksKept, LettersTyped, MailTypeOK

\* A set of letters has a last one.
LEMMA LastLetter ==
  ASSUME NEW S, S \subseteq Letters, S # {}
  PROVE  \E m \in S : \A k \in S : k <= m
  <1> DEFINE After == {n \in Nat : \E m \in S : n = NumLetters - m}
  <1> USE MailChainAssumption DEF Letters
  <1>1. PICK x \in S : TRUE OBVIOUS
  <1>2. NumLetters - x \in After BY <1>1
  <1> HIDE DEF After
  <1>3. After \subseteq Nat BY DEF After
  <1>4. PICK n \in After : \A k \in After : ~(<<k, n>> \in OpToRel(<, Nat))
    BY <1>2, <1>3, NatLessThanWellFounded, WFMin
  <1>5. \A k \in After : ~(k < n) BY <1>3, <1>4 DEF OpToRel
  <1>6. PICK m \in S : n = NumLetters - m BY DEF After
  <1>7. ASSUME NEW k \in S PROVE k <= m
    <2>1. NumLetters - k \in After BY DEF After
    <2> QED BY <1>5, <1>6, <2>1
  <1> QED BY <1>7

\* #callerMail finds a letter while its colleague works on one.
LEMMA CallerHasMail ==
  ASSUME MailDomains, NEW c \in Staff, NEW work \in Letters, WorksOn(c, work)
  PROVE  CallerMail(c) \in Letters
  <1> DEFINE S == Mailbox(c) \cap Open
  <1>1. work \in S
    <2>1. work \in 1..letters
      BY MailChainAssumption DEF MailDomains, LettersTyped, BooksKept, Letters, WorksOn
    <2> QED BY <2>1 DEF Mailbox, Open, WorksOn
  <1>2. S \subseteq Letters BY DEF Open
  <1>3. \E m \in S : \A k \in S : k <= m BY <1>1, <1>2, LastLetter
  <1>4. CallerMail(c) \in S BY <1>3 DEF CallerMail
  <1> QED BY <1>2, <1>4

\* A letter that is written keeps to the domains.
LEMMA WritingIsTyped ==
  ASSUME MailDomains, NEW from \in Staff \cup {Xiaoye}, NEW to \in Staff, NEW isAsk \in BOOLEAN,
         NEW chain \in Seq(Staff), NEW work \in {0} \cup Letters, NEW parent,
         Writes(from, to, isAsk, chain, work, parent), work # 0 => from \in Staff,
         awaits' \in [Staff -> {0} \cup Letters]
  PROVE  MailDomains'
  <1> DEFINE m == letters + 1
  <1>0. BooksKept /\ LettersTyped BY DEF MailDomains
  <1>1. m \in Letters /\ letters' = m /\ letters \in Nat
    BY <1>0, MailChainAssumption DEF BooksKept, Writes, Letters
  <1>2. /\ sender' = [sender EXCEPT ![m] = from] /\ addressee' = [addressee EXCEPT ![m] = to]
        /\ status' = [status EXCEPT ![m] = "queued"]
        /\ nested' = IF isAsk THEN nested \cup {m} ELSE nested
        /\ mailChain' = [mailChain EXCEPT ![m] = chain]
        /\ trueChain' = [trueChain EXCEPT ![m] = IF work = 0 THEN <<>>
                                                 ELSE Append(trueChain[work], from)]
        /\ strayed' = IF work # parent \/ work \in strayed THEN strayed \cup {m} ELSE strayed
    BY DEF Writes
  <1> HIDE DEF m
  <1>3. letters' \in 0..NumLetters BY <1>1, MailChainAssumption DEF Letters
  <1>4. /\ sender' \in [Letters -> Staff \cup {Xiaoye}]
        /\ addressee' \in [Letters -> Staff \cup {Xiaoye}]
    BY <1>0, <1>2 DEF BooksKept
  <1>5. \A k \in Letters :
          /\ mailChain'[k] = IF k = m THEN chain ELSE mailChain[k]
          /\ trueChain'[k] = IF k # m THEN trueChain[k]
                             ELSE IF work = 0 THEN <<>> ELSE Append(trueChain[work], from)
    BY <1>0, <1>2 DEF BooksKept
  <1>6. /\ mailChain' = [k \in Letters |-> mailChain'[k]]
        /\ trueChain' = [k \in Letters |-> trueChain'[k]]
    <2>1. mailChain' = [k \in Letters |-> mailChain'[k]] BY <1>0, <1>2 DEF BooksKept
    <2>2. trueChain' = [k \in Letters |-> trueChain'[k]] BY <1>0, <1>2 DEF BooksKept
    <2> QED BY <2>1, <2>2
  <1>7. nested' \cup strayed' \subseteq 1..letters'
    <2>1. nested \cup strayed \subseteq 1..letters BY <1>0 DEF BooksKept
    <2>2. nested' \cup strayed' \subseteq nested \cup strayed \cup {m} BY <1>2
    <2>3. 1..letters \cup {m} \subseteq 1..letters' BY <1>1 DEF m
    <2> QED BY <2>1, <2>2, <2>3
  <1>8. status' \in [Letters -> {"none", "queued", "running", "done", "failed"}]
    BY <1>0, <1>2 DEF LettersTyped
  <1>9. \A k \in Letters : status'[k] # "none" => k <= letters'
    BY <1>0, <1>1, <1>2 DEF LettersTyped, Letters, m
  <1>10. \A k \in Letters : {mailChain'[k], trueChain'[k]} \subseteq Seq(Staff)
    <2>1. work # 0 => Append(trueChain[work], from) \in Seq(Staff)
      <3> SUFFICES ASSUME work # 0 PROVE Append(trueChain[work], from) \in Seq(Staff) OBVIOUS
      <3>1. trueChain[work] \in Seq(Staff) /\ from \in Staff BY <1>0 DEF LettersTyped
      <3> QED BY <3>1
    <2>2. <<>> \in Seq(Staff) OBVIOUS
    <2> QED BY <1>0, <1>5, <2>1, <2>2 DEF LettersTyped
  <1> QED BY <1>3, <1>4, <1>6, <1>7, <1>8, <1>9, <1>10 DEF MailDomains, BooksKept, LettersTyped

\* What workers and waiters do keeps to the domains.
LEMMA WorkIsTyped ==
  ASSUME MailDomains, UNCHANGED envelope, awaits' \in [Staff -> {0} \cup Letters],
         status' \in [Letters -> {"none", "queued", "running", "done", "failed"}],
         \A m \in Letters : status[m] = "none" => status'[m] = "none"
  PROVE  MailDomains'
  <1>1. UNCHANGED <<letters, sender, addressee, nested, mailChain, trueChain, strayed>>
    BY DEF envelope
  <1>2. BooksKept' BY <1>1 DEF MailDomains, BooksKept
  <1>3. LettersTyped' BY <1>1 DEF MailDomains, LettersTyped
  <1> QED BY <1>2, <1>3 DEF MailDomains

\* A letter of a mailbox is one.
LEMMA FirstQueued ==
  ASSUME MailDomains, NEW c \in Staff, {m \in Mailbox(c) : status[m] = "queued"} # {}
  PROVE  LET queued == {m \in Mailbox(c) : status[m] = "queued"}
         IN  (CHOOSE m \in queued : \A k \in queued : m <= k) \in queued /\ queued \subseteq Letters
  <1> DEFINE queued == {m \in Mailbox(c) : status[m] = "queued"}
  <1>1. queued \subseteq Letters
    BY MailChainAssumption DEF Mailbox, MailDomains, BooksKept, Letters
  <1>2. queued \subseteq Nat BY <1>1, MailChainAssumption DEF Letters
  <1> HIDE DEF queued
  <1>3. PICK m \in queued : \A n \in queued : ~(<<n, m>> \in OpToRel(<, Nat))
    BY <1>2, NatLessThanWellFounded, WFMin DEF queued
  <1>4. \A n \in queued : ~(n < m) BY <1>2, <1>3 DEF OpToRel
  <1>5. \A n \in queued : m <= n BY <1>2, <1>4
  <1>6. (CHOOSE k \in queued : \A n \in queued : k <= n) \in queued BY <1>5
  <1> QED BY <1>1, <1>6 DEF queued

\* Every step of the mail keeps the domains.
LEMMA MailTypeStep == MailDomains /\ [MailNext]_mailVars => MailDomains'
  <1> SUFFICES ASSUME MailDomains, [MailNext]_mailVars PROVE MailDomains' OBVIOUS
  <1>0. BooksKept /\ LettersTyped BY DEF MailDomains
  <1>1. ASSUME NEW c \in Staff, Delegate(c) PROVE MailDomains'
    <2>1. Writes(Xiaoye, c, FALSE, <<>>, 0, 0) /\ UNCHANGED awaits BY <1>1 DEF Delegate
    <2>2. awaits' \in [Staff -> {0} \cup Letters] BY <1>0, <2>1 DEF LettersTyped
    <2>3. <<>> \in Seq(Staff) OBVIOUS
    <2> QED BY <2>1, <2>2, <2>3, WritingIsTyped
  <1>2. ASSUME NEW c \in Staff, NEW to \in Staff, NEW work \in Letters,
               SendFrom(c, to, work) \/ AskColleague(c, to, work)
        PROVE  MailDomains'
    <2> DEFINE chain == NextMailChain(mailChain[CallerMail(c)], c)
    <2>1. MayWrite(c, to, work) BY <1>2 DEF SendFrom, AskColleague
    <2>2. CallerMail(c) \in Letters BY <2>1, CallerHasMail DEF MayWrite
    <2>3. chain \in Seq(Staff)
      <3>1. mailChain[CallerMail(c)] \in Seq(Staff) BY <1>0, <2>2 DEF LettersTyped
      <3> QED BY <3>1 DEF NextMailChain
    <2> HIDE DEF chain
    <2>4. PICK isAsk \in BOOLEAN : Writes(c, to, isAsk, chain, work, CallerMail(c))
      BY <1>2 DEF SendFrom, AskColleague, chain
    <2>5. awaits' \in [Staff -> {0} \cup Letters]
      <3>1. letters + 1 \in Letters
        BY <1>0, <2>4, MailChainAssumption DEF Writes, BooksKept, Letters
      <3>2. awaits' = awaits \/ awaits' = [awaits EXCEPT ![c] = letters + 1]
        BY <1>2 DEF SendFrom, AskColleague
      <3> QED BY <1>0, <3>1, <3>2 DEF LettersTyped
    <2> QED BY <2>3, <2>4, <2>5, WritingIsTyped
  <1>3. ASSUME NEW c \in Staff, WorkerTakes(c) PROVE MailDomains'
    <2> DEFINE queued == {m \in Mailbox(c) : status[m] = "queued"}
    <2>1. PICK m \in queued : status' = [status EXCEPT ![m] = "running"]
      BY <1>3, FirstQueued DEF WorkerTakes
    <2>2. status[m] = "queued" /\ UNCHANGED <<envelope, awaits>> BY <1>3 DEF WorkerTakes
    <2> HIDE DEF queued
    <2> QED BY <1>0, <2>1, <2>2, WorkIsTyped DEF LettersTyped
  <1>4. ASSUME NEW c \in Staff, AskReturns(c) \/ AskGivesUp(c) PROVE MailDomains'
    BY <1>0, <1>4, WorkIsTyped DEF AskReturns, AskGivesUp, LettersTyped
  <1>5. ASSUME NEW c \in Staff, NEW outcome \in {"done", "failed"}, MailSettles(c, outcome)
        PROVE  MailDomains'
    <2>1. PICK m \in Letters : /\ status[m] = "running" /\ status' = [status EXCEPT ![m] = outcome]
                               /\ UNCHANGED <<envelope, awaits>>
      BY <1>5 DEF MailSettles, WorksOn
    <2> QED BY <1>0, <2>1, WorkIsTyped DEF LettersTyped
  <1>6. ASSUME NEW c \in Staff, ChatTimesOut(c) PROVE MailDomains'
    <2>1. PICK m \in Letters : /\ status[m] = "running" /\ status' = [status EXCEPT ![m] = "failed"]
                               /\ awaits' = [awaits EXCEPT ![c] = 0]
                               /\ UNCHANGED envelope
      BY <1>6 DEF ChatTimesOut, WorksOn
    <2> QED BY <1>0, <2>1, WorkIsTyped DEF LettersTyped
  <1>7. CASE UNCHANGED mailVars
    <2>1. UNCHANGED <<envelope, status, awaits>> BY <1>7 DEF mailVars, envelope
    <2> QED BY <1>0, <2>1, WorkIsTyped DEF LettersTyped
  <1> QED BY <1>1, <1>2, <1>3, <1>4, <1>5, <1>6, <1>7 DEF MailNext, ColleagueStep

\* The mail's variables keep to their domains (MailTypeOK).
LEMMA MailIsTyped == MailSpec => []MailTypeOK
  <1>1. MailInit => MailDomains
    <2> SUFFICES ASSUME MailInit PROVE MailDomains OBVIOUS
    <2>1. BooksKept BY MailInitially DEF MailInv
    <2>2. LettersTyped BY DEF MailInit, LettersTyped
    <2> QED BY <2>1, <2>2 DEF MailDomains
  <1> QED BY <1>1, MailTypeStep, MailDomainsAreTypes, PTL DEF MailSpec

(***************************************************************************)
(* A request to the model passes on no piece of an answer twice, for any   *)
(* number of attempts and chunks.                                          *)
(***************************************************************************)
\* What was passed on is this attempt's chunks in order; what came before a retry
\* is nothing.
ThisAttemptOnly ==
  /\ gotChunk <=> chunk > 0
  /\ stream = "pausing" => ~gotChunk
  /\ ~lateRefusal => Len(passedOn) = chunk /\ \A i \in DOMAIN passedOn : passedOn[i] = i

\* The attempts are counted, the one without tool_choice included, and a pause is
\* followed by one that still may be made.
AttemptsCounted ==
  /\ choosing => attempt <= RetryAttempts
  /\ stream = "pausing" => attempt < RetryAttempts
  /\ requests <= attempt + 1

StreamInv == StreamTypeOK /\ ThisAttemptOnly /\ AttemptsCounted

\* Nothing was passed on.
LEMMA StreamInitially == StreamInit => StreamInv
  <1> SUFFICES ASSUME StreamInit PROVE StreamInv OBVIOUS
  <1> USE LlmStreamAssumption DEF StreamInit
  <1>1. StreamTypeOK
    <2>1. {choosing, gotChunk, userAborted, idleTimedOut, lateRefusal} \subseteq BOOLEAN OBVIOUS
    <2>2. attempt \in 0..(RetryAttempts + 1) /\ requests \in 1..(RetryAttempts + 2)
          /\ chunk \in 0..NumChunks /\ passedOn \in Seq(1..NumChunks)
      OBVIOUS
    <2> QED BY <2>1, <2>2 DEF StreamTypeOK
  <1>2. ThisAttemptOnly BY DEF ThisAttemptOnly
  <1>3. AttemptsCounted BY DEF AttemptsCounted
  <1> QED BY <1>1, <1>2, <1>3 DEF StreamInv

\* Another attempt, before whose predecessor's first chunk it is made, begins with
\* nothing passed on.
LEMMA AnotherAttempt ==
  ASSUME StreamInv, AsksAgain, UNCHANGED <<userAborted, passedOn>>,
         choosing' \in BOOLEAN, choosing' => choosing,
         (~choosing' /\ choosing) \/ attempt < RetryAttempts,
         lateRefusal' = (lateRefusal \/ gotChunk)
  PROVE  StreamInv'
  <1> USE LlmStreamAssumption DEF StreamInv, AsksAgain
  <1>1. StreamTypeOK'
    <2>1. {choosing', gotChunk', userAborted', idleTimedOut', lateRefusal'} \subseteq BOOLEAN
      BY DEF StreamTypeOK
    <2>2. attempt' \in 0..(RetryAttempts + 1) /\ requests' \in 1..(RetryAttempts + 2)
          /\ chunk' \in 0..NumChunks /\ passedOn' \in Seq(1..NumChunks)
      BY DEF StreamTypeOK, AttemptsCounted
    <2> QED BY <2>1, <2>2 DEF StreamTypeOK
  <1>2. ThisAttemptOnly'
    <2>1. chunk' = 0 /\ gotChunk' = FALSE /\ stream' = "asking" /\ passedOn' = passedOn
      OBVIOUS
    <2>2. ~lateRefusal' => ~lateRefusal /\ chunk = 0 BY DEF StreamTypeOK, ThisAttemptOnly
    <2> QED BY <2>1, <2>2 DEF StreamTypeOK, ThisAttemptOnly
  <1>3. AttemptsCounted' BY DEF StreamTypeOK, AttemptsCounted
  <1> QED BY <1>1, <1>2, <1>3

\* Each step passes on the next chunk of this attempt, or begins another one.
LEMMA StreamStep == StreamInv /\ [StreamNext]_streamVars => StreamInv'
  <1> SUFFICES ASSUME StreamInv, [StreamNext]_streamVars PROVE StreamInv' OBVIOUS
  <1> USE LlmStreamAssumption DEF StreamInv, StreamTypeOK
  <1>1. CASE ChunkComes
    <2>1. chunk' = chunk + 1 /\ chunk' \in 1..NumChunks /\ gotChunk' = TRUE
          /\ passedOn' = Append(passedOn, chunk')
          /\ stream' = "handing_on"
          /\ UNCHANGED <<attempt, choosing, userAborted, idleTimedOut, requests, lateRefusal>>
      BY <1>1 DEF ChunkComes
    <2>2. StreamTypeOK' BY <2>1
    <2>3. ThisAttemptOnly' BY <2>1 DEF ThisAttemptOnly
    <2>4. AttemptsCounted' BY <2>1 DEF AttemptsCounted
    <2> QED BY <2>2, <2>3, <2>4
  <1>2. CASE ChunkTaken BY <1>2 DEF ChunkTaken, ThisAttemptOnly, AttemptsCounted
  <1>3. CASE StreamEnds BY <1>3 DEF StreamEnds, ThisAttemptOnly, AttemptsCounted
  <1>4. CASE IdleTimeout BY <1>4 DEF IdleTimeout, ThisAttemptOnly, AttemptsCounted
  <1>5. CASE UserAborts BY <1>5 DEF UserAborts, ThisAttemptOnly, AttemptsCounted
  <1>6. ASSUME NEW refused \in BOOLEAN, NEW retryable \in BOOLEAN, AttemptFails(refused, retryable)
        PROVE  StreamInv'
    <2>1. CASE ~userAborted /\ choosing /\ refused
      <3>1. choosing' = FALSE /\ lateRefusal' = (lateRefusal \/ gotChunk) /\ AsksAgain
            /\ UNCHANGED <<userAborted, passedOn>>
        BY <1>6, <2>1 DEF AttemptFails
      <3> QED BY <2>1, <3>1, AnotherAttempt
    <2>2. CASE userAborted \/ ~(choosing /\ refused)
      <3>1. stream' = IF ~userAborted /\ MayRetry(retryable) THEN "pausing" ELSE "failed"
        BY <1>6, <2>2 DEF AttemptFails
      <3>2. UNCHANGED <<attempt, choosing, gotChunk, chunk, idleTimedOut, requests, lateRefusal,
                        userAborted, passedOn>>
        BY <1>6, <2>2 DEF AttemptFails
      <3>3. stream' = "pausing" => ~gotChunk /\ attempt < RetryAttempts BY <3>1 DEF MayRetry
      <3> QED BY <3>1, <3>2, <3>3 DEF ThisAttemptOnly, AttemptsCounted
    <2> QED BY <2>1, <2>2
  <1>7. CASE PauseEnds
    <2>1. stream = "pausing" /\ AsksAgain /\ UNCHANGED <<choosing, userAborted, passedOn, lateRefusal>>
      BY <1>7 DEF PauseEnds
    <2>2. ~gotChunk /\ attempt < RetryAttempts BY <2>1 DEF ThisAttemptOnly, AttemptsCounted
    <2> QED BY <2>1, <2>2, AnotherAttempt
  <1>8. CASE UNCHANGED streamVars BY <1>8 DEF streamVars, ThisAttemptOnly, AttemptsCounted
  <1> QED BY <1>1, <1>2, <1>3, <1>4, <1>5, <1>6, <1>7, <1>8 DEF StreamNext

\* In every behaviour every variable keeps to its domain; the attempts are at most
\* RetryAttempts + 2, the one without tool_choice being one of them.
THEOREM StreamTypeCorrect == StreamSpec => []StreamTypeOK
  <1>1. StreamInv => StreamTypeOK BY DEF StreamInv
  <1> QED BY StreamInitially, StreamStep, <1>1, PTL DEF StreamSpec

\* chatWithTimeoutAndRetry: the caller gets no piece of the answer twice and no
\* attempt's pieces behind another's, unless tool_choice is refused after a chunk.
THEOREM StreamNeverRepeats == StreamSpec => []NothingRepeated
  <1>1. StreamInv => NothingRepeated BY DEF StreamInv, ThisAttemptOnly, NothingRepeated
  <1> QED BY StreamInitially, StreamStep, <1>1, PTL DEF StreamSpec

(***************************************************************************)
(* A reminder is announced once, for any number of reminders and scans.    *)
(***************************************************************************)
\* The table, the scans and the books keep to their domains.
ReminderDomains ==
  /\ reminder \in [Reminders -> {"none", "ahead", "due", "done"}]
  /\ scanning \in [Scans -> {"none", "listing", "working"}]
  /\ listed \in [Scans -> SUBSET Reminders]
  /\ marking \in [Scans -> {0} \cup Reminders]
  /\ announced \in [Reminders -> Nat]
  /\ markLost \subseteq Reminders /\ scansOverlap \in BOOLEAN

\* Until two scans overlap, there is one; what it has listed and not come to is as it was
\* when it was listed, and what it marks is not in the list any more.
OneScan ==
  ~scansOverlap =>
    /\ \A s, o \in Scans : scanning[s] # "none" /\ scanning[o] # "none" => s = o
    /\ \A s \in Scans :
         /\ scanning[s] # "working" => listed[s] = {} /\ marking[s] = 0
         /\ marking[s] \notin listed[s]
         /\ marking[s] # 0 => reminder[marking[s]] # "done"
         /\ \A r \in listed[s] : reminder[r] # "done"

ReminderInv == ReminderDomains /\ OneScan /\ AnnouncedOnce

\* A scan takes a reminder of its list.
LEMMA FirstIsListed ==
  ASSUME NEW S, S \subseteq Reminders, S # {}
  PROVE  (CHOOSE r \in S : \A q \in S : r <= q) \in S
  <1>1. S \subseteq Nat BY ReminderAssumption DEF Reminders
  <1>2. PICK m \in S : \A n \in S : ~(<<n, m>> \in OpToRel(<, Nat))
    BY <1>1, NatLessThanWellFounded, WFMin
  <1>3. \A n \in S : ~(n < m) BY <1>1, <1>2 DEF OpToRel
  <1>4. \A n \in S : m <= n BY <1>1, <1>3
  <1> QED BY <1>4

\* Whatever a step does to the scans.
LEMMA ReminderStep == ReminderInv /\ [ReminderNext]_reminderVars => ReminderInv'
  <1> SUFFICES ASSUME ReminderInv, [ReminderNext]_reminderVars PROVE ReminderInv' OBVIOUS
  <1>0. ReminderDomains /\ OneScan /\ AnnouncedOnce BY DEF ReminderInv
  <1> HIDE DEF ReminderInv
  <1>z. 0 \notin Reminders BY ReminderAssumption DEF Reminders
  <1>1. CASE UNCHANGED reminderVars
    BY <1>0, <1>1 DEF reminderVars, ReminderInv, ReminderDomains, OneScan, AnnouncedOnce
  <1>2. ASSUME NEW r \in Reminders, NEW state \in {"ahead", "due"}, reminder[r] # "done",
               reminder' = [reminder EXCEPT ![r] = state],
               UNCHANGED <<scanning, listed, marking, announced, markLost, scansOverlap>>
        PROVE  ReminderInv'
    <2>1. /\ reminder'[r] = state /\ state # "done"
          /\ \A q \in Reminders : q # r => reminder'[q] = reminder[q]
      BY <1>0, <1>2 DEF ReminderDomains
    <2>2. ReminderDomains' BY <1>0, <1>2 DEF ReminderDomains
    <2>3. OneScan'
      <3>1. \A s \in Scans : listed[s] \subseteq Reminders /\ marking[s] \in {0} \cup Reminders
        BY <1>0 DEF ReminderDomains
      <3> QED BY <1>0, <1>2, <2>1, <3>1 DEF OneScan
    <2>4. AnnouncedOnce' BY <1>0, <1>2, <2>1 DEF AnnouncedOnce
    <2> QED BY <2>2, <2>3, <2>4 DEF ReminderInv
  <1>3. ASSUME NEW r \in Reminders, ReminderComesDue(r) PROVE ReminderInv'
    <2>1. /\ reminder[r] # "done" /\ reminder' = [reminder EXCEPT ![r] = "due"]
          /\ UNCHANGED <<scanning, listed, marking, announced, markLost, scansOverlap>>
      BY <1>3 DEF ReminderComesDue
    <2> QED BY <1>2, <2>1
  <1>4. ASSUME NEW r \in Reminders, NEW state \in {"ahead", "due"}, ReminderAdd(r, state)
        PROVE  ReminderInv'
    <2>1. /\ reminder[r] # "done" /\ reminder' = [reminder EXCEPT ![r] = state]
          /\ UNCHANGED <<scanning, listed, marking, announced, markLost, scansOverlap>>
      BY <1>4 DEF ReminderAdd
    <2> QED BY <1>2, <2>1
  <1>5. ASSUME NEW s \in Scans, ScanBegins(s) PROVE ReminderInv'
    <2>1. /\ scanning[s] = "none" /\ scanning' = [scanning EXCEPT ![s] = "listing"]
          /\ scansOverlap' = (scansOverlap \/ \E o \in Scans : scanning[o] # "none")
          /\ UNCHANGED <<reminder, listed, marking, announced, markLost>>
      BY <1>5 DEF ScanBegins
    <2>2. ReminderDomains' BY <1>0, <2>1 DEF ReminderDomains
    <2>3. OneScan' BY <1>0, <2>1 DEF OneScan, ReminderDomains
    <2>4. AnnouncedOnce' BY <1>0, <2>1 DEF AnnouncedOnce
    <2> QED BY <2>2, <2>3, <2>4 DEF ReminderInv
  <1>6. ASSUME NEW s \in Scans, NEW ok \in BOOLEAN, ScanLists(s, ok) PROVE ReminderInv'
    <2>1. PICK S \in SUBSET Reminders :
            /\ \A r \in S : reminder[r] = "due"
            /\ listed' = [listed EXCEPT ![s] = S]
      <3>1. CASE ok BY <1>6, <3>1 DEF ScanLists
      <3>2. CASE ~ok BY <1>6, <3>2 DEF ScanLists
      <3> QED BY <3>1, <3>2
    <2>2. /\ scanning[s] = "listing" /\ scanning' = [scanning EXCEPT ![s] = "working"]
          /\ UNCHANGED <<reminder, marking, announced, markLost, scansOverlap>>
      BY <1>6 DEF ScanLists
    <2>3. ReminderDomains' BY <1>0, <2>1, <2>2 DEF ReminderDomains
    <2>4. OneScan'
      <3> SUFFICES ASSUME ~scansOverlap
                   PROVE  OneScan'
        BY <2>2 DEF OneScan
      <3>1. /\ \A o \in Scans : scanning[o] # "none" => s = o
            /\ marking[s] = 0 /\ \A o \in Scans \ {s} : listed'[o] = listed[o]
            /\ \A o \in Scans \ {s} : scanning'[o] = scanning[o]
            /\ listed'[s] = S /\ scanning'[s] = "working"
        BY <1>0, <2>1, <2>2 DEF OneScan, ReminderDomains
      <3>2. 0 \notin S /\ \A r \in S : reminder[r] # "done" BY <1>z, <2>1
      <3> QED BY <1>0, <2>2, <3>1, <3>2 DEF OneScan
    <2>5. AnnouncedOnce' BY <1>0, <2>2 DEF AnnouncedOnce
    <2> QED BY <2>3, <2>4, <2>5 DEF ReminderInv
  <1>7. ASSUME NEW s \in Scans, ScanTakes(s) PROVE ReminderInv'
    <2>1. PICK r \in listed[s] :
            /\ marking' = [marking EXCEPT ![s] = r] /\ listed' = [listed EXCEPT ![s] = @ \ {r}]
      <3>1. listed[s] \subseteq Reminders /\ listed[s] # {}
        BY <1>0, <1>7 DEF ReminderDomains, ScanTakes
      <3> QED BY <1>7, <3>1, FirstIsListed DEF ScanTakes
    <2>2. /\ scanning[s] = "working"
          /\ UNCHANGED <<reminder, scanning, announced, markLost, scansOverlap>>
      BY <1>7 DEF ScanTakes
    <2>3. r \in Reminders BY <1>0, <2>1 DEF ReminderDomains
    <2>4. ReminderDomains' BY <1>0, <2>1, <2>2, <2>3 DEF ReminderDomains
    <2>5. OneScan'
      <3>1. /\ marking'[s] = r /\ listed'[s] = listed[s] \ {r}
            /\ \A o \in Scans \ {s} : marking'[o] = marking[o] /\ listed'[o] = listed[o]
        BY <1>0, <2>1 DEF ReminderDomains
      <3> QED BY <1>0, <2>1, <2>2, <3>1 DEF OneScan
    <2>6. AnnouncedOnce' BY <1>0, <2>2 DEF AnnouncedOnce
    <2> QED BY <2>4, <2>5, <2>6 DEF ReminderInv
  <1>8. ASSUME NEW s \in Scans, ScanEnds(s) PROVE ReminderInv'
    <2>1. /\ marking[s] = 0 /\ listed[s] = {} /\ scanning' = [scanning EXCEPT ![s] = "none"]
          /\ UNCHANGED <<reminder, listed, marking, announced, markLost, scansOverlap>>
      BY <1>8 DEF ScanEnds
    <2>2. ReminderDomains' BY <1>0, <2>1 DEF ReminderDomains
    <2>3. /\ scanning'[s] = "none"
          /\ \A o \in Scans \ {s} : scanning'[o] = scanning[o]
      BY <1>0, <2>1 DEF ReminderDomains
    <2>4. OneScan' BY <1>0, <2>1, <2>3 DEF OneScan
    <2>5. AnnouncedOnce' BY <1>0, <2>1 DEF AnnouncedOnce
    <2> QED BY <2>2, <2>4, <2>5 DEF ReminderInv
  <1>9. ASSUME NEW s \in Scans, NEW written \in BOOLEAN, NEW answered \in BOOLEAN,
               answered => written, ScanMarks(s, written, answered)
        PROVE  ReminderInv'
    <2>1. PICK r \in Reminders : r = marking[s]
      BY <1>0, <1>9 DEF ScanMarks, ReminderDomains
    <2>2. /\ reminder' = IF written THEN [reminder EXCEPT ![r] = "done"] ELSE reminder
          /\ announced' = IF answered THEN [announced EXCEPT ![r] = @ + 1] ELSE announced
          /\ markLost' = IF written /\ ~answered THEN markLost \cup {r} ELSE markLost
          /\ marking' = [marking EXCEPT ![s] = 0]
          /\ UNCHANGED <<scanning, listed, scansOverlap>>
      BY <1>9, <2>1 DEF ScanMarks
    <2>3. /\ \A q \in Reminders \ {r} : reminder'[q] = reminder[q] /\ announced'[q] = announced[q]
          /\ reminder'[r] = IF written THEN "done" ELSE reminder[r]
          /\ announced'[r] = IF answered THEN announced[r] + 1 ELSE announced[r]
          /\ marking'[s] = 0 /\ \A o \in Scans \ {s} : marking'[o] = marking[o]
          /\ announced[r] \in Nat
      BY <1>0, <2>2 DEF ReminderDomains
    <2>4. ReminderDomains'
      <3>1. reminder' \in [Reminders -> {"none", "ahead", "due", "done"}]
        BY <1>0, <2>2 DEF ReminderDomains
      <3>2. announced' \in [Reminders -> Nat] BY <1>0, <2>2 DEF ReminderDomains
      <3>3. marking' \in [Scans -> {0} \cup Reminders] BY <1>0, <2>2 DEF ReminderDomains
      <3> QED BY <1>0, <2>2, <3>1, <3>2, <3>3 DEF ReminderDomains
    <2>5. OneScan'
      <3> SUFFICES ASSUME ~scansOverlap PROVE OneScan' BY <2>2 DEF OneScan
      <3>1. scanning[s] = "working" /\ r \notin listed[s] /\ 0 \notin listed[s]
        BY <1>0, <1>z, <2>1 DEF OneScan, ReminderDomains
      <3>2. \A o \in Scans \ {s} : listed[o] = {} /\ marking[o] = 0
        BY <1>0, <3>1 DEF OneScan
      <3>3. \A q \in listed[s] : q \in Reminders \ {r} BY <1>0, <3>1 DEF ReminderDomains
      <3> QED BY <1>0, <2>2, <2>3, <3>1, <3>2, <3>3 DEF OneScan
    <2>6. AnnouncedOnce'
      <3>1. ~scansOverlap => reminder[r] # "done" BY <1>0, <1>z, <2>1 DEF OneScan
      <3> SUFFICES ASSUME NEW q \in Reminders
                   PROVE  /\ reminder'[q] = "done" => announced'[q] >= 1 \/ q \in markLost'
                          /\ reminder'[q] # "done" => announced'[q] = 0
                          /\ scansOverlap' \/ announced'[q] <= 1
        BY DEF AnnouncedOnce
      <3>2. /\ reminder[q] = "done" => announced[q] >= 1 \/ q \in markLost
            /\ reminder[q] # "done" => announced[q] = 0
            /\ scansOverlap \/ announced[q] <= 1
        BY <1>0 DEF AnnouncedOnce
      <3>3. CASE q # r BY <2>2, <2>3, <3>2, <3>3
      <3>4. CASE q = r BY <1>9, <2>2, <2>3, <3>1, <3>2, <3>4
      <3> QED BY <3>3, <3>4
    <2> QED BY <2>4, <2>5, <2>6 DEF ReminderInv
  <1>10. ASSUME NEW marked \in SUBSET Reminders, ReminderRestart(marked) PROVE ReminderInv'
    <2>1. /\ reminder' = [r \in Reminders |-> IF r \in marked THEN "done" ELSE reminder[r]]
          /\ markLost' = markLost \cup marked
          /\ scanning' = [s \in Scans |-> "none"] /\ listed' = [s \in Scans |-> {}]
          /\ marking' = [s \in Scans |-> 0]
          /\ UNCHANGED <<announced, scansOverlap>>
      BY <1>10 DEF ReminderRestart
    <2>2. ReminderDomains' BY <1>0, <2>1 DEF ReminderDomains
    <2>3. OneScan' BY <2>1 DEF OneScan
    <2>4. AnnouncedOnce' BY <1>0, <2>1 DEF AnnouncedOnce
    <2> QED BY <2>2, <2>3, <2>4 DEF ReminderInv
  <1>11. ASSUME NEW s \in Scans, NEW flags \in {<<TRUE, TRUE>>, <<TRUE, FALSE>>, <<FALSE, FALSE>>},
                ScanMarks(s, flags[1], flags[2])
         PROVE  ReminderInv'
    <2>1. CASE flags = <<TRUE, TRUE>>
      <3>1. ScanMarks(s, TRUE, TRUE) BY <1>11, <2>1
      <3> QED BY <1>9, <3>1
    <2>2. CASE flags = <<TRUE, FALSE>>
      <3>1. ScanMarks(s, TRUE, FALSE) BY <1>11, <2>2
      <3> QED BY <1>9, <3>1
    <2>3. CASE flags = <<FALSE, FALSE>>
      <3>1. ScanMarks(s, FALSE, FALSE) BY <1>11, <2>3
      <3> QED BY <1>9, <3>1
    <2> QED BY <2>1, <2>2, <2>3
  <1> QED BY <1>1, <1>3, <1>4, <1>5, <1>6, <1>7, <1>8, <1>10, <1>11 DEF ReminderNext

\* No reminder, no scan.
LEMMA ReminderInitially == ReminderInit => ReminderInv
  <1> SUFFICES ASSUME ReminderInit PROVE ReminderInv OBVIOUS
  <1> USE DEF ReminderInit
  <1>1. ReminderDomains BY DEF ReminderDomains
  <1>2. OneScan BY DEF OneScan
  <1>3. AnnouncedOnce BY DEF AnnouncedOnce
  <1> QED BY <1>1, <1>2, <1>3 DEF ReminderInv

\* For any number of reminders and scans, and any faults: what is done in the table was
\* announced, or its mark was lost; what is not done was not; and once each, until two scans
\* overlap (checkNow of reminder-service.ts).
THEOREM RemindersAreAnnounced == ReminderSpec => []AnnouncedOnce
  <1>1. ReminderInv => AnnouncedOnce BY DEF ReminderInv
  <1> QED BY <1>1, ReminderInitially, ReminderStep, PTL DEF ReminderSpec

(***************************************************************************)
(* The reminders' domains: each scan that has a reminder in hand announces *)
(* it once at most.                                                        *)
(***************************************************************************)
\* The scans that have the reminder listed, or mark it.
InHand(r) == {s \in Scans : r \in listed[s] \/ marking[s] = r}

\* A scan has a reminder in hand once, and only while it works.
InHandOnce ==
  /\ reminderFaults \in 0..MaxReminderFaults
  /\ \A s \in Scans :
       /\ marking[s] \notin listed[s]
       /\ scanning[s] # "working" => listed[s] = {} /\ marking[s] = 0
  /\ \A r \in Reminders : announced[r] + Cardinality(InHand(r)) <= Cardinality(Scans)

\* Sets of scans are finite, and no larger than the set of all.
LEMMA ScansFinite ==
  ASSUME NEW S, S \subseteq Scans
  PROVE  /\ IsFiniteSet(S) /\ Cardinality(S) \in Nat
         /\ Cardinality(S) <= Cardinality(Scans) /\ Cardinality(Scans) \in Nat
  BY ReminderAssumption, FS_Subset, FS_CardinalityType

\* Fewer scans have a reminder in hand, and no more are announced.
LEMMA LessInHand ==
  ASSUME NEW r \in Reminders, announced \in [Reminders -> Nat],
         announced[r] + Cardinality(InHand(r)) <= Cardinality(Scans),
         InHand(r)' \subseteq InHand(r), announced'[r] = announced[r]
  PROVE  announced'[r] + Cardinality(InHand(r)') <= Cardinality(Scans)
  <1> DEFINE N == InHand(r)'
             O == InHand(r)
  <1>1. O \subseteq Scans BY DEF InHand
  <1>2. IsFiniteSet(O) /\ Cardinality(O) \in Nat BY <1>1, ScansFinite
  <1>3. N \subseteq O OBVIOUS
  <1> HIDE DEF N, O
  <1>4. Cardinality(N) <= Cardinality(O) /\ Cardinality(N) \in Nat
    BY <1>2, <1>3, FS_Subset, FS_CardinalityType
  <1>5. announced[r] \in Nat /\ Cardinality(Scans) \in Nat BY <1>1, ScansFinite
  <1>6. announced[r] + Cardinality(O) <= Cardinality(Scans) BY DEF O
  <1>7. announced[r] + Cardinality(N) <= Cardinality(Scans) BY <1>2, <1>4, <1>5, <1>6
  <1> QED BY <1>7 DEF N

\* Every step of the reminders keeps the count.
LEMMA InHandStep ==
  ReminderInv /\ InHandOnce /\ [ReminderNext]_reminderVars => InHandOnce'
  <1> SUFFICES ASSUME ReminderInv, InHandOnce, [ReminderNext]_reminderVars PROVE InHandOnce' OBVIOUS
  <1>0. ReminderDomains /\ AnnouncedOnce BY DEF ReminderInv
  <1>a. \A r \in Reminders : announced[r] \in Nat BY <1>0 DEF ReminderDomains
  <1>z. 0 \notin Reminders BY ReminderAssumption DEF Reminders
  <1>1. ASSUME UNCHANGED <<listed, marking, announced>>, reminderFaults' \in 0..MaxReminderFaults,
               \A s \in Scans : scanning'[s] # "working" =>
                              scanning[s] # "working" \/ (listed[s] = {} /\ marking[s] = 0)
        PROVE  InHandOnce'
    <2>1. \A r \in Reminders : InHand(r)' = InHand(r) BY <1>1 DEF InHand
    <2> QED BY <1>1, <2>1 DEF InHandOnce
  <1>2. CASE UNCHANGED reminderVars BY <1>1, <1>2 DEF reminderVars, InHandOnce
  <1>3. ASSUME NEW r \in Reminders, NEW state, ReminderComesDue(r) \/ ReminderAdd(r, state)
        PROVE  InHandOnce'
    BY <1>1, <1>3 DEF ReminderComesDue, ReminderAdd, InHandOnce
  <1>4. ASSUME NEW s \in Scans, ScanBegins(s) \/ ScanEnds(s) PROVE InHandOnce'
    <2>1. PICK state \in {"listing", "none"} :
            /\ scanning' = [scanning EXCEPT ![s] = state]
            /\ UNCHANGED <<listed, marking, announced, reminderFaults>>
      BY <1>4 DEF ScanBegins, ScanEnds
    <2>2. listed[s] = {} /\ marking[s] = 0 BY <1>4 DEF ScanBegins, ScanEnds, InHandOnce
    <2>3. \A o \in Scans \ {s} : scanning'[o] = scanning[o] BY <1>0, <2>1 DEF ReminderDomains
    <2> QED BY <1>1, <2>1, <2>2, <2>3 DEF InHandOnce
  <1>5. ASSUME NEW s \in Scans, NEW ok \in BOOLEAN, ScanLists(s, ok) PROVE InHandOnce'
    <2>1. PICK S \in SUBSET Reminders :
            /\ \A r \in S : reminder[r] = "due"
            /\ listed' = [listed EXCEPT ![s] = S]
      <3>1. CASE ok BY <1>5, <3>1 DEF ScanLists
      <3>2. CASE ~ok BY <1>5, <3>2 DEF ScanLists
      <3> QED BY <3>1, <3>2
    <2>2. /\ scanning[s] = "listing" /\ scanning' = [scanning EXCEPT ![s] = "working"]
          /\ UNCHANGED <<reminder, marking, announced, reminderFaults>>
      BY <1>5 DEF ScanLists
    <2>3. /\ listed'[s] = S /\ \A o \in Scans \ {s} : listed'[o] = listed[o]
          /\ scanning'[s] = "working" /\ \A o \in Scans \ {s} : scanning'[o] = scanning[o]
          /\ marking[s] = 0
      BY <1>0, <2>1, <2>2 DEF ReminderDomains, InHandOnce
    <2>4. \A o \in Scans : /\ marking'[o] \notin listed'[o]
                           /\ scanning'[o] # "working" => listed'[o] = {} /\ marking'[o] = 0
      BY <1>z, <2>2, <2>3 DEF InHandOnce
    <2>5. ASSUME NEW r \in Reminders
          PROVE  announced'[r] + Cardinality(InHand(r)') <= Cardinality(Scans)
      <3>1. CASE r \in S
        <4>1. announced'[r] = 0 BY <1>0, <2>1, <2>2, <3>1 DEF AnnouncedOnce
        <4>2. InHand(r)' \subseteq Scans BY DEF InHand
        <4> HIDE DEF InHand
        <4>3. Cardinality(InHand(r)') \in Nat /\ Cardinality(InHand(r)') <= Cardinality(Scans)
          BY <4>2, ScansFinite
        <4> QED BY <4>1, <4>3
      <3>2. CASE r \notin S
        <4>1. InHand(r)' \subseteq InHand(r) BY <2>2, <2>3, <3>2 DEF InHand
        <4>2. announced'[r] = announced[r] BY <2>2
        <4>3. announced[r] + Cardinality(InHand(r)) <= Cardinality(Scans) BY DEF InHandOnce
        <4> QED BY <1>0, <4>1, <4>2, <4>3, LessInHand DEF ReminderDomains
      <3> QED BY <3>1, <3>2
    <2> QED BY <2>2, <2>4, <2>5 DEF InHandOnce
  <1>6. ASSUME NEW s \in Scans, ScanTakes(s) PROVE InHandOnce'
    <2>1. PICK r \in listed[s] :
            /\ marking' = [marking EXCEPT ![s] = r] /\ listed' = [listed EXCEPT ![s] = @ \ {r}]
      <3>1. listed[s] \subseteq Reminders /\ listed[s] # {}
        BY <1>0, <1>6 DEF ReminderDomains, ScanTakes
      <3> QED BY <1>6, <3>1, FirstIsListed DEF ScanTakes
    <2>2. /\ scanning[s] = "working" /\ marking[s] = 0
          /\ UNCHANGED <<reminder, scanning, announced, reminderFaults>>
      BY <1>6 DEF ScanTakes
    <2>3. /\ marking'[s] = r /\ listed'[s] = listed[s] \ {r}
          /\ \A o \in Scans \ {s} : marking'[o] = marking[o] /\ listed'[o] = listed[o]
      BY <1>0, <2>1 DEF ReminderDomains
    <2>4. \A o \in Scans : /\ marking'[o] \notin listed'[o]
                           /\ scanning'[o] # "working" => listed'[o] = {} /\ marking'[o] = 0
      BY <2>2, <2>3 DEF InHandOnce
    <2>5. ASSUME NEW q \in Reminders
          PROVE  announced'[q] + Cardinality(InHand(q)') <= Cardinality(Scans)
      <3>1. InHand(q)' \subseteq InHand(q) BY <1>z, <2>1, <2>2, <2>3 DEF InHand
      <3>2. announced'[q] = announced[q] BY <2>2
      <3>3. announced[q] + Cardinality(InHand(q)) <= Cardinality(Scans) BY DEF InHandOnce
      <3> QED BY <1>0, <3>1, <3>2, <3>3, LessInHand DEF ReminderDomains
    <2> QED BY <2>2, <2>4, <2>5 DEF InHandOnce
  <1>7. ASSUME NEW s \in Scans, NEW written \in BOOLEAN, NEW answered \in BOOLEAN,
               ScanMarks(s, written, answered)
        PROVE  InHandOnce'
    <2>1. PICK r \in Reminders : r = marking[s]
      BY <1>0, <1>7 DEF ScanMarks, ReminderDomains
    <2>2. /\ marking' = [marking EXCEPT ![s] = 0]
          /\ announced' = announced \/ announced' = [announced EXCEPT ![r] = @ + 1]
          /\ reminderFaults' \in 0..MaxReminderFaults
          /\ UNCHANGED <<scanning, listed>>
      <3>1. /\ marking' = [marking EXCEPT ![s] = 0]
            /\ announced' = announced \/ announced' = [announced EXCEPT ![r] = @ + 1]
            /\ UNCHANGED <<scanning, listed>>
        BY <1>7, <2>1 DEF ScanMarks
      <3>2. reminderFaults' \in 0..MaxReminderFaults
        BY <1>7, ReminderAssumption DEF ScanMarks, InHandOnce
      <3> QED BY <3>1, <3>2
    <2>3. /\ marking'[s] = 0 /\ \A o \in Scans \ {s} : marking'[o] = marking[o]
          /\ \A q \in Reminders \ {r} : announced'[q] = announced[q]
          /\ announced'[r] = announced[r] \/ announced'[r] = announced[r] + 1
      BY <1>0, <2>2 DEF ReminderDomains
    <2>4. \A o \in Scans : /\ marking'[o] \notin listed'[o]
                           /\ scanning'[o] # "working" => listed'[o] = {} /\ marking'[o] = 0
      <3>1. 0 \notin listed'[s] BY <1>0, <1>z, <2>2 DEF ReminderDomains
      <3> QED BY <2>2, <2>3, <3>1 DEF InHandOnce
    <2>5. ASSUME NEW q \in Reminders
          PROVE  announced'[q] + Cardinality(InHand(q)') <= Cardinality(Scans)
      <3>0. announced[q] + Cardinality(InHand(q)) <= Cardinality(Scans) BY DEF InHandOnce
      <3>1. CASE q # r
        <4>1. InHand(q)' \subseteq InHand(q) BY <1>z, <2>1, <2>2, <2>3, <3>1 DEF InHand
        <4>2. announced'[q] = announced[q] BY <2>3, <3>1
        <4> QED BY <1>0, <3>0, <4>1, <4>2, LessInHand DEF ReminderDomains
      <3>2. CASE q = r
        <4> DEFINE N == InHand(q)'
                   O == InHand(q)
        <4>1. N = O \ {s} BY <1>z, <2>1, <2>2, <2>3, <3>2 DEF InHand, InHandOnce
        <4>2. s \in O /\ O \subseteq Scans BY <2>1, <3>2 DEF InHand
        <4> HIDE DEF N, O
        <4>3. IsFiniteSet(O) /\ Cardinality(O) \in Nat /\ Cardinality(Scans) \in Nat
          BY <4>2, ScansFinite
        <4>4. Cardinality(N) = Cardinality(O) - 1 BY <4>1, <4>2, <4>3, FS_RemoveElement
        <4>5. announced[q] + Cardinality(O) <= Cardinality(Scans) BY <3>0 DEF O
        <4>6. announced'[q] = announced[q] \/ announced'[q] = announced[q] + 1 BY <2>3, <3>2
        <4>7. announced[q] \in Nat BY <1>a
        <4>8. announced'[q] + Cardinality(N) <= Cardinality(Scans)
          BY <4>3, <4>4, <4>5, <4>6, <4>7
        <4> QED BY <4>8 DEF N
      <3> QED BY <3>1, <3>2
    <2> QED BY <2>2, <2>4, <2>5 DEF InHandOnce
  <1>8. ASSUME NEW marked \in SUBSET Reminders, ReminderRestart(marked) PROVE InHandOnce'
    <2>1. /\ scanning' = [s \in Scans |-> "none"] /\ listed' = [s \in Scans |-> {}]
          /\ marking' = [s \in Scans |-> 0] /\ UNCHANGED announced
      BY <1>8 DEF ReminderRestart
    <2>2. reminderFaults' \in 0..MaxReminderFaults
      BY <1>8, ReminderAssumption DEF ReminderRestart, InHandOnce
    <2>3. ASSUME NEW r \in Reminders
          PROVE  announced'[r] + Cardinality(InHand(r)') <= Cardinality(Scans)
      <3>1. InHand(r)' \subseteq InHand(r) BY <1>z, <2>1 DEF InHand
      <3>2. announced[r] + Cardinality(InHand(r)) <= Cardinality(Scans) BY DEF InHandOnce
      <3> QED BY <1>0, <2>1, <3>1, <3>2, LessInHand DEF ReminderDomains
    <2> QED BY <2>1, <2>2, <2>3 DEF InHandOnce
  <1>9. ASSUME NEW s \in Scans, NEW flags \in {<<TRUE, TRUE>>, <<TRUE, FALSE>>, <<FALSE, FALSE>>},
               ScanMarks(s, flags[1], flags[2])
        PROVE  InHandOnce'
    <2>1. CASE flags = <<TRUE, TRUE>>
      <3>1. ScanMarks(s, TRUE, TRUE) BY <1>9, <2>1
      <3> QED BY <1>7, <3>1
    <2>2. CASE flags = <<TRUE, FALSE>>
      <3>1. ScanMarks(s, TRUE, FALSE) BY <1>9, <2>2
      <3> QED BY <1>7, <3>1
    <2>3. CASE flags = <<FALSE, FALSE>>
      <3>1. ScanMarks(s, FALSE, FALSE) BY <1>9, <2>3
      <3> QED BY <1>7, <3>1
    <2> QED BY <2>1, <2>2, <2>3
  <1> QED BY <1>2, <1>3, <1>4, <1>5, <1>6, <1>8, <1>9 DEF ReminderNext

\* The reminders' variables keep to their domains (ReminderTypeOK).
LEMMA RemindersAreTyped == ReminderSpec => []ReminderTypeOK
  <1>1. ReminderInit => InHandOnce
    <2> SUFFICES ASSUME ReminderInit PROVE InHandOnce OBVIOUS
    <2>1. ASSUME NEW r \in Reminders
          PROVE  announced[r] + Cardinality(InHand(r)) <= Cardinality(Scans)
      <3>1. 0 # r BY ReminderAssumption DEF Reminders
      <3>2. InHand(r) = {} BY <3>1 DEF InHand, ReminderInit
      <3>3. Cardinality(InHand(r)) = 0 BY <3>2, FS_EmptySet
      <3>4. Cardinality(Scans) \in Nat BY ScansFinite
      <3>5. announced[r] = 0 BY DEF ReminderInit
      <3> QED BY <3>3, <3>4, <3>5
    <2> QED BY <2>1, ReminderAssumption DEF InHandOnce, ReminderInit
  <1>2. ReminderInv /\ InHandOnce => ReminderTypeOK
    <2> SUFFICES ASSUME ReminderInv, InHandOnce PROVE ReminderTypeOK OBVIOUS
    <2>0. ReminderDomains BY DEF ReminderInv
    <2>1. ASSUME NEW r \in Reminders PROVE announced[r] \in 0..Cardinality(Scans)
      <3>1. announced[r] \in Nat BY <2>0 DEF ReminderDomains
      <3>2. announced[r] + Cardinality(InHand(r)) <= Cardinality(Scans) BY DEF InHandOnce
      <3>3. InHand(r) \subseteq Scans BY DEF InHand
      <3>4. Cardinality(InHand(r)) \in Nat /\ Cardinality(Scans) \in Nat BY <3>3, ScansFinite
      <3> QED BY <3>1, <3>2, <3>4
    <2>2. announced \in [Reminders -> 0..Cardinality(Scans)] BY <2>0, <2>1 DEF ReminderDomains
    <2> QED BY <2>0, <2>2 DEF ReminderDomains, InHandOnce, ReminderTypeOK
  <1> QED BY <1>1, <1>2, ReminderInitially, ReminderStep, InHandStep, PTL DEF ReminderSpec

(***************************************************************************)
(* The heartbeat keeps to one check and one session, but for those it      *)
(* forgets, and tells of trouble, for any number of checks and restarts.   *)
(***************************************************************************)
\* The checks, their reports and the sessions keep to their domains.
BeatDomains ==
  /\ beat \in [Beats -> {"new", "looking", "resolving", "made", "asking", "over"}]
  /\ report \in [Beats -> {"none", "ok", "digest", "error"}] /\ beating \in BOOLEAN
  /\ found \subseteq Beats /\ sessionsMade \in Nat /\ asksIn = [b \in Beats |-> asksIn[b]]

\* At most one check is in work, and the flag tells.
OneInWork ==
  /\ \A b, c \in Checking : b = c
  /\ beating <=> Checking # {}

\* Of the sessions that were made, those in the store are the one in use, the one that is
\* being made and the forgotten ones.
OneStands == 1..sessionsMade \subseteq sessionsLost \cup {beatSession} \cup Unnamed \cup forgotten

\* A session is made when there is none, and a check asks in the one that is remembered.
MadeForWant ==
  \A b \in Beats :
    /\ beat[b] = "made" => beatSession \in sessionsLost \cup {0}
    /\ beat[b] = "asking" => asksIn[b] = beatSession

\* What a check has found it has found while it looked, and it reports at its end.
FoundInTime ==
  \A b \in Beats :
    /\ beat[b] \in {"new", "looking"} => b \notin found
    /\ beat[b] # "over" => report[b] = "none"

BeatInv ==
  BeatDomains /\ OneInWork /\ OneStands /\ MadeForWant /\ FoundInTime /\ TroubleIsTold

\* The check in work goes on, or is over.
LEMMA CheckMoves ==
  ASSUME BeatInv, NEW b \in Beats, b \in Checking,
         NEW state \in {"looking", "resolving", "made", "asking", "over"}, BeatMoves(b, state),
         beating' = (state # "over")
  PROVE  /\ beat' \in [Beats -> {"new", "looking", "resolving", "made", "asking", "over"}]
         /\ beat'[b] = state /\ \A c \in Beats \ {b} : beat'[c] = beat[c]
         /\ beating' \in BOOLEAN /\ OneInWork'
  <1>0. BeatDomains /\ OneInWork BY DEF BeatInv
  <1>1. /\ beat' \in [Beats -> {"new", "looking", "resolving", "made", "asking", "over"}]
        /\ beat'[b] = state /\ \A c \in Beats \ {b} : beat'[c] = beat[c]
    BY <1>0 DEF BeatDomains, BeatMoves
  <1>2. \A c \in Beats \ {b} : c \notin Checking BY <1>0 DEF OneInWork
  <1>3. \A c \in Checking' : c = b BY <1>1, <1>2 DEF Checking
  <1>4. CASE state = "over"
    <2>1. Checking' = {} BY <1>1, <1>3, <1>4 DEF Checking
    <2> QED BY <1>1, <1>4, <2>1 DEF OneInWork
  <1>5. CASE state # "over"
    <2>1. b \in Checking' BY <1>1, <1>5 DEF Checking
    <2> QED BY <1>1, <1>3, <1>5, <2>1 DEF OneInWork
  <1> QED BY <1>4, <1>5

\* A check ends with its report.
LEMMA ReportKeeps ==
  ASSUME BeatInv, NEW b \in Beats, b \in Checking, NEW said \in {"ok", "digest", "error"},
         BeatReports(b, said), UNCHANGED <<beatSession, sessionsMade, sessionsLost, asksIn, found>>,
         forgotten \cup Unnamed \subseteq forgotten',
         saidFine \subseteq saidFine', chatFailed \subseteq chatFailed',
         said = "ok" /\ b \in found => b \in saidFine' \cup chatFailed'
  PROVE  BeatInv'
  <1>0. BeatDomains /\ OneInWork /\ OneStands /\ MadeForWant /\ FoundInTime /\ TroubleIsTold
    BY DEF BeatInv
  <1>1. /\ BeatMoves(b, "over") /\ report' = [report EXCEPT ![b] = said] /\ beating' = FALSE
    BY DEF BeatReports
  <1>2. /\ beat' \in [Beats -> {"new", "looking", "resolving", "made", "asking", "over"}]
        /\ beat'[b] = "over" /\ \A c \in Beats \ {b} : beat'[c] = beat[c]
        /\ beating' \in BOOLEAN /\ OneInWork'
    <2>1. beating' = ("over" # "over") BY <1>1
    <2> QED BY <1>1, <2>1, CheckMoves
  <1>3. /\ report' \in [Beats -> {"none", "ok", "digest", "error"}]
        /\ report'[b] = said /\ \A c \in Beats \ {b} : report'[c] = report[c]
    BY <1>0, <1>1 DEF BeatDomains
  <1>4. BeatDomains' BY <1>0, <1>1, <1>2, <1>3 DEF BeatDomains
  <1>5. OneStands' /\ MadeForWant'
    <2>1. OneStands' BY <1>0 DEF OneStands
    <2>2. MadeForWant' BY <1>0, <1>2 DEF MadeForWant
    <2> QED BY <2>1, <2>2
  <1>6. FoundInTime' BY <1>0, <1>1, <1>2, <1>3 DEF FoundInTime
  <1>7. TroubleIsTold' BY <1>0, <1>1, <1>3 DEF TroubleIsTold, BeatDomains
  <1> QED BY <1>2, <1>4, <1>5, <1>6, <1>7 DEF BeatInv

\* Every step of the heartbeat keeps the invariant.
LEMMA BeatStep == BeatInv /\ [BeatNext]_beatVars => BeatInv'
  <1> SUFFICES ASSUME BeatInv, [BeatNext]_beatVars PROVE BeatInv' OBVIOUS
  <1>0. BeatDomains /\ OneInWork /\ OneStands /\ MadeForWant /\ FoundInTime /\ TroubleIsTold
    BY DEF BeatInv
  <1> HIDE DEF BeatInv
  <1>a. ASSUME NEW b \in Checking, beat[b] # "made" PROVE Unnamed = {}
    BY <1>0, <1>a DEF OneInWork, Checking, Unnamed
  <1>1. ASSUME UNCHANGED <<beat, beating, beatSession, sessionsMade, asksIn, forgotten, found,
                           report, saidFine, chatFailed>>, sessionsLost \subseteq sessionsLost'
        PROVE  BeatInv'
    <2>1. BeatDomains' BY <1>0, <1>1 DEF BeatDomains
    <2>2. OneInWork' BY <1>0, <1>1 DEF OneInWork, Checking
    <2>3. OneStands' /\ MadeForWant' BY <1>0, <1>1 DEF OneStands, MadeForWant, Unnamed
    <2>4. FoundInTime' /\ TroubleIsTold' BY <1>0, <1>1 DEF FoundInTime, TroubleIsTold
    <2> QED BY <2>1, <2>2, <2>3, <2>4 DEF BeatInv
  <1>2. CASE UNCHANGED beatVars \/ UserChats \/ \E s \in Sessions : SessionIsLost(s)
    BY <1>1, <1>2 DEF beatVars, UserChats, SessionIsLost, sessionVars
  <1>3. ASSUME NEW b \in Beats, BeatStarts(b) PROVE BeatInv'
    <2>1. /\ beat[b] = "new" /\ ~beating /\ beat' = [beat EXCEPT ![b] = "looking"]
          /\ beating' = TRUE
          /\ UNCHANGED <<beatSession, sessionsMade, sessionsLost, asksIn, forgotten, found,
                         report, saidFine, chatFailed>>
      BY <1>3 DEF BeatStarts, MayBeat, BeatMoves, sessionVars
    <2>2. beat'[b] = "looking" /\ \A c \in Beats \ {b} : beat'[c] = beat[c]
      BY <1>0, <2>1 DEF BeatDomains
    <2>3. Checking' = {b}
      <3>1. Checking = {} BY <1>0, <2>1 DEF OneInWork
      <3> QED BY <2>2, <3>1 DEF Checking
    <2>4. BeatDomains' BY <1>0, <2>1 DEF BeatDomains
    <2>5. OneInWork' BY <2>1, <2>3 DEF OneInWork
    <2>6. FoundInTime' /\ TroubleIsTold'
      BY <1>0, <2>1, <2>2 DEF FoundInTime, TroubleIsTold
    <2>7. OneStands'
      <3>1. Unnamed' = Unnamed
        BY <2>1, <2>2 DEF Unnamed
      <3> QED BY <1>0, <2>1, <3>1 DEF OneStands
    <2>8. MadeForWant' BY <1>0, <2>1, <2>2 DEF MadeForWant
    <2> QED BY <2>4, <2>5, <2>6, <2>7, <2>8 DEF BeatInv
  <1>4. ASSUME NEW b \in Beats, SignalsCollected(b) PROVE BeatInv'
    <2>1. b \in Checking /\ b \notin found
      BY <1>0, <1>4 DEF SignalsCollected, Checking, FoundInTime
    <2>2. UNCHANGED <<beatSession, sessionsMade, sessionsLost, asksIn, forgotten, saidFine,
                      chatFailed>>
      BY <1>4 DEF SignalsCollected, sessionVars
    <2>5. Unnamed = {}
      <3>1. beat[b] # "made" BY <1>4 DEF SignalsCollected
      <3> QED BY <1>a, <2>1, <3>1
    <2>3. CASE BeatReports(b, "ok") /\ UNCHANGED found
      BY <2>1, <2>2, <2>3, <2>5, ReportKeeps
    <2>4. CASE BeatMoves(b, "resolving") /\ found' = found \cup {b} /\ UNCHANGED <<beating, report>>
      <3>1. beating = TRUE BY <1>0, <2>1 DEF OneInWork, BeatDomains
      <3>2. /\ beat' \in [Beats -> {"new", "looking", "resolving", "made", "asking", "over"}]
            /\ beat'[b] = "resolving" /\ \A c \in Beats \ {b} : beat'[c] = beat[c]
            /\ beating' \in BOOLEAN /\ OneInWork'
        <4>1. beating' = ("resolving" # "over") BY <2>4, <3>1
        <4> QED BY <2>1, <2>4, <4>1, CheckMoves
      <3>3. BeatDomains' BY <1>0, <2>2, <2>4, <3>2 DEF BeatDomains
      <3>4. OneStands' /\ MadeForWant'
        <4>1. OneStands' BY <1>0, <2>2, <2>5 DEF OneStands
        <4>2. MadeForWant' BY <1>0, <2>2, <3>2 DEF MadeForWant
        <4> QED BY <4>1, <4>2
      <3>5. report[b] = "none"
        BY <1>0, <1>4 DEF SignalsCollected, FoundInTime
      <3>6. FoundInTime' BY <1>0, <2>4, <3>2, <3>5 DEF FoundInTime
      <3>7. TroubleIsTold' BY <1>0, <2>2, <2>4, <3>5 DEF TroubleIsTold
      <3> QED BY <3>2, <3>3, <3>4, <3>6, <3>7 DEF BeatInv
    <2> QED BY <1>4, <2>3, <2>4 DEF SignalsCollected
  <1>5. ASSUME NEW b \in Beats, SessionIsMade(b) PROVE BeatInv'
    <2>1. /\ beat[b] = "resolving" /\ BeatMoves(b, "made")
          /\ beatSession = 0 \/ beatSession \in sessionsLost
          /\ sessionsMade' = sessionsMade + 1
          /\ asksIn' = [asksIn EXCEPT ![b] = sessionsMade + 1]
          /\ UNCHANGED <<beating, beatSession, sessionsLost, forgotten, found, report, saidFine,
                         chatFailed>>
      BY <1>5 DEF SessionIsMade, SessionStands, NoSession
    <2>2. b \in Checking BY <2>1 DEF Checking
    <2>3. beating = TRUE BY <1>0, <2>2 DEF OneInWork, BeatDomains
    <2>4. /\ beat' \in [Beats -> {"new", "looking", "resolving", "made", "asking", "over"}]
          /\ beat'[b] = "made" /\ \A c \in Beats \ {b} : beat'[c] = beat[c]
          /\ beating' \in BOOLEAN /\ OneInWork'
      <3>1. beating' = ("made" # "over") BY <2>1, <2>3
      <3> QED BY <2>1, <2>2, <3>1, CheckMoves
    <2>5. /\ asksIn' = [c \in Beats |-> asksIn'[c]] /\ asksIn'[b] = sessionsMade + 1
          /\ \A c \in Beats \ {b} : asksIn'[c] = asksIn[c]
      BY <1>0, <2>1 DEF BeatDomains
    <2>6. BeatDomains' BY <1>0, <2>1, <2>4, <2>5 DEF BeatDomains
    <2>7. OneStands'
      <3>1. Unnamed = {} BY <1>a, <2>1, <2>2
      <3>2. sessionsMade + 1 \in Unnamed' BY <2>4, <2>5 DEF Unnamed
      <3>3. sessionsMade \in Nat BY <1>0 DEF BeatDomains
      <3>4. \A k \in 1..(sessionsMade + 1) : k \in 1..sessionsMade \/ k = sessionsMade + 1
        BY <3>3
      <3> QED BY <1>0, <2>1, <3>1, <3>2, <3>4 DEF OneStands
    <2>8. MadeForWant'
      <3>1. \A c \in Beats \ {b} : c \notin Checking BY <1>0, <2>2 DEF OneInWork
      <3>2. \A c \in Beats \ {b} : beat'[c] # "asking" BY <2>4, <3>1 DEF Checking
      <3>3. \A c \in Beats : beat'[c] # "asking" BY <2>4, <3>2
      <3> QED BY <2>1, <3>3 DEF MadeForWant
    <2>9. FoundInTime' BY <1>0, <2>1, <2>4 DEF FoundInTime
    <2>10. TroubleIsTold' BY <1>0, <2>1 DEF TroubleIsTold
    <2> QED BY <2>4, <2>6, <2>7, <2>8, <2>9, <2>10 DEF BeatInv
  <1>9. ASSUME NEW b \in Beats, SessionResolved(b) PROVE BeatInv'
    <2>1. /\ \/ beat[b] = "resolving" /\ beatSession' = beatSession
             \/ beat[b] = "made" /\ beatSession' = asksIn[b]
          /\ BeatMoves(b, "asking")
          /\ asksIn' = [asksIn EXCEPT ![b] = beatSession']
          /\ UNCHANGED <<beating, sessionsMade, sessionsLost, forgotten, found, report, saidFine,
                         chatFailed>>
      BY <1>9 DEF SessionResolved
    <2>2. b \in Checking BY <2>1 DEF Checking
    <2>3. beating = TRUE BY <1>0, <2>2 DEF OneInWork, BeatDomains
    <2>4. /\ beat' \in [Beats -> {"new", "looking", "resolving", "made", "asking", "over"}]
          /\ beat'[b] = "asking" /\ \A c \in Beats \ {b} : beat'[c] = beat[c]
          /\ beating' \in BOOLEAN /\ OneInWork'
      <3>1. beating' = ("asking" # "over") BY <2>1, <2>3
      <3> QED BY <2>1, <2>2, <3>1, CheckMoves
    <2>5. /\ asksIn' = [c \in Beats |-> asksIn'[c]] /\ asksIn'[b] = beatSession'
          /\ \A c \in Beats \ {b} : asksIn'[c] = asksIn[c]
      BY <1>0, <2>1 DEF BeatDomains
    <2>6. BeatDomains' BY <1>0, <2>1, <2>4, <2>5 DEF BeatDomains
    <2>o. \A c \in Beats \ {b} : c \notin Checking BY <1>0, <2>2 DEF OneInWork
    <2>7. OneStands'
      <3>1. CASE beat[b] = "resolving" /\ beatSession' = beatSession
        <4>1. Unnamed = {} BY <1>a, <2>2, <3>1
        <4> QED BY <1>0, <2>1, <3>1, <4>1 DEF OneStands
      <3>2. CASE beat[b] = "made" /\ beatSession' = asksIn[b]
        <4>1. Unnamed \subseteq {beatSession'} BY <2>o, <3>2 DEF Unnamed, Checking
        <4>2. beatSession \in sessionsLost \cup {0} BY <1>0, <3>2 DEF MadeForWant
        <4>3. 0 \notin 1..sessionsMade BY <1>0 DEF BeatDomains
        <4> QED BY <1>0, <2>1, <4>1, <4>2, <4>3 DEF OneStands
      <3> QED BY <2>1, <3>1, <3>2
    <2>8. MadeForWant'
      <3>1. \A c \in Beats \ {b} : beat'[c] \notin {"made", "asking"}
        BY <2>4, <2>o DEF Checking
      <3> QED BY <2>4, <2>5, <3>1 DEF MadeForWant
    <2>9. FoundInTime' BY <1>0, <2>1, <2>4 DEF FoundInTime
    <2>10. TroubleIsTold' BY <1>0, <2>1 DEF TroubleIsTold
    <2> QED BY <2>4, <2>6, <2>7, <2>8, <2>9, <2>10 DEF BeatInv
  <1>6. ASSUME NEW b \in Beats, ModelAnswers(b) PROVE BeatInv'
    <2>1. /\ b \in Checking
          /\ UNCHANGED <<beatSession, sessionsMade, sessionsLost, asksIn, forgotten, found,
                         chatFailed>>
      BY <1>6 DEF ModelAnswers, Checking, sessionVars
    <2>4. Unnamed = {}
      <3>1. beat[b] # "made" BY <1>6 DEF ModelAnswers
      <3> QED BY <1>a, <2>1, <3>1
    <2>2. CASE BeatReports(b, "ok") /\ saidFine' = saidFine \cup {b}
      BY <2>1, <2>2, <2>4, ReportKeeps
    <2>3. CASE BeatReports(b, "digest") /\ UNCHANGED saidFine
      BY <2>1, <2>3, <2>4, ReportKeeps
    <2> QED BY <1>6, <2>2, <2>3 DEF ModelAnswers
  <1>7. ASSUME NEW b \in Beats, ChatBreaks(b) PROVE BeatInv'
    <2>1. /\ b \in Checking
          /\ UNCHANGED <<beatSession, sessionsMade, sessionsLost, asksIn, forgotten, found,
                         saidFine>>
      BY <1>7 DEF ChatBreaks, Checking, sessionVars
    <2>4. Unnamed = {}
      <3>1. beat[b] # "made" BY <1>7 DEF ChatBreaks
      <3> QED BY <1>a, <2>1, <3>1
    <2>2. CASE BeatReports(b, "ok") /\ chatFailed' = chatFailed \cup {b}
      BY <2>1, <2>2, <2>4, ReportKeeps
    <2>3. CASE BeatReports(b, "digest") /\ UNCHANGED chatFailed
      BY <2>1, <2>3, <2>4, ReportKeeps
    <2> QED BY <1>7, <2>2, <2>3 DEF ChatBreaks
  <1>8. ASSUME NEW b \in Beats, BeatThrows(b) PROVE BeatInv'
    <2>1. /\ b \in Checking /\ BeatReports(b, "error")
          /\ forgotten' = forgotten \cup Unnamed
          /\ UNCHANGED <<beatSession, sessionsMade, sessionsLost, asksIn, found, saidFine,
                         chatFailed>>
      BY <1>8 DEF BeatThrows, Checking
    <2> QED BY <2>1, ReportKeeps
  <1>10. CASE ServerRestarts
    <2>1. /\ beat' = [b \in Beats |-> IF beat[b] = "new" THEN "new" ELSE "over"]
          /\ beating' = FALSE /\ beatSession' = NoSession
          /\ forgotten' = forgotten \cup Unnamed \cup {beatSession}
          /\ UNCHANGED <<sessionsMade, sessionsLost, asksIn, found, report, saidFine, chatFailed>>
      BY <1>10 DEF ServerRestarts
    <2>2. \A b \in Beats : beat'[b] \in {"new", "over"} BY <2>1
    <2>3. Checking' = {} BY <2>2 DEF Checking
    <2>4. beat' \in [Beats -> {"new", "looking", "resolving", "made", "asking", "over"}]
      BY <2>1
    <2>5. BeatDomains' BY <1>0, <2>1, <2>4 DEF BeatDomains
    <2>6. OneInWork' BY <2>1, <2>3 DEF OneInWork
    <2>7. OneStands' BY <1>0, <2>1 DEF OneStands
    <2>8. MadeForWant' BY <2>2 DEF MadeForWant
    <2>9. FoundInTime'
      <3>1. \A b \in Beats : beat'[b] # "over" => beat[b] = "new" BY <2>1
      <3>2. \A b \in Beats : beat'[b] \in {"new", "looking"} => beat[b] = "new" BY <2>1
      <3> QED BY <1>0, <2>1, <3>1, <3>2 DEF FoundInTime
    <2>10. TroubleIsTold' BY <1>0, <2>1 DEF TroubleIsTold
    <2> QED BY <2>5, <2>6, <2>7, <2>8, <2>9, <2>10 DEF BeatInv
  <1> QED BY <1>2, <1>3, <1>4, <1>5, <1>6, <1>7, <1>8, <1>9, <1>10 DEF BeatNext

\* No check, no session.
LEMMA BeatInitially == BeatInit => BeatInv
  <1> SUFFICES ASSUME BeatInit PROVE BeatInv OBVIOUS
  <1> USE DEF BeatInit
  <1>1. Checking = {} BY DEF Checking
  <1>2. BeatDomains BY DEF BeatDomains
  <1>3. OneInWork BY <1>1 DEF OneInWork
  <1>4. OneStands BY DEF OneStands
  <1>6. MadeForWant BY DEF MadeForWant
  <1>5. FoundInTime /\ TroubleIsTold BY DEF FoundInTime, TroubleIsTold
  <1> QED BY <1>2, <1>3, <1>4, <1>5, <1>6 DEF BeatInv

\* For any number of checks, faults and restarts: one check is in work at a time and asks in
\* the session that is remembered; of the sessions made for the checks none stands beside that
\* one and the one that is being made, but for those that a restart or a throw forgot; and
\* what needs attention is reported as fine only on the model's word, or when the chat failed
\* (checkNow and #resolveSession of heartbeat-service.ts).
THEOREM TroubleReachesUser == BeatSpec => [](OneHeartbeat /\ TroubleIsTold)
  <1>1. BeatInv => OneHeartbeat /\ TroubleIsTold
    <2> SUFFICES ASSUME BeatInv PROVE OneHeartbeat BY DEF BeatInv
    <2>0. BeatDomains /\ OneInWork /\ OneStands /\ MadeForWant BY DEF BeatInv
    <2>1. Cardinality(Checking) <= 1
      <3>1. CASE Checking = {} BY <3>1, FS_EmptySet
      <3>2. CASE Checking # {}
        <4>1. PICK b \in Checking : TRUE BY <3>2
        <4>2. Checking = {b} BY <2>0, <4>1 DEF OneInWork
        <4>3. Cardinality({b}) = 1 BY FS_Singleton
        <4> QED BY <4>2, <4>3
      <3> QED BY <3>1, <3>2
    <2>2. beating = (Checking # {}) BY <2>0, Zenon DEF OneInWork, BeatDomains
    <2> QED BY <2>0, <2>1, <2>2 DEF OneHeartbeat, OneStands, MadeForWant
  <1> QED BY <1>1, BeatInitially, BeatStep, PTL DEF BeatSpec

(***************************************************************************)
(* The heartbeat's domains: each check makes one session at most.          *)
(***************************************************************************)
\* The checks that have a session, or have made one.
HaveSession == {b \in Beats : asksIn[b] # NoSession}

\* A check has a session from when it is made or it asks; there are no
\* more sessions than such checks.
SessionsCounted ==
  /\ sessionsMade \in Nat /\ sessionsMade <= Cardinality(HaveSession)
  /\ beatSession \in 0..sessionsMade /\ sessionsLost \subseteq 1..sessionsMade
  /\ asksIn \in [Beats -> 0..sessionsMade]
  /\ \A b \in Beats : beat[b] \in {"new", "looking", "resolving"} => asksIn[b] = NoSession
  /\ \A b \in Beats : beat[b] = "made" => asksIn[b] # NoSession
  /\ forgotten \subseteq 0..sessionsMade /\ userBusy \in BOOLEAN
  /\ saidFine \cup chatFailed \subseteq Beats
  /\ beatFaults \in 0..MaxBeatFaults

\* Sets of checks are finite, and no larger than the set of all.
LEMMA BeatsFinite ==
  ASSUME NEW S, S \subseteq Beats
  PROVE  /\ IsFiniteSet(S) /\ Cardinality(S) \in Nat
         /\ Cardinality(S) <= Cardinality(Beats) /\ Cardinality(Beats) \in Nat
  BY HeartbeatAssumption, FS_Subset, FS_CardinalityType

\* Steps that make no session.
LEMMA NoneMade ==
  ASSUME SessionsCounted, UNCHANGED <<sessionsMade, asksIn>>, beatSession' \in 0..sessionsMade,
         forgotten' \subseteq 0..sessionsMade,
         sessionsLost' \subseteq 1..sessionsMade, userBusy' \in BOOLEAN,
         \A b \in Beats : beat'[b] = "made" => beat[b] = "made",
         saidFine' \cup chatFailed' \subseteq Beats, beatFaults' \in 0..MaxBeatFaults,
         \A b \in Beats : beat'[b] \in {"new", "looking", "resolving"} =>
                            beat[b] \in {"new", "looking", "resolving"}
  PROVE  SessionsCounted'
  <1>1. HaveSession' = HaveSession BY DEF HaveSession
  <1> QED BY <1>1 DEF SessionsCounted

\* Every step of the heartbeat keeps the count.
LEMMA SessionsStep == BeatInv /\ SessionsCounted /\ [BeatNext]_beatVars => SessionsCounted'
  <1> SUFFICES ASSUME BeatInv, SessionsCounted, [BeatNext]_beatVars PROVE SessionsCounted'
    OBVIOUS
  <1>0. BeatDomains BY DEF BeatInv
  <1>a. beatFaults' = beatFaults \/ BeatGoesWrong => beatFaults' \in 0..MaxBeatFaults
    BY HeartbeatAssumption DEF BeatGoesWrong, SessionsCounted
  <1>1. CASE UNCHANGED beatVars
    <2>1. UNCHANGED <<beat, sessionVars, userBusy, saidFine, chatFailed, beatFaults>>
      BY <1>1 DEF beatVars, sessionVars
    <2> QED BY <2>1, NoneMade DEF SessionsCounted, sessionVars
  <1>2. CASE UserChats
    <2>1. UNCHANGED <<beat, sessionVars, saidFine, chatFailed, beatFaults>> /\ userBusy' = ~userBusy
      BY <1>2 DEF UserChats
    <2> QED BY <2>1, NoneMade DEF SessionsCounted, sessionVars
  <1>b. Unnamed \subseteq 0..sessionsMade BY DEF Unnamed, SessionsCounted
  <1>3. ASSUME NEW s \in Sessions, SessionIsLost(s) PROVE SessionsCounted'
    <2>1. /\ UNCHANGED <<beat, beatSession, sessionsMade, asksIn, forgotten, userBusy, saidFine,
                         chatFailed>>
          /\ sessionsLost' = sessionsLost \cup {s} /\ s \in 1..sessionsMade /\ BeatGoesWrong
      BY <1>3 DEF SessionIsLost
    <2>2. sessionsLost' \subseteq 1..sessionsMade BY <2>1 DEF SessionsCounted
    <2> QED BY <1>a, <2>1, <2>2, NoneMade DEF SessionsCounted
  <1>4. ASSUME NEW b \in Beats, NEW state \in {"looking", "resolving", "over"},
               BeatMoves(b, state),
               UNCHANGED <<userBusy, beatSession, sessionsMade, sessionsLost, asksIn>>,
               forgotten' \subseteq forgotten \cup Unnamed,
               beat[b] \in {"made", "asking"} => state = "over",
               saidFine' = saidFine \/ saidFine' = saidFine \cup {b},
               chatFailed' = chatFailed \/ chatFailed' = chatFailed \cup {b},
               beatFaults' = beatFaults \/ BeatGoesWrong,
               beat[b] \in {"new", "looking", "resolving", "made", "asking"}
        PROVE  SessionsCounted'
    <2>1. /\ beat'[b] = state /\ \A c \in Beats \ {b} : beat'[c] = beat[c]
      BY <1>0, <1>4 DEF BeatDomains, BeatMoves
    <2>2. saidFine' \cup chatFailed' \subseteq Beats BY <1>4 DEF SessionsCounted
    <2>3. \A c \in Beats : beat'[c] \in {"new", "looking", "resolving"} =>
                             beat[c] \in {"new", "looking", "resolving"}
      BY <1>4, <2>1
    <2>4. \A c \in Beats : beat'[c] = "made" => beat[c] = "made" BY <1>4, <2>1
    <2>5. forgotten' \subseteq 0..sessionsMade BY <1>4, <1>b DEF SessionsCounted
    <2> QED BY <1>4, <1>a, <2>2, <2>3, <2>4, <2>5, NoneMade DEF SessionsCounted
  <1>5. ASSUME NEW b \in Beats, SessionIsMade(b) PROVE SessionsCounted'
    <2>1. /\ beat[b] = "resolving" /\ beat' = [beat EXCEPT ![b] = "made"]
          /\ asksIn' = [asksIn EXCEPT ![b] = sessionsMade'] /\ sessionsMade' = sessionsMade + 1
          /\ UNCHANGED <<userBusy, beatSession, sessionsLost, forgotten, saidFine, chatFailed,
                         beatFaults>>
      BY <1>5 DEF SessionIsMade, BeatMoves
    <2>2. sessionsMade \in Nat /\ sessionsMade' \in Nat /\ sessionsMade' \in 0..sessionsMade'
      BY <2>1 DEF SessionsCounted
    <2>3. /\ 0..sessionsMade \subseteq 0..sessionsMade'
          /\ 1..sessionsMade \subseteq 1..sessionsMade'
          /\ sessionsMade' # 0
      BY <2>1, <2>2
    <2>4. /\ asksIn'[b] = sessionsMade' /\ \A c \in Beats \ {b} : asksIn'[c] = asksIn[c]
          /\ beat'[b] = "made" /\ \A c \in Beats \ {b} : beat'[c] = beat[c]
          /\ asksIn[b] = 0
      BY <1>0, <2>1 DEF SessionsCounted, BeatDomains, NoSession
    <2>5. asksIn' \in [Beats -> 0..sessionsMade']
      <3>1. \A c \in Beats : asksIn'[c] \in 0..sessionsMade'
        BY <2>2, <2>3, <2>4 DEF SessionsCounted
      <3>2. asksIn' = [c \in Beats |-> asksIn'[c]] BY <2>1 DEF SessionsCounted
      <3> QED BY <3>1, <3>2
    <2>6. sessionsMade' <= Cardinality(HaveSession')
      <3> DEFINE N == HaveSession'
                 O == HaveSession
      <3>1. N = O \cup {b} /\ b \notin O
        BY <2>3, <2>4 DEF HaveSession, NoSession
      <3>2. O \subseteq Beats BY DEF HaveSession
      <3>3. sessionsMade \in Nat /\ sessionsMade <= Cardinality(O) BY DEF SessionsCounted
      <3> HIDE DEF N, O
      <3>4. IsFiniteSet(O) /\ Cardinality(O) \in Nat BY <3>2, BeatsFinite
      <3>5. Cardinality(N) = Cardinality(O) + 1 BY <3>1, <3>4, FS_AddElement
      <3>6. sessionsMade' <= Cardinality(N) BY <2>1, <3>3, <3>4, <3>5
      <3> QED BY <3>6 DEF N
    <2>7. \A c \in Beats : beat'[c] \in {"new", "looking", "resolving"} => asksIn'[c] = NoSession
      BY <2>4 DEF SessionsCounted
    <2>8. \A c \in Beats : beat'[c] = "made" => asksIn'[c] # NoSession
      BY <2>3, <2>4 DEF SessionsCounted, NoSession
    <2>9. /\ beatSession' \in 0..sessionsMade' /\ forgotten' \subseteq 0..sessionsMade'
          /\ sessionsLost' \subseteq 1..sessionsMade'
      BY <2>1, <2>3 DEF SessionsCounted
    <2> QED BY <2>1, <2>2, <2>5, <2>6, <2>7, <2>8, <2>9 DEF SessionsCounted
  <1>11. ASSUME NEW b \in Beats, SessionResolved(b) PROVE SessionsCounted'
    <2>1. /\ beat[b] \in {"resolving", "made"} /\ beat' = [beat EXCEPT ![b] = "asking"]
          /\ asksIn' = [asksIn EXCEPT ![b] = beatSession']
          /\ UNCHANGED <<userBusy, sessionsMade, sessionsLost, forgotten, saidFine, chatFailed,
                         beatFaults>>
      BY <1>11 DEF SessionResolved, BeatMoves
    <2>2. beatSession' \in 0..sessionsMade /\ beatSession' # 0
      <3>1. CASE beat[b] = "resolving"
        BY <1>11, <3>1 DEF SessionResolved, SessionStands, SessionsCounted, NoSession
      <3>2. CASE beat[b] = "made"
        BY <1>11, <3>2 DEF SessionResolved, SessionsCounted, NoSession
      <3> QED BY <2>1, <3>1, <3>2
    <2>4. /\ asksIn'[b] = beatSession' /\ \A c \in Beats \ {b} : asksIn'[c] = asksIn[c]
          /\ beat'[b] = "asking" /\ \A c \in Beats \ {b} : beat'[c] = beat[c]
      BY <1>0, <2>1 DEF SessionsCounted, BeatDomains
    <2>5. asksIn' \in [Beats -> 0..sessionsMade]
      BY <2>1, <2>2 DEF SessionsCounted
    <2>6. sessionsMade <= Cardinality(HaveSession')
      <3>1. HaveSession \subseteq HaveSession' BY <2>2, <2>4 DEF HaveSession, NoSession
      <3>2. HaveSession' \subseteq Beats /\ HaveSession \subseteq Beats BY DEF HaveSession
      <3> DEFINE N == HaveSession'
                 O == HaveSession
      <3>3. sessionsMade \in Nat /\ sessionsMade <= Cardinality(O) BY DEF SessionsCounted
      <3> HIDE DEF N, O
      <3>4. IsFiniteSet(N) /\ Cardinality(N) \in Nat /\ Cardinality(O) \in Nat
        BY <3>2, BeatsFinite DEF N, O
      <3>5. Cardinality(O) <= Cardinality(N) BY <3>1, <3>4, FS_Subset DEF N, O
      <3>6. sessionsMade <= Cardinality(N) BY <3>3, <3>4, <3>5
      <3> QED BY <3>6 DEF N
    <2>7. \A c \in Beats : beat'[c] \in {"new", "looking", "resolving"} => asksIn'[c] = NoSession
      BY <2>4 DEF SessionsCounted
    <2>8. \A c \in Beats : beat'[c] = "made" => asksIn'[c] # NoSession
      BY <2>4 DEF SessionsCounted
    <2> QED BY <2>1, <2>2, <2>5, <2>6, <2>7, <2>8 DEF SessionsCounted
  <1>12. CASE ServerRestarts
    <2>1. /\ beat' = [b \in Beats |-> IF beat[b] = "new" THEN "new" ELSE "over"]
          /\ userBusy' = FALSE /\ beatSession' = 0
          /\ forgotten' = forgotten \cup Unnamed \cup {beatSession} /\ BeatGoesWrong
          /\ UNCHANGED <<sessionsMade, sessionsLost, asksIn, saidFine, chatFailed>>
      BY <1>12 DEF ServerRestarts, NoSession
    <2>2. \A b \in Beats : beat'[b] \in {"new", "over"} /\ (beat'[b] = "new" => beat[b] = "new")
      BY <2>1
    <2>3. 0 \in 0..sessionsMade BY DEF SessionsCounted
    <2>4. forgotten' \subseteq 0..sessionsMade BY <1>b, <2>1 DEF SessionsCounted
    <2>5. \A b \in Beats : /\ beat'[b] = "made" => beat[b] = "made"
                          /\ beat'[b] \in {"new", "looking", "resolving"} =>
                               beat[b] \in {"new", "looking", "resolving"}
      BY <2>2
    <2> QED BY <1>a, <2>1, <2>3, <2>4, <2>5, NoneMade DEF SessionsCounted
  <1>6. ASSUME NEW b \in Beats, BeatStarts(b) PROVE SessionsCounted'
    BY <1>4, <1>6 DEF BeatStarts, sessionVars
  <1>7. ASSUME NEW b \in Beats, SignalsCollected(b) PROVE SessionsCounted'
    BY <1>4, <1>7 DEF SignalsCollected, BeatReports, sessionVars
  <1>8. ASSUME NEW b \in Beats, ModelAnswers(b) PROVE SessionsCounted'
    BY <1>4, <1>8 DEF ModelAnswers, BeatReports, sessionVars
  <1>9. ASSUME NEW b \in Beats, ChatBreaks(b) PROVE SessionsCounted'
    BY <1>4, <1>9 DEF ChatBreaks, BeatReports, sessionVars
  <1>10. ASSUME NEW b \in Beats, BeatThrows(b) PROVE SessionsCounted'
    BY <1>4, <1>10 DEF BeatThrows, BeatReports
  <1> QED BY <1>1, <1>2, <1>3, <1>5, <1>6, <1>7, <1>8, <1>9, <1>10, <1>11, <1>12 DEF BeatNext

\* The heartbeat's variables keep to their domains (BeatTypeOK).
LEMMA BeatsAreTyped == BeatSpec => []BeatTypeOK
  <1>1. BeatInit => SessionsCounted
    <2> SUFFICES ASSUME BeatInit PROVE SessionsCounted OBVIOUS
    <2>1. HaveSession \subseteq Beats BY DEF HaveSession
    <2>2. Cardinality(HaveSession) \in Nat BY <2>1, BeatsFinite
    <2>3. sessionsMade <= Cardinality(HaveSession) BY <2>2 DEF BeatInit
    <2>4. asksIn \in [Beats -> 0..sessionsMade] BY DEF BeatInit, NoSession
    <2>5. saidFine \cup chatFailed \subseteq Beats /\ userBusy \in BOOLEAN BY DEF BeatInit
    <2>6. beatFaults \in 0..MaxBeatFaults BY HeartbeatAssumption DEF BeatInit
    <2>7. beatSession \in 0..sessionsMade /\ sessionsLost \subseteq 1..sessionsMade
      BY DEF BeatInit, NoSession
    <2>8. \A b \in Beats : asksIn[b] = NoSession BY DEF BeatInit
    <2>9. sessionsMade \in Nat /\ forgotten \subseteq 0..sessionsMade BY DEF BeatInit
    <2>10. \A b \in Beats : beat[b] # "made" BY DEF BeatInit
    <2> QED BY <2>3, <2>4, <2>5, <2>6, <2>7, <2>8, <2>9, <2>10
      DEF SessionsCounted
  <1>2. BeatInv /\ SessionsCounted => BeatTypeOK
    <2> SUFFICES ASSUME BeatInv, SessionsCounted PROVE BeatTypeOK OBVIOUS
    <2>0. BeatDomains BY DEF BeatInv
    <2>1. HaveSession \subseteq Beats BY DEF HaveSession
    <2>2. Cardinality(HaveSession) \in Nat /\ Cardinality(HaveSession) <= Cardinality(Beats)
          /\ Cardinality(Beats) \in Nat
      BY <2>1, BeatsFinite
    <2>3. sessionsMade \in 0..Cardinality(Beats) BY <2>2 DEF SessionsCounted
    <2>4. 1..sessionsMade \subseteq Sessions BY <2>2, <2>3 DEF Sessions
    <2>5. 0..sessionsMade \subseteq Sessions \cup {NoSession}
      BY <2>2, <2>3 DEF Sessions, NoSession
    <2>6. asksIn \in [Beats -> Sessions \cup {NoSession}] BY <2>5 DEF SessionsCounted
    <2>7. /\ beatSession \in Sessions \cup {NoSession} /\ sessionsLost \subseteq Sessions
          /\ forgotten \subseteq Sessions \cup {NoSession}
      BY <2>4, <2>5 DEF SessionsCounted
    <2>8. /\ beat \in [Beats -> {"new", "looking", "resolving", "made", "asking", "over"}]
          /\ report \in [Beats -> {"none", "ok", "digest", "error"}]
          /\ {beating, userBusy} \subseteq BOOLEAN
          /\ found \cup saidFine \cup chatFailed \subseteq Beats /\ beatFaults \in 0..MaxBeatFaults
      BY <2>0 DEF BeatDomains, SessionsCounted
    <2> QED BY <2>3, <2>6, <2>7, <2>8 DEF BeatTypeOK
  <1> QED BY <1>1, <1>2, BeatInitially, BeatStep, SessionsStep, PTL DEF BeatSpec

\* Both, with the parts beside them.
THEOREM TimersAreHeard == BackgroundSpec => []TimersSpeakOnce
  <1>1. BackgroundInit => ReminderInit /\ BeatInit BY DEF BackgroundInit
  <1>2. BackgroundNext => [ReminderNext]_reminderVars /\ [BeatNext]_beatVars
    BY DEF BackgroundNext
  <1>3. UNCHANGED backVars => UNCHANGED reminderVars /\ UNCHANGED beatVars BY DEF backVars
  <1>4. [BackgroundNext]_backVars => [ReminderNext]_reminderVars /\ [BeatNext]_beatVars
    BY <1>2, <1>3
  <1>5. BackgroundSpec => ReminderSpec /\ BeatSpec
    BY <1>1, <1>4, PTL DEF BackgroundSpec, ReminderSpec, BeatSpec
  <1>6. AnnouncedOnce /\ (OneHeartbeat /\ TroubleIsTold) => TimersSpeakOnce
    BY DEF TimersSpeakOnce
  <1> QED BY <1>5, <1>6, RemindersAreAnnounced, TroubleReachesUser, PTL

(***************************************************************************)
(* All of it together.                                                     *)
(***************************************************************************)
\* Every variable of what goes on without the user keeps to its domain: the tasks', the
\* reminders', the heartbeat's, the lock's, the mail's and the model request's, for any
\* values of their parameters (task-service.ts, reminder-service.ts, heartbeat-service.ts,
\* file-lock.ts, colleague-office.ts, openai.ts).
THEOREM BackgroundIsTyped == BackgroundSpec => []BackgroundTypeOK
  <1>1. /\ BackgroundInit => Init /\ part \in Parts
        /\ BackgroundInit => ReminderInit /\ BeatInit
        /\ BackgroundInit => SpinInit /\ MailInit /\ StreamInit
    BY DEF BackgroundInit
  <1>2. [BackgroundNext]_backVars =>
          /\ [Next]_vars /\ UNCHANGED part
          /\ [ReminderNext]_reminderVars /\ [BeatNext]_beatVars
          /\ [SpinNext]_spinVars /\ [MailNext]_mailVars /\ [StreamNext]_streamVars
    BY DEF BackgroundNext, backVars
  <1>3. BackgroundSpec => [](part \in Parts)
    <2>1. part \in Parts /\ UNCHANGED part => (part \in Parts)' OBVIOUS
    <2> QED BY <1>1, <1>2, <2>1, PTL DEF BackgroundSpec
  <1>4. BackgroundSpec => []TypeOK
    BY <1>1, <1>2, TypeInit, TypeStep, PTL DEF BackgroundSpec
  <1>5. BackgroundSpec => ReminderSpec /\ BeatSpec
    BY <1>1, <1>2, PTL DEF BackgroundSpec, ReminderSpec, BeatSpec
  <1>6. BackgroundSpec => SpinSpec /\ MailSpec /\ StreamSpec
    BY <1>1, <1>2, PTL DEF BackgroundSpec, SpinSpec, MailSpec, StreamSpec
  <1>7. /\ part \in Parts /\ TypeOK
        /\ ReminderTypeOK /\ BeatTypeOK /\ SpinTypeOK /\ MailTypeOK /\ StreamTypeOK
        => BackgroundTypeOK
    BY DEF BackgroundTypeOK
  <1> QED BY <1>3, <1>4, <1>5, <1>6, <1>7, RemindersAreTyped, BeatsAreTyped, SpinTypeCorrect,
             MailIsTyped, StreamTypeCorrect, PTL

===============================================================================
