----------------------------- MODULE MailLedger -----------------------------
(***************************************************************************)
(* What a colleague's mailbox promises to the hub, without its processes,  *)
(* copies and locks: a ledger of mails whose statuses only move on, and    *)
(* the completions the user has been told about.                           *)
(***************************************************************************)
EXTENDS Integers

CONSTANT Mails

VARIABLES
  ledger,   \* mail -> its status
  told,     \* mail -> how often its completion was told
  private   \* mails that answer a colleague's question

LedgerInit ==
  /\ ledger = [m \in Mails |-> "absent"]
  /\ told = [m \in Mails |-> 0]
  /\ private = {}

\* The statuses a mail may have next; an outcome is final.
Later == [absent  |-> {"absent", "queued", "running", "done", "failed"},
          queued  |-> {"queued", "running", "done", "failed"},
          running |-> {"running", "done", "failed"},
          done    |-> {"done"},
          failed  |-> {"failed"}]

\* One write of the file may move several mails on.
Advance ==
  /\ \E new \in [Mails -> {"absent", "queued", "running", "done", "failed"}] :
       /\ \A m \in Mails : new[m] \in Later[ledger[m]]
       /\ ledger' = new
  /\ UNCHANGED <<told, private>>

\* A question is private before it is filed.
Question(m) ==
  /\ ledger[m] = "absent"
  /\ private' = private \cup {m}
  /\ UNCHANGED <<ledger, told>>

Tell(m) ==
  /\ ledger[m] \in {"done", "failed"}
  /\ m \notin private
  /\ told[m] = 0
  /\ told' = [told EXCEPT ![m] = 1]
  /\ UNCHANGED <<ledger, private>>

LedgerNext == Advance \/ \E m \in Mails : Question(m) \/ Tell(m)

Spec == LedgerInit /\ [][LedgerNext]_<<ledger, told, private>>
=============================================================================
