------------------------- MODULE MCColleagueMailbox -------------------------
(***************************************************************************)
(* Small instances of ColleagueMailbox: a colleague, the office, and at    *)
(* most one other colleague who writes into the same mailbox.              *)
(***************************************************************************)
EXTENDS ColleagueMailbox

CONSTANTS office1, owner1, peer1   \* the processes, as model values

MCOnePeer == {peer1}
MCBothDie == {office1, owner1}
MCChildDies == {owner1}
=============================================================================
