---------------------------- MODULE MCHubSession ----------------------------
(***************************************************************************)
(* Small instances of HubSession: two chats of the user and a wrap-up.     *)
(* One tool needs no approval, one needs one, one needs two; dispatching a *)
(* colleague needs none.                                                   *)
(***************************************************************************)
EXTENDS HubSession

CONSTANTS user1, user2, wrapUp, text, office, look, send, power, delegate

MCLevel == [t \in Tools |-> CASE t = power -> 3 [] t = send -> 2 [] OTHER -> 0]
MCOneService == [c \in Chats |-> text]
\* The routes have a service of their own.
MCTwoServices == [c \in Chats |-> IF c \in WrapUps THEN office ELSE text]
MCAllowlist == [c \in Chats |-> IF c \in WrapUps THEN {look} ELSE Tools]
MCBudget == [c \in Chats |-> IF c \in WrapUps THEN 1 ELSE 8]
=============================================================================
