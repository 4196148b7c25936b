---------------------------- MODULE MCWriteSides ----------------------------
(***************************************************************************)
(* What apps have the bridge write to the account, the mail they send, the *)
(* contacts they store and the messages they delete over POP3, checked     *)
(* side by side: a behaviour moves one of the three, which share no state. *)
(***************************************************************************)
EXTENDS Outbox, ContactStore, Maildrop, TLC

VARIABLE active

Symmetric == Permutations(Apps) \union Permutations(PopClients)

SidesInit ==
  /\ active \in {"outbox", "contacts", "maildrop"} /\ Init /\ ContactInit /\ MaildropInit
  /\ active # "contacts" => issued = 0

SidesNext ==
  /\ UNCHANGED active
  /\ \/ active = "outbox" /\ Next /\ UNCHANGED <<davVars, popVars>>
     \/ active = "contacts" /\ ContactNext /\ UNCHANGED <<vars, popVars>>
     \/ active = "maildrop" /\ MaildropNext /\ UNCHANGED <<vars, davVars>>

SidesSpec == SidesInit /\ [][SidesNext]_<<active, vars, davVars, popVars>>
=============================================================================
