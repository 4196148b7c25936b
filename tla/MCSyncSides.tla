----------------------------- MODULE MCSyncSides ----------------------------
(***************************************************************************)
(* The sync pass, and the mailbox views that show what it caches, share no *)
(* state in these models and are checked side by side: a behaviour moves   *)
(* one of them.  Nothing fair is enabled in the one that rests: an account *)
(* without mail, or a pass that never begins.                              *)
(***************************************************************************)
EXTENDS MailboxView, SyncPass

VARIABLE active

SidesInit ==
  \/ active = "views" /\ Init /\ SyncInitWith("stopped")
  \/ active = "pass" /\ InitWith({}, 0) /\ SyncInit

SidesNext ==
  /\ UNCHANGED active
  /\ \/ active = "views" /\ Next /\ UNCHANGED syncVars
     \/ active = "pass" /\ SyncNext /\ UNCHANGED vars

SidesSpec ==
  /\ SidesInit /\ [][SidesNext]_<<active, vars, syncVars>>
  /\ MailFairness /\ SyncFairness
=============================================================================
