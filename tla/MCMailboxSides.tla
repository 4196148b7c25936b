------------------------- MODULE MCMailboxSides ----------------------------
(***************************************************************************)
(* Two ways to begin, checked side by side: one session beside everything  *)
(* that happens to a mailbox, and two sessions with a mailbox of all the   *)
(* messages to themselves, which write to it and do not idle (IDLE reports *)
(* what NOOP does, and the lone session has it).                           *)
(***************************************************************************)
EXTENDS MailboxView, TLC

VARIABLE away  \* the sessions that never connect

Symmetric == Permutations(Sessions)

SidesInit ==
  \/ InitWith(Stored, MaxOps) /\ \E s \in Sessions : away = Sessions \ {s}
  \/ InitWith(Msgs, 0) /\ away = {}

SidesNext ==
  /\ NextOf(Sessions \ away) /\ UNCHANGED away
  /\ away = {} => \A s \in Sessions : cmd'[s].op # "subscribe" /\ ~conn'[s].ro

SidesSpec == SidesInit /\ [][SidesNext]_<<vars, away>>
=============================================================================
