---------------------------- MODULE MCFlagSides -----------------------------
(***************************************************************************)
(* Flag changes and the indexing of older mail share no state in these     *)
(* models and are checked side by side: a behaviour moves one of them.  In *)
(* the other nothing fair is enabled: a sync pass that never starts, an    *)
(* indexing without mail that never begins.                                *)
(***************************************************************************)
EXTENDS FlagSync, HistoryIndex

VARIABLE active

SidesInit ==
  \/ active = "flags" /\ FlagInit /\ HistoryInitWith({}, "stopped")
  \/ active = "history" /\ FlagInitWith({}, "stopped") /\ HistoryInit

SidesNext ==
  /\ UNCHANGED active
  /\ \/ active = "flags" /\ FlagNext /\ UNCHANGED historyVars
     \/ active = "history" /\ HistoryNext /\ UNCHANGED flagVars

SidesSpec ==
  /\ SidesInit /\ [][SidesNext]_<<active, flagVars, historyVars>>
  /\ FlagFairness /\ HistoryFairness
=============================================================================
