----------------------------- MODULE MCStorage ------------------------------
(***************************************************************************)
(* The components around the local database, and the flag changes kept in  *)
(* it, share no state in these models and are checked side by side: a      *)
(* behaviour moves one of them, so the states of the run are those of each *)
(* component, not their product.                                           *)
(***************************************************************************)
EXTENDS JmapLog, StoreOpen, CacheOwner, JmapPush, FlagSync, TLC

VARIABLE active

CONSTANT SetAtFirst  \* bound: the flags set at first; the others are clear

Symmetric == Permutations(Ids) \union Permutations(Writers)

(* A side that does not move has one initial state. *)
StorageInit ==
  /\ active \in {"log", "open", "owner", "push", "flags"}
  /\ LogInit /\ StoreInit /\ OwnerInit /\ PushInit
  /\ IF active = "flags" THEN FlagInitWith(SetAtFirst, "idle") ELSE FlagInitWith({}, "stopped")
  /\ active # "open" => wal["db"] = {} /\ file["plain"] = Missing
  /\ active # "owner" => shell = "cli"

StorageNext ==
  /\ UNCHANGED active
  /\ \/ active = "log" /\ LogNext /\ UNCHANGED <<storeVars, ownerVars, pushVars, flagVars>>
     \/ active = "open" /\ StoreNext /\ UNCHANGED <<logVars, ownerVars, pushVars, flagVars>>
     \/ active = "owner" /\ OwnerStep /\ UNCHANGED <<logVars, storeVars, pushVars, flagVars>>
     \/ active = "push" /\ PushNext /\ UNCHANGED <<logVars, storeVars, ownerVars, flagVars>>
     \/ active = "flags" /\ FlagNext /\ UNCHANGED <<logVars, storeVars, ownerVars, pushVars>>

StorageSpec ==
  StorageInit /\ [][StorageNext]_<<active, logVars, storeVars, ownerVars, pushVars, flagVars>>
=============================================================================
