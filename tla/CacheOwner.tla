---------------------------- MODULE CacheOwner -----------------------------
(***************************************************************************)
(* Whose mail the cache holds: signing in and out, in the desktop shell    *)
(* (which clears the cache when the user signs out or resets the bridge,   *)
(* and leaves a marker for the next start when it cannot) and in the       *)
(* command line client (which also clears it when somebody else signs in). *)
(* The process may die between the steps, the server may refuse the stored *)
(* secrets, and clearing or writing a file may fail.                       *)
(***************************************************************************)
EXTENDS Naturals

CONSTANTS
  Accounts, Nobody,
  OwnerFaults      \* bound on crashes and failing file operations together

ASSUME OwnerAssumption == Nobody \notin Accounts /\ OwnerFaults \in Nat

VARIABLES
  shell,           \* which of the two programs keeps this data directory
  cacheRows,       \* accounts that have rows in the cache, their outbox included
  marker,          \* user_data_clear_pending exists (desktop)
  owner,           \* cache_user_id of the state file (command line)
  account,         \* account of the state file (command line)
  secrets,         \* account whose device secrets are stored
  session,         \* account of the running program
  doing,           \* what the running program is doing
  \* observation only
  left,            \* accounts whose rows a failed clearing left behind
  kept,            \* accounts the desktop shell gave up or replaced without clearing the cache
  ownerFaults

ownerVars == <<shell, cacheRows, marker, owner, account, secrets, session, doing, left, kept, ownerFaults>>

OwnerSteps == {"down", "login", "run", "clear", "forget", "destroy", "finish", "record"}

OwnerInit ==
  /\ shell \in {"desktop", "cli"}
  /\ cacheRows = {} /\ marker = FALSE /\ owner = Nobody /\ account = Nobody
  /\ secrets = Nobody /\ session = Nobody /\ doing = "down"
  /\ left = {} /\ kept = {} /\ ownerFaults = 0

Fault == ownerFaults < OwnerFaults /\ ownerFaults' = ownerFaults + 1
NextDoes(s) == doing' = s

(* clear_all_user_data: one transaction over every table, then the scrub,
   which may fail after the rows are gone. *)
CacheCleared == cacheRows' = {} /\ left' = {} /\ kept' = {session} \ {secrets, Nobody}
ClearWorks == CacheCleared /\ UNCHANGED ownerFaults
ScrubFails == Fault /\ CacheCleared
ClearFails == Fault /\ UNCHANGED <<cacheRows, kept>> /\ left' = left \union cacheRows

(* What the program is signed in to fetches mail. *)
Sync ==
  /\ doing = "run" /\ session # Nobody
  /\ cacheRows' = cacheRows \union {session}
  /\ UNCHANGED <<shell, marker, owner, account, secrets, session, doing, left, kept, ownerFaults>>

OwnerCrash ==
  /\ doing # "down" /\ Fault
  /\ NextDoes("down") /\ session' = Nobody
  /\ UNCHANGED <<shell, cacheRows, marker, owner, account, secrets, left, kept>>

OwnerQuit ==
  /\ doing = "run"
  /\ NextDoes("down") /\ session' = Nobody
  /\ UNCHANGED <<shell, cacheRows, marker, owner, account, secrets, left, kept, ownerFaults>>

-----------------------------------------------------------------------------
(* The desktop shell.  It keeps no record of whose rows the cache holds. *)

(* finish_pending_clear: its error is only logged. *)
FinishPendingClear ==
  \/ ~marker /\ UNCHANGED <<cacheRows, left, kept, marker, ownerFaults>>
  \/ marker /\ ClearWorks /\ marker' = FALSE
  \/ marker /\ ScrubFails /\ UNCHANGED marker
  \/ marker /\ ClearFails /\ UNCHANGED marker

DesktopStart ==
  /\ shell = "desktop" /\ doing = "down"
  /\ FinishPendingClear
  /\ NextDoes(IF secrets # Nobody THEN "login" ELSE "run")
  /\ UNCHANGED <<shell, owner, account, secrets, session>>

(* The sign-in at the start, with the stored secrets.  When the server refuses
   them they are deleted, or that fails; on another error they stay.  The cache
   is left as it is either way, and no marker is written. *)
AutoLogin ==
  /\ shell = "desktop" /\ doing = "login" /\ NextDoes("run")
  /\ \/ session' = secrets /\ UNCHANGED <<secrets, kept, ownerFaults>>
     \/ UNCHANGED <<session, secrets, kept, ownerFaults>>
     \/ secrets' = Nobody /\ kept' = kept \union {secrets} /\ UNCHANGED <<session, ownerFaults>>
     \/ Fault /\ kept' = kept \union {secrets} /\ UNCHANGED <<session, secrets>>
  /\ UNCHANGED <<shell, cacheRows, marker, owner, account, left>>

(* check_setup_status, confirmed: the secrets are stored and then used.  What is
   served stays as it was when the sign-in fails after that, and as long as a
   runtime runs with the earlier session.  Nothing asks who is signed in, or
   whose rows the cache holds. *)
DesktopSignIn ==
  /\ shell = "desktop" /\ doing = "run"
  /\ \E a \in Accounts :
       /\ secrets' = a /\ kept' = kept \union ({session, secrets} \ {a, Nobody})
       /\ session' = a \/ UNCHANGED session
  /\ UNCHANGED <<shell, cacheRows, marker, owner, account, doing, left, ownerFaults>>

(* sign_out: the runtime is stopped, the session dropped and the marker
   written, or not. *)
DesktopSignOut ==
  /\ shell = "desktop" /\ doing = "run"
  /\ session' = Nobody
  /\ \/ marker' = TRUE /\ UNCHANGED ownerFaults
     \/ Fault /\ UNCHANGED marker
  /\ NextDoes("clear")
  /\ UNCHANGED <<shell, cacheRows, owner, account, secrets, left, kept>>

(* clear_user_data_or_defer: five attempts; the marker goes when one worked. *)
DesktopClear ==
  /\ shell = "desktop" /\ doing = "clear"
  /\ \/ ClearWorks /\ marker' = FALSE
     \/ ScrubFails /\ UNCHANGED marker
     \/ ClearFails /\ UNCHANGED marker
  /\ NextDoes("forget")
  /\ UNCHANGED <<shell, owner, account, secrets, session>>

(* clear_identity and clear_passphrase follow whatever became of the rows. *)
DesktopForget ==
  /\ shell = "desktop" /\ doing = "forget"
  /\ secrets' = Nobody /\ NextDoes("run")
  /\ UNCHANGED <<shell, cacheRows, marker, owner, account, session, left, kept, ownerFaults>>

(* reset_bridge_data: the rows go, the session stays. *)
ResetBridgeData ==
  /\ shell = "desktop" /\ doing = "run"
  /\ ClearWorks \/ ScrubFails
  /\ UNCHANGED <<shell, marker, owner, account, secrets, session, doing>>

-----------------------------------------------------------------------------
(* The command line client *)

(* serve: only for an account of the state file whose secrets are there. *)
CliServe ==
  /\ shell = "cli" /\ doing = "down" /\ account # Nobody /\ secrets # Nobody
  /\ session' = secrets /\ account' = secrets /\ NextDoes("run")
  /\ UNCHANGED <<shell, cacheRows, marker, owner, secrets, left, kept, ownerFaults>>

(* login: the device is confirmed and its secrets are stored; an account of
   the state file with stored secrets is signed in already. *)
CliLogin ==
  /\ shell = "cli" /\ doing = "down" /\ account = Nobody
  /\ \E a \in Accounts : secrets' = a
  /\ NextDoes("finish")
  /\ UNCHANGED <<shell, cacheRows, marker, owner, account, session, left, kept, ownerFaults>>

(* Mutant: the cache of the previous owner is kept when the same device signs
   in again. *)
OtherOwnerMut == owner # Nobody /\ owner = secrets
OtherOwner == owner # Nobody /\ owner # secrets

(* finish: the cache of another owner is cleared, or the sign-in fails. *)
CliFinish ==
  /\ shell = "cli" /\ doing = "finish"
  /\ \/ ~OtherOwner /\ NextDoes("record") /\ UNCHANGED <<cacheRows, left, kept, ownerFaults>>
     \/ OtherOwner /\ ClearWorks /\ NextDoes("record")
     \/ OtherOwner /\ (ScrubFails \/ ClearFails) /\ NextDoes("down")
  /\ UNCHANGED <<shell, marker, owner, account, secrets, session>>

(* state::update records the account and the owner in one write. *)
CliRecord ==
  /\ shell = "cli" /\ doing = "record"
  /\ \/ owner' = secrets /\ account' = secrets /\ UNCHANGED ownerFaults
     \/ Fault /\ UNCHANGED <<owner, account>>
  /\ NextDoes("down")
  /\ UNCHANGED <<shell, cacheRows, marker, secrets, session, left, kept>>

(* forget_device: the server no longer accepts the device. *)
ForgetDevice ==
  /\ shell = "cli" /\ doing = "run"
  /\ secrets' = Nobody /\ session' = Nobody /\ NextDoes("down")
  /\ \/ account' = Nobody /\ UNCHANGED ownerFaults
     \/ Fault /\ UNCHANGED account
  /\ UNCHANGED <<shell, cacheRows, marker, owner, left, kept>>

(* logout, its first half: the secrets go. *)
CliLogout ==
  /\ shell = "cli" /\ doing = "down" /\ account # Nobody
  /\ secrets' = Nobody /\ NextDoes("destroy")
  /\ UNCHANGED <<shell, cacheRows, marker, owner, account, session, left, kept, ownerFaults>>

(* Mutant: the state file is reset and the owner with it. *)
KeepCacheMut ==
  /\ shell = "cli" /\ doing = "destroy"
  /\ account' = Nobody /\ owner' = Nobody /\ NextDoes("down")
  /\ UNCHANGED <<shell, cacheRows, marker, secrets, session, left, kept, ownerFaults>>

(* logout --keep-cache: the state file keeps nothing but the owner. *)
KeepCache ==
  /\ shell = "cli" /\ doing = "destroy"
  /\ \/ account' = Nobody /\ UNCHANGED ownerFaults
     \/ Fault /\ UNCHANGED account
  /\ NextDoes("down")
  /\ UNCHANGED <<shell, cacheRows, marker, owner, secrets, session, left, kept>>

(* logout: destroy_cache_files, then the state file, the owner with it. *)
DestroyCache ==
  /\ shell = "cli" /\ doing = "destroy"
  /\ ClearWorks \/ ClearFails
  /\ account' = Nobody /\ owner' = Nobody /\ NextDoes("down")
  /\ UNCHANGED <<shell, marker, secrets, session>>

OwnerStep ==
  \/ Sync \/ OwnerCrash \/ OwnerQuit
  \/ DesktopStart \/ AutoLogin \/ DesktopSignIn \/ DesktopSignOut \/ DesktopClear \/ DesktopForget
  \/ ResetBridgeData
  \/ CliServe \/ CliLogin \/ CliFinish \/ CliRecord \/ ForgetDevice \/ CliLogout
  \/ KeepCache \/ DestroyCache

OwnerSpec == OwnerInit /\ [][OwnerStep]_ownerVars

-----------------------------------------------------------------------------
(* Properties *)

(* Mail of somebody else than the account being served is only in the cache
   when an attempt to clear it failed, which is logged and, at a sign-out, told
   to the user; a crash between any two steps of signing in or out does not
   leave any.  But the desktop shell clears the cache only at a sign-out or a
   reset: rows of an account whose stored secrets the server refused, or which another one
   replaced without a sign-out, stay and are served to whoever signs in next.
   (sign_out, clear_user_data_or_defer, the sign-in at the start,
   check_setup_status, login finish, logout.) *)
OnlyOwnMail == session # Nobody => cacheRows \subseteq {session} \union left \union kept

(* The command line client knows whose cache it holds: rows belong to the
   owner it recorded, so the next sign-in can tell.  (login finish, state::update,
   forget_device.) *)
OwnerKnown == shell = "cli" => cacheRows \subseteq {owner} \union left
=============================================================================
