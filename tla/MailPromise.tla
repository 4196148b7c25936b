----------------------------- MODULE MailPromise ----------------------------
(***************************************************************************)
(* What the outbox promises about the mail it has taken over, without the  *)
(* worker, the network and the database: mail it waits to send ends as     *)
(* sent or as failed, "sent" is final and needs evidence, failed mail can  *)
(* be tried again, and no client_send_id goes out twice.                   *)
(***************************************************************************)
EXTENDS Naturals

CONSTANTS
  Submissions,  (* hand-overs of a message by the mail app                 *)
  Key(_)        (* the client_send_id of a submission                      *)

VARIABLES
  fate,  \* "none", "waiting", "sent" or "failed", of each submission
  out,   \* how often a client_send_id has gone out
  kept   \* client_send_ids of which the user keeps a copy of their own

vars == <<fate, out, kept>>

Init ==
  /\ fate = [s \in Submissions |-> "none"]
  /\ out = [k \in Submissions |-> 0]
  /\ kept = {}

TakeOver(s) ==
  /\ fate[s] = "none"
  /\ fate' = [fate EXCEPT ![s] = "waiting"]
  /\ UNCHANGED <<out, kept>>

GoOut(k) ==
  /\ out[k] = 0
  /\ out' = [out EXCEPT ![k] = 1]
  /\ UNCHANGED <<fate, kept>>

Keep(k) ==
  /\ kept' = kept \cup {k}
  /\ UNCHANGED <<fate, out>>

Close(s) ==
  /\ fate[s] \in {"waiting", "failed"}
  /\ out[Key(s)] = 1 \/ Key(s) \in kept
  /\ fate' = [fate EXCEPT ![s] = "sent"]
  /\ UNCHANGED <<out, kept>>

GiveUp(s) ==
  /\ fate[s] = "waiting"
  /\ fate' = [fate EXCEPT ![s] = "failed"]
  /\ UNCHANGED <<out, kept>>

TryAgain(s) ==
  /\ fate[s] = "failed"
  /\ fate' = [fate EXCEPT ![s] = "waiting"]
  /\ UNCHANGED <<out, kept>>

Next ==
  \E s \in Submissions :
    TakeOver(s) \/ GoOut(s) \/ Keep(s) \/ Close(s) \/ GiveUp(s) \/ TryAgain(s)

Spec == Init /\ [][Next]_vars
=============================================================================
