------------------------------ MODULE Maildrop ------------------------------
(***************************************************************************)
(* POP3: a client's session with the maildrop it was given at PASS, the    *)
(* marks of DELE and RSET, and QUIT, which moves what is marked to the     *)
(* trash one call at a time, beside the sync pass and other Aster clients  *)
(* that move mail of the same inbox.  Numbers are those of the maildrop,   *)
(* whatever becomes of the inbox.                                          *)
(***************************************************************************)
EXTENDS Naturals, Sequences, FiniteSets

CONSTANTS
  PopMails,      \* messages of the inbox, numbered in the order of their UIDs
  PopClients,
  NoClient,
  PopFaults      \* bound on calls that fail and connections that break

ASSUME MaildropAssumption ==
  /\ PopMails \subseteq Nat /\ IsFiniteSet(PopMails) /\ NoClient \notin PopClients /\ PopFaults \in Nat

VARIABLES
  place,       \* the account: "inbox", "archive", "trash" or "gone"
  inbox,       \* the messages of the inbox in the local cache
  listedInbox, \* what the sync pass has listed and not yet written, or Nothing
  popActive,   \* the client that holds POP3_SESSION_ACTIVE
  popAt,       \* "out", "in", "quit" (before a call) or "moved" (after one that worked)
  maildrop,    \* messages, as they were at PASS
  marked,      \* deleted, the positions that are true
  anyFailed,   \* any_failed
  \* observation only
  wanted,      \* the messages the client wants gone, as it has read and marked them
  owed,        \* of those, the ones that were in the inbox ever since QUIT
  removed,     \* messages trashed for a client that did not want it
  popTold,     \* the answer to QUIT
  popFaults

mailVars == <<place, inbox, listedInbox>>
popVars == <<mailVars, popActive, popAt, maildrop, marked, anyFailed, wanted, owed,
             removed, popTold, popFaults>>

Nothing == {NoClient}
(* The rows of S by UID. *)
Listed(S) ==
  CHOOSE q \in [1..Cardinality(S) -> S] : \A i, j \in DOMAIN q : i < j => q[i] < q[j]
PopFault == popFaults < PopFaults /\ popFaults' = popFaults + 1

MaildropInit ==
  /\ place = [m \in PopMails |-> "inbox"] /\ inbox = PopMails /\ listedInbox = Nothing
  /\ popActive = NoClient /\ popAt = [c \in PopClients |-> "out"]
  /\ maildrop = [c \in PopClients |-> <<>>] /\ marked = [c \in PopClients |-> {}]
  /\ anyFailed = [c \in PopClients |-> FALSE]
  /\ wanted = [c \in PopClients |-> {}] /\ owed = [c \in PopClients |-> {}]
  /\ removed = {} /\ popTold = [c \in PopClients |-> "nothing"] /\ popFaults = 0

(* A message goes to another place of the account. *)
Moves(m, there) ==
  /\ place' = [place EXCEPT ![m] = there]
  /\ owed' = [c \in PopClients |-> owed[c] \ {m}]

-----------------------------------------------------------------------------
(* The session *)

(* PASS: one session at a time; the others are refused and closed. *)
Pass(c) ==
  /\ popAt[c] = "out" /\ popActive = NoClient /\ popActive' = c
  /\ popAt' = [popAt EXCEPT ![c] = "in"]
  /\ maildrop' = [maildrop EXCEPT ![c] = Listed(inbox)]
  /\ marked' = [marked EXCEPT ![c] = {}] /\ wanted' = [wanted EXCEPT ![c] = {}]
  /\ popTold' = [popTold EXCEPT ![c] = "nothing"]
  /\ UNCHANGED <<mailVars, anyFailed, owed, removed, popFaults>>

Dele(c) ==
  /\ popAt[c] = "in"
  /\ \E n \in DOMAIN maildrop[c] \ marked[c] :
       /\ marked' = [marked EXCEPT ![c] = @ \union {n}]
       /\ wanted' = [wanted EXCEPT ![c] = @ \union {maildrop[c][n]}]
  /\ UNCHANGED <<mailVars, popActive, popAt, maildrop, anyFailed, owed, removed, popTold, popFaults>>

Rset(c) ==
  /\ popAt[c] = "in" /\ marked[c] # {}
  /\ marked' = [marked EXCEPT ![c] = {}] /\ wanted' = [wanted EXCEPT ![c] = {}]
  /\ UNCHANGED <<mailVars, popActive, popAt, maildrop, anyFailed, owed, removed, popTold, popFaults>>

(* Pop3SessionLock is dropped with the session. *)
Closes(c) ==
  /\ popAt' = [popAt EXCEPT ![c] = "out"] /\ popActive' = NoClient
  /\ maildrop' = [maildrop EXCEPT ![c] = <<>>] /\ marked' = [marked EXCEPT ![c] = {}]
  /\ anyFailed' = [anyFailed EXCEPT ![c] = FALSE]

(* The connection ends without QUIT, or the bridge stops while it works on it. *)
PopBreaks(c) ==
  /\ popAt[c] # "out" /\ PopFault /\ Closes(c)
  /\ UNCHANGED <<mailVars, wanted, owed, removed, popTold>>

-----------------------------------------------------------------------------
(* QUIT *)

Quit(c) ==
  /\ popAt[c] = "in" /\ popAt' = [popAt EXCEPT ![c] = "quit"]
  /\ owed' = [owed EXCEPT ![c] = {m \in wanted[c] : place[m] = "inbox"}]
  /\ UNCHANGED <<mailVars, popActive, maildrop, marked, anyFailed, wanted, removed, popTold, popFaults>>

(* Mutant: the number is looked up in the inbox as it is now. *)
MessageNow(c, n) == IF n \in DOMAIN Listed(inbox) THEN Listed(inbox)[n] ELSE maildrop[c][n]
Message(c, n) == maildrop[c][n]
First(c) == CHOOSE n \in marked[c] : \A k \in marked[c] : n <= k
Done(c) == marked' = [marked EXCEPT ![c] = @ \ {First(c)}]

(* set_mailbox_flags: is_trashed.  404, for a message that is gone, counts as done. *)
QuitTrashes(c) ==
  /\ popAt[c] = "quit" /\ marked[c] # {} /\ popAt' = [popAt EXCEPT ![c] = "moved"]
  /\ LET m == Message(c, First(c)) IN
       /\ IF place[m] = "gone" THEN UNCHANGED <<place, owed>> ELSE Moves(m, "trash")
       /\ removed' = removed \union ({m} \ wanted[c])
  /\ UNCHANGED <<inbox, listedInbox, popActive, maildrop, marked, anyFailed, wanted, popTold, popFaults>>

(* ... and only then the row goes. *)
QuitForgets(c) ==
  /\ popAt[c] = "moved" /\ popAt' = [popAt EXCEPT ![c] = "quit"]
  /\ inbox' = inbox \ {Message(c, First(c))} /\ Done(c)
  /\ UNCHANGED <<place, listedInbox, popActive, maildrop, anyFailed, wanted, owed, removed, popTold, popFaults>>

(* The call fails, or has worked and its answer is lost. *)
QuitFails(c) ==
  /\ popAt[c] = "quit" /\ marked[c] # {} /\ PopFault
  /\ LET m == Message(c, First(c)) IN
       IF place[m] = "gone" THEN UNCHANGED <<place, owed>>
       ELSE Moves(m, "trash") \/ UNCHANGED <<place, owed>>
  /\ Done(c) /\ anyFailed' = [anyFailed EXCEPT ![c] = TRUE]
  /\ UNCHANGED <<inbox, listedInbox, popActive, popAt, maildrop, wanted, removed, popTold>>

QuitEnds(c) ==
  /\ popAt[c] = "quit" /\ marked[c] = {} /\ Closes(c)
  /\ popTold' = [popTold EXCEPT ![c] = IF anyFailed[c] THEN "failed" ELSE "ok"]
  /\ UNCHANGED <<mailVars, wanted, owed, removed, popFaults>>

-----------------------------------------------------------------------------
(* Others *)

(* Another Aster client moves a message, out of the inbox or back. *)
MovesElsewhere ==
  /\ \E m \in PopMails, there \in {"inbox", "archive", "gone"} :
       place[m] \notin {there, "gone"} /\ Moves(m, there)
  /\ UNCHANGED <<inbox, listedInbox, popActive, popAt, maildrop, marked, anyFailed, wanted,
                 removed, popTold, popFaults>>

(* The sync pass lists the inbox, and writes what it has listed. *)
InboxListed ==
  /\ listedInbox = Nothing /\ listedInbox' = {m \in PopMails : place[m] = "inbox"}
  /\ UNCHANGED <<place, inbox, popActive, popAt, maildrop, marked, anyFailed, wanted, owed,
                 removed, popTold, popFaults>>

InboxWritten ==
  /\ listedInbox # Nothing /\ inbox' = listedInbox /\ listedInbox' = Nothing
  /\ UNCHANGED <<place, popActive, popAt, maildrop, marked, anyFailed, wanted, owed, removed,
                 popTold, popFaults>>

PopStep(c) ==
  \/ Pass(c) \/ Dele(c) \/ Rset(c) \/ PopBreaks(c) \/ Quit(c) \/ QuitTrashes(c)
  \/ QuitForgets(c) \/ QuitFails(c) \/ QuitEnds(c)

MaildropNext == (\E c \in PopClients : PopStep(c)) \/ MovesElsewhere \/ InboxListed \/ InboxWritten

MaildropSpec == MaildropInit /\ [][MaildropNext]_popVars

-----------------------------------------------------------------------------
(* Properties *)

(* QUIT trashes the messages the client has marked and no others, though the
   inbox changes under the session and marks were taken back; a +OK means that
   each of them has left the inbox.  (PASS, DELE, RSET, QUIT; tests
   dele_quit_moves_to_trash_on_server_and_removes_locally and
   quit_reports_a_failed_server_delete.) *)
QuitDoesAsTold ==
  /\ removed = {}
  /\ \A c \in PopClients : popTold[c] = "ok" => owed[c] = {}
=============================================================================
