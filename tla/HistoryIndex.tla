---------------------------- MODULE HistoryIndex ----------------------------
(***************************************************************************)
(* Indexing mail older than the newest of each folder.  A sweep walks one  *)
(* listing, a page per step, and keeps its position in the database; each  *)
(* message it meets is stamped as a member of that listing.  What a whole  *)
(* sweep did not meet has departed and, when no other listing has it, is   *)
(* removed once the account says that it is gone.  Mail that could not be  *)
(* decrypted is tried again.  Steps alternate with sync passes, which stamp*)
(* the newest of each folder; the account changes at any time.             *)
(***************************************************************************)
EXTENDS Integers, FiniteSets

CONSTANTS
  OldMails,        \* messages, older before newer, as numbers
  FirstMails,      \* those in the account at the start, in the first listing
  SealedMails,     \* those that no key of the session opens at first
  LastListing,     \* listings: numbered, custom folders last
  FirstOffset,     \* the first custom folder, listed by offset
  PageItems,       \* PAGE_SIZE
  Newest2000,      \* what a sync pass lists of each folder
  RetryAttempts,   \* RETRY_MAX_ATTEMPTS
  MaxChanges,      \* bound on arrivals, moves and deletions
  MaxHistoryFaults \* bound on failed calls and crashes

ASSUME HistoryBounds == PageItems \in Nat \ {0} /\ Newest2000 \in Nat /\ LastListing \in Nat \ {0}
ASSUME HistoryNumbers ==
  OldMails \subseteq Nat \ {0} /\ IsFiniteSet(OldMails) /\ FirstMails \subseteq OldMails

VARIABLES
  account,         \* the folder of each message, 0 before it arrives, Deleted after
  row,             \* message_cache.folder, 0 without a row
  member,          \* listing_member: those stamped in any round
  current,         \* ... in the round of the listing, or a later one
  departed,        \* history_prune_queue
  retry,           \* history_retry
  sealed,          \* messages no key opens
  index,           \* ListingState of each listing
  age,             \* how long ago its last sweep ended
  work,            \* the step that is running
  strayed,         \* observation only: messages that moved, that an offset skipped, or
                   \* whose check was refused
  changes, historyFaults

historyVars == <<account, row, member, current, departed, retry, sealed, index, age, work,
                 strayed, changes, historyFaults>>

Listings == 1..LastListing
Deleted == LastListing + 1
ByOffset(l) == l >= FirstOffset
Held(l) == {m \in OldMails : account[m] = l}
Top(l) == {m \in Held(l) : Cardinality({n \in Held(l) : n > m}) < Newest2000}
Indexed == UNION {member[l] : l \in Listings}
Least(S) == CHOOSE m \in S : \A n \in S : m <= n
AtTop == 0
NoRetry == [attempts |-> 0, listing |-> 0, due |-> FALSE]
NewIndex == [sweeping |-> FALSE, cursor |-> AtTop, offset |-> 0, total_offset |-> 0,
             drift |-> FALSE, incomplete |-> FALSE]
NoWork == [step |-> "none", listing |-> 0, last |-> AtTop, items |-> 0, total |-> 0,
           more |-> FALSE]

HistoryInitWith(mails, step) ==
  /\ account = [m \in OldMails |-> IF m \in mails THEN 1 ELSE 0]
  /\ row = [m \in OldMails |-> 0]
  /\ member = [l \in Listings |-> {}] /\ current = [l \in Listings |-> {}]
  /\ departed = {} /\ retry = [m \in OldMails |-> NoRetry] /\ sealed = SealedMails
  /\ index = [l \in Listings |-> NewIndex] /\ age = [l \in Listings |-> "never"]
  /\ work = [NoWork EXCEPT !.step = step] /\ strayed = {} /\ changes = 0 /\ historyFaults = 0
HistoryInit == HistoryInitWith(FirstMails, "none")

-----------------------------------------------------------------------------
(* The account *)

IndexStays ==
  UNCHANGED <<row, member, current, departed, retry, sealed, index, age, work, historyFaults>>
Changing == changes < MaxChanges /\ changes' = changes + 1
Strays(m) ==
  strayed' = strayed \union {m} \union (IF ByOffset(account[m]) THEN Held(account[m]) ELSE {})

MailArrives(m, l) ==
  /\ account[m] = 0 /\ Changing /\ account' = [account EXCEPT ![m] = l]
  /\ UNCHANGED strayed /\ IndexStays

MailMoves(m, l) ==
  /\ account[m] \in Listings \ {l} /\ Changing /\ Strays(m)
  /\ account' = [account EXCEPT ![m] = l] /\ IndexStays

MailDeleted(m) ==
  /\ account[m] \in Listings /\ Changing /\ account' = [account EXCEPT ![m] = Deleted]
  /\ strayed' = strayed \union (IF ByOffset(account[m]) THEN Held(account[m]) \ {m} ELSE {})
  /\ IndexStays

(* New keys of the session open everything. *)
KeysArrive ==
  /\ sealed # {} /\ sealed' = {}
  /\ UNCHANGED <<account, row, member, current, departed, retry, index, age, work, strayed, changes,
                 historyFaults>>

-----------------------------------------------------------------------------
(* What a page does to the tables. *)

(* Mutant: the members are dropped before they are queued. *)
DepartingMut(l) == {}
(* finish_listing_sweep: what this round did not stamp has departed, unless
   another listing has it. *)
Departing(l) ==
  {m \in member[l] \ current[l] : row[m] # 0 /\ \A k \in Listings \ {l} : m \notin member[k]}

(* stamp_listing_members, and forget_listing_member of the folder the rows of
   ms were in. *)
Stamps(l, ms, moved) ==
  LET stay(stamped, k) == IF k = l THEN stamped[k] \union ms
                          ELSE {m \in stamped[k] : ~(m \in moved /\ row[m] = k)}
  IN /\ member' = [k \in Listings |-> stay(member, k)]
     /\ current' = [k \in Listings |-> stay(current, k)]

(* Those of ms whose row is in another folder. *)
RowElsewhere(l, ms) == {m \in ms : row[m] \notin {0, l}}

(* Mutant: a system listing does not take rows from other folders either. *)
TakesMut(l, ms) == ms \ RowElsewhere(l, ms)
(* index_page skips mail that a custom folder lists and another folder has. *)
Takes(l, ms) == IF ByOffset(l) THEN ms \ RowElsewhere(l, ms) ELSE ms

(* history_retry_note; attempts beyond the last make no difference. *)
Noted(m, l) ==
  LET n == retry[m].attempts
  IN [attempts |-> IF n < RetryAttempts THEN n + 1 ELSE n, listing |-> l, due |-> FALSE]

-----------------------------------------------------------------------------
(* A sync pass lists the newest of one folder: run_sync_pass with
   stamp_listed, forget_listing_member and, in a deep pass, note_listing_total
   (what is queued or removed at the end of a pass is in SyncPass). *)
PassStamps(l) ==
  /\ work.step = "none"
  /\ Stamps(l, Top(l), RowElsewhere(l, Top(l)))
  /\ row' = [m \in OldMails |-> IF m \in Top(l) \ sealed THEN l ELSE row[m]]
  /\ \/ UNCHANGED index
     \/ ~index[l].sweeping
        /\ index' = [index EXCEPT ![l].drift =
                       Cardinality(Held(l)) - Cardinality(member'[l]) # index[l].total_offset]
  /\ UNCHANGED <<account, departed, retry, sealed, age, work, strayed, changes, historyFaults>>

-----------------------------------------------------------------------------
(* step: retries first, then a page of a sweep, then departed mail. *)

Due == {m \in OldMails : retry[m].due /\ retry[m].attempts < RetryAttempts}
(* Mutant: a listing is only swept again when its total has drifted. *)
NeedsSweepMut(l) ==
  age[l] = "never" \/ (age[l] \in {"waited", "old"} /\ (index[l].drift \/ index[l].incomplete))
(* needs_sweep: never swept, swept 30 days ago, or drifted and long enough ago. *)
NeedsSweep(l) ==
  age[l] \in {"never", "old"} \/ (age[l] = "waited" /\ (index[l].drift \/ index[l].incomplete))
Wanting == IF \E l \in Listings : index[l].sweeping THEN {l \in Listings : index[l].sweeping}
           ELSE {l \in Listings : NeedsSweep(l)}

(* retry_undecrypted, one message: it is cached into the folder of the listing
   it was met in. *)
RetriesOne(m) ==
  /\ work.step = "none" /\ m \in Due
  /\ IF account[m] \in Listings /\ m \in sealed
     THEN retry' = [retry EXCEPT ![m] = Noted(m, @.listing)] /\ UNCHANGED row
     ELSE /\ retry' = [retry EXCEPT ![m] = NoRetry]
          /\ row' = [row EXCEPT ![m] = IF account[m] \in Listings THEN retry[m].listing ELSE @]
  /\ UNCHANGED <<account, member, current, departed, sealed, index, age, work, strayed, changes,
                 historyFaults>>

(* sweep_page begins, in the first listing that is being swept or is to be. *)
SweepBegins ==
  /\ work.step = "none" /\ Due = {} /\ Wanting # {}
  /\ LET l == Least(Wanting)
     IN /\ work' = [NoWork EXCEPT !.step = "light", !.listing = l]
        /\ IF index[l].sweeping THEN UNCHANGED <<index, current>>
           ELSE /\ index' = [index EXCEPT ![l] = [NewIndex EXCEPT !.sweeping = TRUE,
                                !.total_offset = index[l].total_offset,
                                !.incomplete = index[l].incomplete]]
                /\ current' = [current EXCEPT ![l] = {}]
  /\ UNCHANGED <<account, row, member, departed, retry, sealed, age, strayed, changes, historyFaults>>

(* The next page: behind the cursor, or from the offset on. *)
Behind(l) ==
  LET newer(m) == Cardinality({n \in Held(l) : n > m})
  IN IF ByOffset(l) THEN {m \in Held(l) : newer(m) >= index[l].offset}
     ELSE {m \in Held(l) : index[l].cursor = AtTop \/ m < index[l].cursor}
PageFrom(l) == {m \in Behind(l) : Cardinality({n \in Behind(l) : n > m}) < PageItems}

(* list_page and index_page: first without envelopes, which serves what has its
   row, and once more with them when something is missing.  (An eager sweep asks
   with envelopes at once: the same two steps with nothing in between.) *)
IndexesPage ==
  /\ work.step \in {"light", "full"}
  /\ LET l == work.listing
         raw == PageFrom(l)
         ms == Takes(l, raw)
         missing == {m \in ms : row[m] # l}
         cached == IF work.step = "light" THEN ms \ missing ELSE ms \ sealed
         again == work.step = "light" /\ missing # {}
     IN /\ Stamps(l, raw, IF ByOffset(l) THEN {} ELSE RowElsewhere(l, raw))
        /\ row' = [m \in OldMails |-> IF m \in cached THEN l ELSE row[m]]
        /\ retry' = [m \in OldMails |->
             IF work.step = "full" /\ m \in ms \cap sealed THEN Noted(m, l) ELSE retry[m]]
        /\ work' = IF again THEN [work EXCEPT !.step = "full"]
                   ELSE [step |-> "save", listing |-> l, items |-> Cardinality(raw),
                         last |-> IF raw = {} THEN index[l].cursor ELSE Least(raw),
                         total |-> Cardinality(Held(l)), more |-> Behind(l) # raw]
  /\ UNCHANGED <<account, departed, sealed, index, age, strayed, changes, historyFaults>>

(* finish_listing_sweep, one transaction. *)
FinishesSweep(l) ==
  departed' = departed \union Departing(l) /\ member' = [member EXCEPT ![l] = current[l]]

(* The position behind the page is saved; the last page ends the round. *)
SavesPage ==
  /\ work.step = "save" /\ work' = NoWork
  /\ LET l == work.listing
     IN \/ /\ work.more
           /\ index' = [index EXCEPT ![l].cursor = work.last, ![l].offset = @ + work.items]
           /\ UNCHANGED <<member, departed, age>>
        \/ /\ ~work.more /\ FinishesSweep(l)
           /\ index' = [index EXCEPT ![l] =
                [NewIndex EXCEPT !.total_offset = work.total - Cardinality(current[l])]]
           /\ age' = [age EXCEPT ![l] = "fresh"]
  /\ UNCHANGED <<account, row, current, retry, sealed, strayed, changes, historyFaults>>

HistoryFault == historyFaults < MaxHistoryFaults /\ historyFaults' = historyFaults + 1
RowsStay == UNCHANGED <<account, row, member, current, departed, retry, sealed, strayed, changes>>

(* page_failed: a position the service no longer takes is given up. *)
PageFails ==
  /\ work.step \in {"light", "full"} /\ HistoryFault /\ work' = NoWork
  /\ \/ UNCHANGED index
     \/ index' = [index EXCEPT ![work.listing].cursor = AtTop, ![work.listing].offset = 0]
  /\ RowsStay /\ UNCHANGED age

(* The service says there is more and does not go on. *)
Stalls ==
  /\ work.step = "save" /\ HistoryFault /\ work' = NoWork
  /\ index' = [index EXCEPT ![work.listing] =
       [NewIndex EXCEPT !.total_offset = index[work.listing].total_offset, !.incomplete = TRUE]]
  /\ age' = [age EXCEPT ![work.listing] = "fresh"]
  /\ RowsStay

(* The bridge ends before the position is saved, or between the end of the
   round and that. *)
StepDies ==
  /\ work.step # "none" /\ HistoryFault /\ work' = NoWork
  /\ \/ UNCHANGED <<member, departed>>
     \/ work.step = "save" /\ ~work.more /\ FinishesSweep(work.listing)
  /\ UNCHANGED <<account, row, current, retry, sealed, strayed, changes, index, age>>

(* prune_departed, one message: what is listed again is dropped from the queue,
   what the account has stays, what it has not is removed from every table. *)
PrunesDeparted ==
  /\ work.step = "none" /\ Due = {} /\ Wanting = {}
  /\ \E m \in departed :
       /\ departed' = (departed \ Indexed) \ {m}
       /\ IF m \in Indexed \/ account[m] # Deleted THEN UNCHANGED <<row, retry>>
          ELSE row' = [row EXCEPT ![m] = 0] /\ retry' = [retry EXCEPT ![m] = NoRetry]
  /\ UNCHANGED <<account, member, current, sealed, index, age, work, strayed, changes, historyFaults>>

(* The service refuses to answer: the check is dropped. *)
CheckRefused ==
  /\ work.step = "none" /\ Due = {} /\ Wanting = {} /\ HistoryFault
  /\ \E m \in departed \ Indexed :
       departed' = (departed \ Indexed) \ {m} /\ strayed' = strayed \union {m}
  /\ UNCHANGED <<account, row, member, current, retry, sealed, index, age, work, changes>>

(* Time.  The hour or the month is long to the steps, which are seconds apart. *)
TimePasses(from, to) ==
  /\ work.step = "none" /\ Due = {} /\ Wanting = {} /\ departed = {}
  /\ \E l \in Listings : age[l] \in from
  /\ age' = [l \in Listings |-> IF age[l] \in from THEN to ELSE age[l]]
  /\ RowsStay /\ UNCHANGED <<index, work, historyFaults>>
HourPasses == TimePasses({"fresh"}, "waited")
MonthPasses == TimePasses({"fresh", "waited"}, "old")

RetryFallsDue(m) ==
  /\ retry[m].attempts \in 1..(RetryAttempts - 1) /\ ~retry[m].due
  /\ retry' = [retry EXCEPT ![m].due = TRUE]
  /\ UNCHANGED <<account, row, member, current, departed, sealed, index, age, work, strayed,
                 changes, historyFaults>>

HistoryStep ==
  \/ SweepBegins \/ IndexesPage \/ SavesPage \/ PrunesDeparted \/ \E m \in OldMails : RetriesOne(m)
HistoryNext ==
  \/ HistoryStep \/ PageFails \/ Stalls \/ CheckRefused \/ StepDies
  \/ KeysArrive \/ HourPasses \/ MonthPasses
  \/ \E l \in Listings : PassStamps(l) \/ \E m \in OldMails : MailArrives(m, l) \/ MailMoves(m, l)
  \/ \E m \in OldMails : MailDeleted(m) \/ RetryFallsDue(m)

HistorySpec == HistoryInit /\ [][HistoryNext]_historyVars

(* The poll loop takes a step whenever the pacer says so, and time passes. *)
HistoryFairness == WF_historyVars(HistoryStep) /\ WF_historyVars(MonthPasses)
HistoryFairSpec == HistorySpec /\ HistoryFairness

-----------------------------------------------------------------------------
(* Properties *)

(* A cached message that stayed in its folder is known to the index, or queued
   to be checked, at every moment of every sweep, with any page failing or
   crash: only such mail is ever removed again.  (finish_listing_sweep,
   prune_departed.) *)
KnownUnlessStrayed ==
  \A m \in OldMails \ strayed :
    row[m] # 0 => m \in departed \union Indexed

(* Every message of every folder that can be decrypted ends in the cache, and
   in its folder; only a custom folder may have to leave it where it was.
   (sweep_page, index_page, retry_undecrypted.) *)
OldMailArrives ==
  <>[](\A m \in OldMails \ sealed :
         account[m] \in Listings
           => row[m] # 0 /\ (ByOffset(account[m]) \/ row[m] = account[m]))

(* Deleted mail leaves the cache, however old it is, unless it had strayed from
   its listing before.  (needs_sweep, finish_listing_sweep, prune_departed.) *)
DeletedLeaves ==
  <>[](\A m \in OldMails \ strayed : account[m] = Deleted => row[m] = 0)
=============================================================================
