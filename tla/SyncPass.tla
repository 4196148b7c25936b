------------------------------ MODULE SyncPass ------------------------------
(***************************************************************************)
(* One sync pass among everything that changes mail while it runs.  A pass *)
(* lists one folder after the other, page by page; what it has seen in     *)
(* this way is no picture of the account at any one moment.  A deep pass   *)
(* then removes cached mail it has not seen: without a further question    *)
(* when every listing was complete, after asking for each message when a   *)
(* listing was cut off at the cap.  Messages are numbered from old to new; *)
(* listings are newest first.                                              *)
(***************************************************************************)
EXTENDS Naturals, FiniteSets

CONSTANTS
  Mails,           \* messages, older before newer
  AtFirst,         \* those in the account, and cached, at the start
  LastListed,      \* folders, numbered in the order of build_folder_queries, custom ones last
  FirstCustom,     \* the first that is listed by offset
  Page,            \* items on a page (100)
  Cap,             \* max_per_folder
  Checks,          \* CAPPED_PRUNE_CHECKS_PER_PASS
  MaxMoves,        \* bound on arrivals, moves and deletions
  MaxListErrors    \* bound on calls that fail

ASSUME SyncBounds ==
  /\ Page \in Nat \ {0} /\ Cap \in Nat \ {0} /\ Checks \in Nat /\ LastListed \in Nat \ {0}
  /\ FirstCustom \in Nat \ {0, 1}
ASSUME SyncNumbers == Mails \subseteq Nat \ {0} /\ IsFiniteSet(Mails) /\ AtFirst \subseteq Mails

VARIABLES
  at,              \* the account: the folder of each message, Unborn or Gone
  have,            \* message_cache.folder, Absent without a row
  pin,             \* AppendPin of a message: its folder, Absent without one
  pinnedIn,        \* which pins are newer than the "pass" and than its latest "listing"
  pass,            \* where the pass stands
  page,            \* the page it works on
  seen,            \* seen_ids
  cut,             \* capped_listings, of the listings cut off at the cap
  here,            \* what an APPEND, MOVE or EXPUNGE in the bridge is in the middle of
  deepDue,         \* deep_due
  slipped,         \* observation only: changes during the pass took it out of sight
  moves, listErrors

syncVars == <<at, have, pin, pinnedIn, pass, page, seen, cut, here, deepDue, slipped,
              moves, listErrors>>

Listed == 1..LastListed
Unborn == 0
Gone == LastListed + 1
Absent == 0
In(f) == {m \in Mails : at[m] = f}
Cached == {m \in Mails : have[m] # Absent}
Oldest(S) == CHOOSE m \in S : \A n \in S : m <= n
Newest(S) == CHOOSE m \in S : \A n \in S : n <= m
NotHere == [op |-> "none", mail |-> 0, into |-> 0]
NoPass == [step |-> "idle", deep |-> FALSE, complete |-> TRUE, cappedOnly |-> TRUE, failed |-> FALSE]
NoPage == [folder |-> 0, items |-> {}, snap |-> {}, listed |-> {}, cursor |-> 0, offset |-> 0,
           fetched |-> 0, fresh |-> FALSE, more |-> FALSE, any |-> FALSE, now |-> 0]
Custom(f) == f >= FirstCustom
NextNumber == Newest(Mails) + 1

SyncInitWith(step) ==
  /\ at = [m \in Mails |-> IF m \in AtFirst THEN 1 ELSE Unborn]
  /\ have = [m \in Mails |-> IF m \in AtFirst THEN 1 ELSE Absent]
  /\ pin = [m \in Mails |-> Absent]
  /\ pinnedIn = [pass |-> {}, listing |-> {}]
  /\ pass = [NoPass EXCEPT !.step = step] /\ page = NoPage /\ seen = {} /\ cut = {}
  /\ here = NotHere /\ deepDue = TRUE /\ slipped = {} /\ moves = 0 /\ listErrors = 0

SyncInit == SyncInitWith("idle")

-----------------------------------------------------------------------------
(* The account, and other clients of it. *)

Spends == moves < MaxMoves /\ moves' = moves + 1
AccountOnly == UNCHANGED <<have, pin, pinnedIn, pass, page, seen, cut, deepDue, listErrors>>

(* Mail that is not in the listing the pass makes, though the account has it:
   what moved, and in a folder listed by offset what an earlier one left. *)
SlipsOut(m) ==
  slipped' = IF pass.step = "idle" THEN slipped
             ELSE slipped \union {m} \union (IF Custom(at[m]) THEN In(at[m]) ELSE {})

Arrives(m, f) ==
  /\ at[m] = Unborn /\ Spends /\ at' = [at EXCEPT ![m] = f]
  /\ UNCHANGED <<here, slipped>> /\ AccountOnly

MovesElsewhere(m, f) ==
  /\ at[m] \in Listed \ {f} /\ Spends /\ SlipsOut(m)
  /\ at' = [at EXCEPT ![m] = f] /\ UNCHANGED here /\ AccountOnly

DeletesElsewhere(m) ==
  /\ at[m] \in Listed /\ Spends /\ SlipsOut(m)
  /\ at' = [at EXCEPT ![m] = Gone] /\ UNCHANGED here /\ AccountOnly

-----------------------------------------------------------------------------
(* Commands of mail apps connected to the bridge: the account first, the cache
   when it has answered. *)

(* import_message: stored in the inbox, filed by apply_placement, pinned, and
   cached by a task of its own. *)
AppendStores(m, f) ==
  /\ here = NotHere /\ at[m] = Unborn /\ Spends
  /\ at' = [at EXCEPT ![m] = 1] /\ here' = [op |-> "place", mail |-> m, into |-> f]
  /\ UNCHANGED slipped /\ AccountOnly

AppendPlaces ==
  /\ here.op = "place" /\ here' = [here EXCEPT !.op = "pin"]
  /\ at' = [at EXCEPT ![here.mail] = IF here.into = 1 \/ @ = Gone THEN @ ELSE here.into]
  /\ IF at[here.mail] \in {1, Gone} THEN UNCHANGED slipped ELSE SlipsOut(here.mail)
  /\ UNCHANGED moves /\ AccountOnly

(* pin_appended *)
AppendPins ==
  /\ here.op = "pin" /\ pin' = [pin EXCEPT ![here.mail] = here.into]
  /\ pinnedIn' = [pass |-> pinnedIn.pass \union {here.mail},
                  listing |-> pinnedIn.listing \union {here.mail}]
  /\ here' = [here EXCEPT !.op = "cache"]
  /\ UNCHANGED <<at, have, pass, page, seen, cut, deepDue, slipped, moves, listErrors>>

MovesHere(m, f) ==
  /\ here = NotHere /\ at[m] \in Listed \ {f} /\ have[m] \in Listed /\ Spends /\ SlipsOut(m)
  /\ at' = [at EXCEPT ![m] = f] /\ here' = [op |-> "cache", mail |-> m, into |-> f]
  /\ AccountOnly

ExpungesHere(m) ==
  /\ here = NotHere /\ at[m] \in Listed /\ have[m] \in Listed /\ Spends
  /\ at' = [at EXCEPT ![m] = Gone] /\ here' = [op |-> "cache", mail |-> m, into |-> Absent]
  /\ SlipsOut(m) /\ AccountOnly

(* cache_mail_item, set_folder_if_changed or delete_message_by_aster_id. *)
CachesHere ==
  /\ here.op = "cache" /\ have' = [have EXCEPT ![here.mail] = here.into]
  /\ here' = NotHere
  /\ UNCHANGED <<at, pin, pinnedIn, pass, page, seen, cut, deepDue, slipped, moves, listErrors>>

-----------------------------------------------------------------------------
(* run_sync_pass *)

AccountStays == UNCHANGED <<at, here, moves>>

FirstPage(f) == [NoPage EXCEPT !.folder = f, !.cursor = NextNumber]

(* A scheduled or triggered pass; deep when the last deep one is long ago. *)
PassBegins ==
  /\ pass.step = "idle"
  /\ pass' = [NoPass EXCEPT !.step = "ask", !.deep = deepDue]
  /\ page' = FirstPage(1) /\ seen' = {} /\ cut' = {} /\ slipped' = {}
  /\ pinnedIn' = [pinnedIn EXCEPT !.pass = {}]
  /\ AccountStays /\ UNCHANGED <<have, pin, deepDue, listErrors>>

(* listed_at is taken before the call. *)
Asks ==
  /\ pass.step = "ask" /\ pass' = [pass EXCEPT !.step = "answer"]
  /\ pinnedIn' = [pinnedIn EXCEPT !.listing = {}]
  /\ AccountStays /\ UNCHANGED <<have, pin, page, seen, cut, deepDue, slipped, listErrors>>

(* list_mail_with goes on behind the last message of the page before,
   list_folder_mail_with at a number of messages. *)
OnPage(f) ==
  LET newer(m) == Cardinality({n \in In(f) : n > m})
      behind == {m \in In(f) : m < page.cursor}
  IN IF Custom(f) THEN {m \in In(f) : newer(m) >= page.offset /\ newer(m) < page.offset + Page}
     ELSE {m \in behind : Cardinality({n \in behind : n > m}) < Page}
Beyond(f, raw) ==
  IF Custom(f) THEN Cardinality(In(f)) > page.offset + Page
  ELSE \E m \in In(f) : m < page.cursor /\ m \notin raw

(* list_folder_page and cached_sync_states of what it returned. *)
Answers ==
  /\ pass.step = "answer" /\ pass' = [pass EXCEPT !.step = "items"]
  /\ LET f == page.folder
         raw == OnPage(f)
         items == IF Custom(f) THEN raw \ seen ELSE raw
     IN page' = [page EXCEPT !.items = items, !.snap = {m \in items : have[m] = f},
                             !.more = Beyond(f, raw) /\ raw # {}, !.fresh = FALSE,
                             !.any = items # {}, !.fetched = @ + Cardinality(items),
                             !.cursor = IF raw = {} THEN @ ELSE Oldest(raw)]
  /\ AccountStays /\ UNCHANGED <<have, pin, pinnedIn, seen, cut, deepDue, slipped, listErrors>>

(* unless_listing_predates_append: the append put it into another folder after
   the listing was asked for. *)
Predates(m) == m \in pinnedIn.listing /\ pin[m] # page.folder

(* The next message of the page: in this folder already, or cached here now. *)
TakesItem ==
  /\ pass.step = "items" /\ page.items # {}
  /\ LET m == Newest(page.items)
         writes == m \notin page.snap /\ ~Predates(m)
         old == have[m] # Absent
     IN /\ seen' = seen \union {m}
        /\ page' = [page EXCEPT !.items = @ \ {m}, !.listed = @ \union {m},
                                !.now = m, !.fresh = @ \/ (writes /\ ~old)]
        /\ \/ have' = [have EXCEPT ![m] = IF writes THEN page.folder ELSE @] /\ UNCHANGED pass
           \/ writes /\ ~old /\ pass' = [pass EXCEPT !.step = "download"] /\ UNCHANGED have
  /\ AccountStays /\ UNCHANGED <<pin, pinnedIn, cut, deepDue, slipped, listErrors>>

(* commit_mail_item, after the attachments have been downloaded. *)
Commits ==
  /\ pass.step = "download" /\ pass' = [pass EXCEPT !.step = "items"]
  /\ LET m == page.now
     IN have' = [have EXCEPT ![m] = IF Predates(m) THEN @ ELSE page.folder]
  /\ AccountStays
  /\ UNCHANGED <<pin, pinnedIn, page, seen, cut, deepDue, slipped, listErrors>>

(* The next folder, or what follows the last one. *)
NextFolder(p) ==
  IF page.folder + 1 \in Listed
  THEN pass' = [p EXCEPT !.step = "ask"] /\ page' = FirstPage(page.folder + 1)
  ELSE pass' = [p EXCEPT !.step = "prune"] /\ page' = NoPage

Capped ==
  page.fetched >= Cap \/ (Custom(page.folder) /\ page.offset + Page >= Cap)

(* Where the listing of a folder ends: at its end, at the cap, or, unless the
   pass is deep, at a page with nothing new. *)
PageEnds ==
  /\ pass.step = "items" /\ page.items = {}
  /\ IF ~page.more \/ Capped \/ (~pass.deep /\ page.any /\ ~page.fresh)
     THEN /\ NextFolder([pass EXCEPT !.complete = @ /\ ~page.more,
                                     !.cappedOnly = @ /\ (~page.more \/ Capped)])
          /\ cut' = IF page.more /\ Capped THEN cut \union {page.listed} ELSE cut
     ELSE /\ pass' = [pass EXCEPT !.step = "ask"]
          /\ page' = [page EXCEPT !.offset = @ + Page] /\ UNCHANGED cut
  /\ AccountStays /\ UNCHANGED <<have, pin, pinnedIn, seen, deepDue, slipped, listErrors>>

(* The listing fails; the pass goes on with the next folder, and ends in an
   error. *)
ListingFails ==
  /\ pass.step = "answer" /\ listErrors < MaxListErrors /\ listErrors' = listErrors + 1
  /\ NextFolder([pass EXCEPT !.complete = FALSE, !.failed = TRUE])
  /\ AccountStays /\ UNCHANGED <<have, pin, pinnedIn, seen, cut, deepDue, slipped>>

PassOver == pass' = NoPass /\ page' = NoPage /\ seen' = {} /\ cut' = {} /\ slipped' = {}
Forgets(ms) == have' = [m \in Mails |-> IF m \in ms THEN Absent ELSE have[m]]

(* Mutant: an append during the pass does not keep its message. *)
MayPruneMut(m) == m \in Cached \ seen
(* unless_appended_since *)
MayPrune(m) == m \in Cached \ seen /\ m \notin pinnedIn.pass

(* Every listing was complete: what was not seen is taken for deleted. *)
Prunes ==
  /\ pass.step = "prune" /\ pass.deep /\ pass.complete
  /\ Forgets({m \in Mails : MayPrune(m)})
  /\ PassOver /\ deepDue' = FALSE
  /\ AccountStays /\ UNCHANGED <<pin, pinnedIn, listErrors>>

(* Mutant: mail the cut-off listings cannot reach is asked for as well. *)
CandidatesMut == Cached \ seen
(* capped_prune_candidates: nothing older than the oldest listed message of the
   listing that ends soonest. *)
Candidates ==
  LET floors == {Oldest(l \cap Cached) : l \in cut}
  IN IF \E l \in cut : l \cap Cached = {} THEN {}
     ELSE {m \in Cached \ seen : m >= Newest(floors)}

PrunesCapped == pass.deep /\ ~pass.complete /\ ~pass.failed /\ pass.cappedOnly /\ cut # {}

(* confirm_gone_on_server: for each, in no particular order, up to a number of
   them; the answers are kept in page. *)
AsksWhetherGone ==
  /\ pass.step = "prune" /\ PrunesCapped
  /\ \E S \in SUBSET Candidates :
       /\ Cardinality(S) = IF Cardinality(Candidates) < Checks THEN Cardinality(Candidates) ELSE Checks
       /\ page' = [NoPage EXCEPT !.items = S]
  /\ pass' = [pass EXCEPT !.step = "confirm"]
  /\ AccountStays
  /\ UNCHANGED <<have, pin, pinnedIn, seen, cut, deepDue, slipped, listErrors>>

Confirms ==
  /\ pass.step = "confirm" /\ page.items # {}
  /\ \/ /\ UNCHANGED listErrors
        /\ LET m == Newest(page.items)
           IN page' = [page EXCEPT !.items = @ \ {m},
                                   !.listed = IF at[m] = Gone THEN @ \union {m} ELSE @]
     \/ listErrors < MaxListErrors /\ listErrors' = listErrors + 1
        /\ page' = [page EXCEPT !.items = {}]
  /\ AccountStays /\ UNCHANGED <<have, pin, pinnedIn, pass, seen, cut, deepDue, slipped>>

RemovesConfirmed ==
  /\ pass.step = "confirm" /\ page.items = {}
  /\ Forgets(page.listed) /\ PassOver /\ deepDue' = FALSE
  /\ AccountStays /\ UNCHANGED <<pin, pinnedIn, listErrors>>

PassEnds ==
  /\ pass.step = "prune" /\ ~(pass.deep /\ pass.complete) /\ ~PrunesCapped
  /\ PassOver /\ deepDue' = (deepDue /\ ~(pass.deep /\ ~pass.failed))
  /\ AccountStays /\ UNCHANGED <<have, pin, pinnedIn, listErrors>>

(* DEEP_SYNC_INTERVAL_SECS pass. *)
DeepFallsDue ==
  /\ ~deepDue /\ deepDue' = TRUE
  /\ UNCHANGED <<at, have, pin, pinnedIn, pass, page, seen, cut, here, slipped, moves, listErrors>>

PassStep == \/ PassBegins \/ Asks \/ Answers \/ TakesItem \/ Commits \/ PageEnds \/ ListingFails
            \/ Prunes \/ AsksWhetherGone \/ Confirms \/ RemovesConfirmed \/ PassEnds
HereStep == AppendPlaces \/ AppendPins \/ CachesHere
Changes == \E m \in Mails :
  \/ DeletesElsewhere(m) \/ ExpungesHere(m)
  \/ \E f \in Listed : Arrives(m, f) \/ MovesElsewhere(m, f) \/ AppendStores(m, f) \/ MovesHere(m, f)
SyncNext == PassStep \/ HereStep \/ Changes \/ DeepFallsDue

SyncSpec == SyncInit /\ [][SyncNext]_syncVars

(* Passes go on (the poll interval), commands end, and time passes. *)
SyncFairness ==
  /\ WF_syncVars(PassStep) /\ WF_syncVars(HereStep) /\ WF_syncVars(DeepFallsDue)

SyncFairSpec == SyncSpec /\ SyncFairness

-----------------------------------------------------------------------------
(* Properties *)

(* A pass removes mail the account still has only if the mail moved during the
   pass, or left its page of a folder listed by offset: never because it was
   appended meanwhile, because a listing failed or was cut off.  (The prune at
   the end of run_sync_pass, unless_appended_since, confirm_gone_on_server.) *)
PrunesOnlySlipped ==
  [][\A m \in Mails :
       have[m] # Absent /\ have'[m] = Absent /\ at[m] \in Listed /\ pass.step \in {"prune", "confirm"}
         => m \in slipped]_syncVars

(* What the log line of a prune says: the message is gone from the account.
   (run_sync_pass, "pruned ... (gone on server)".) *)
PrunedIsGone ==
  [][\A m \in Mails :
       have[m] # Absent /\ have'[m] = Absent /\ pass.step \in {"prune", "confirm"} => at[m] = Gone]_syncVars

(* What the listings reach: the newest of each folder, and how far back every
   capped listing goes. *)
WithinCap(f) == {m \in In(f) : Cardinality({n \in In(f) : n > m}) < Cap}
Reach == {m \in Mails : \A f \in Listed : Cardinality(In(f)) > Cap => \E n \in WithinCap(f) : n <= m}

(* Once nothing changes any more, the cache has every message within the cap of
   its folder where the account has it, and none the account has deleted unless
   it is older than a listing cut off at the cap reaches.  (run_sync_pass.) *)
CacheFollows ==
  <>[](/\ \A f \in Listed : \A m \in WithinCap(f) : have[m] = f
       /\ \A m \in Reach : at[m] = Gone => have[m] = Absent)
=============================================================================
