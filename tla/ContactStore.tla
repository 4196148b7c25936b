---------------------------- MODULE ContactStore ----------------------------
(***************************************************************************)
(* The CardDAV address book: contacts apps that read, store and delete the *)
(* card of one name, the listing the bridge keeps for CACHE_TTL, the lock  *)
(* around writes, and the account behind them, which other Aster clients   *)
(* change and whose answers may be lost.  Aster tells contacts apart by an *)
(* id of its own; only the bridge sees to it that a name, the uid in the   *)
(* card's address, means one contact.  Other names meet this one in the    *)
(* listing and the lock alone.                                             *)
(***************************************************************************)
EXTENDS Naturals, FiniteSets

CONSTANTS
  Apps,          \* contacts apps, each with one request at a time
  NoApp,
  MaxContacts,   \* bound on the contacts of the name the account is ever given
  MaxVersions,   \* bound on the versions the account writes
  DavFaults      \* bound on calls that fail and apps that hang up

ASSUME ContactAssumption ==
  /\ NoApp \notin Apps
  /\ MaxContacts \in Nat /\ MaxVersions \in Nat /\ DavFaults \in Nat

VARIABLES
  contact,    \* the account: the version of each contact of the name, 0 for none
  issued,     \* how many contacts of the name the account was ever given
  version,    \* the last version written; a version's ETag is the version
  listing,    \* ContactsStore.cache: "none", "fresh" or, past CACHE_TTL, "old"
  listed,     \* the entry of the name in it
  writeLock,  \* who holds write_lock
  davAt,      \* where an app's request stands
  asked,      \* its method and precondition; If-Match gives the ETag the app was last told
  found,      \* the entry it works with
  known,      \* the ETag the app was last given, 0 for none
  late,       \* writes given up on that may still reach the account
  \* observation only
  slipped,    \* the account was changed after the request checked its precondition
  lapses,       \* what can leave a name with two contacts
  davFaults

davVars == <<contact, issued, version, listing, listed, writeLock, davAt, asked,
             found, known, late, slipped, lapses, davFaults>>
accountVars == <<contact, issued, version>>
cache == <<listing, listed>>

ContactIds == 1..MaxContacts
NoEntry == [id |-> 0, tag |-> 0]
Entry(c) == [id |-> c, tag |-> contact[c]]
Stored == {c \in ContactIds : contact[c] # 0}
NoWish == [method |-> "none", given |-> "nothing"]

(* A bridge that has just started, with one contact of the name or none. *)
ContactInit ==
  /\ issued \in {0, 1} \intersect 0..MaxContacts
  /\ contact = [c \in ContactIds |-> IF c <= issued THEN 1 ELSE 0] /\ version = issued
  /\ listing = "none" /\ listed = NoEntry /\ writeLock = NoApp
  /\ davAt = [a \in Apps |-> "rest"] /\ asked = [a \in Apps |-> NoWish]
  /\ found = [a \in Apps |-> NoEntry] /\ known = [a \in Apps |-> 0] /\ late = {}
  /\ slipped = [a \in Apps |-> FALSE] /\ lapses = {} /\ davFaults = 0

Goes(a, from, to) == davAt[a] = from /\ davAt' = [davAt EXCEPT ![a] = to]
Finds(a, e) == found' = [found EXCEPT ![a] = e]
DavFault == davFaults < DavFaults /\ davFaults' = davFaults + 1

(* The answer goes out and the guard is dropped. *)
Ends(a) ==
  /\ davAt' = [davAt EXCEPT ![a] = "rest"] /\ asked' = [asked EXCEPT ![a] = NoWish]
  /\ Finds(a, NoEntry) /\ slipped' = [slipped EXCEPT ![a] = FALSE]
  /\ writeLock' = IF writeLock = a THEN NoApp ELSE writeLock

-----------------------------------------------------------------------------
(* A request up to its decision *)

(* GET and PROPFIND of the card; PUT and DELETE wait for the lock first. *)
AppAsks(a) ==
  /\ davAt[a] = "rest"
  /\ \E m \in {"get", "put", "delete"}, g \in {"nothing", "match", "absent"} :
       /\ g = "match" => m # "get" /\ known[a] # 0
       /\ g = "absent" => m = "put"
       /\ asked' = [asked EXCEPT ![a] = [method |-> m, given |-> g]]
       /\ davAt' = [davAt EXCEPT ![a] = IF m = "get" THEN "list" ELSE "lock"]
  /\ UNCHANGED <<accountVars, cache, writeLock, found, known, late, slipped, lapses, davFaults>>

(* Mutant: writes do not wait for each other. *)
LockFreeMut == TRUE
LockFree == writeLock = NoApp

(* put, delete: write_lock. *)
Locks(a) ==
  /\ LockFree /\ Goes(a, "lock", "list") /\ writeLock' = a
  /\ UNCHANGED <<accountVars, cache, asked, found, known, late, slipped, lapses, davFaults>>

(* Mutant: the precondition is compared with what the listing says. *)
AsksAgainMut(a, e) == FALSE
AsksAgain(a, e) == asked[a].given # "nothing" /\ e # NoEntry

(* get, current: what a request does with the entry of the listing. *)
Looks(a, e) ==
  \/ /\ asked[a].method = "get" /\ Ends(a) /\ known' = [known EXCEPT ![a] = e.tag]
  \/ /\ asked[a].method # "get" /\ Finds(a, e)
     /\ davAt' = [davAt EXCEPT ![a] =
          IF AsksAgain(a, e) THEN "check" ELSE "decide"]
     /\ UNCHANGED <<asked, known, writeLock, slipped>>

(* list, from the cache. *)
Usable == listing = "fresh"
ListsCached(a) ==
  /\ davAt[a] = "list" /\ Usable /\ Looks(a, listed)
  /\ UNCHANGED <<accountVars, cache, late, lapses, davFaults>>

(* list: the account is read, of two contacts of the name one is kept; and the
   listing is replaced afterwards. *)
Lists(a) ==
  /\ ~Usable /\ Goes(a, "list", "keep")
  /\ \/ \E c \in Stored : Finds(a, Entry(c))
     \/ Stored = {} /\ Finds(a, NoEntry)
  /\ UNCHANGED <<accountVars, cache, writeLock, asked, known, late, slipped, lapses, davFaults>>

KeepsListing(a) ==
  /\ davAt[a] = "keep" /\ listing' = "fresh" /\ listed' = found[a]
  /\ lapses' = IF Stored \subseteq {found[a].id} THEN lapses ELSE lapses \union {"overtaken"}
  /\ Looks(a, found[a])
  /\ UNCHANGED <<accountVars, late, davFaults>>

(* current: the contact behind the entry is read again, then the listing told. *)
Checks(a) ==
  /\ Goes(a, "check", "note")
  /\ Finds(a, IF contact[found[a].id] # 0 THEN Entry(found[a].id) ELSE NoEntry)
  /\ UNCHANGED <<accountVars, cache, writeLock, asked, known, late, slipped, lapses, davFaults>>

(* remember, forget: nothing while no listing is held. *)
Tells(e) == listed' = IF listing = "none" THEN listed ELSE e

Notes(a) ==
  /\ Goes(a, "note", "decide") /\ Tells(found[a])
  /\ UNCHANGED <<accountVars, listing, writeLock, asked, found, known, late, slipped, lapses, davFaults>>

(* Preconditions::hold_for; DELETE finds out first that there is nothing. *)
Holds(a) ==
  /\ asked[a].method = "delete" => found[a] # NoEntry
  /\ asked[a].given = "match" => found[a].tag = known[a]
  /\ asked[a].given = "absent" => found[a] = NoEntry

Refused(a) ==
  /\ davAt[a] = "decide" /\ ~Holds(a) /\ Ends(a)
  /\ UNCHANGED <<accountVars, cache, known, late, lapses, davFaults>>

-----------------------------------------------------------------------------
(* The write and what follows it *)

Intent(a) ==
  IF asked[a].method = "delete" THEN [does |-> "delete", id |-> found[a].id]
  ELSE IF found[a] = NoEntry THEN [does |-> "create", id |-> 0]
  ELSE [does |-> "update", id |-> found[a].id]

(* The account takes a write: a contact that is gone is neither updated nor
   deleted (404), and a create makes a new contact whatever is there. *)
Stores(w) ==
  \/ /\ w.does = "create" /\ issued < MaxContacts /\ version < MaxVersions
     /\ issued' = issued + 1 /\ version' = version + 1
     /\ contact' = [contact EXCEPT ![issued + 1] = version + 1]
  \/ /\ w.does = "update" /\ w.id \in Stored /\ version < MaxVersions
     /\ version' = version + 1 /\ contact' = [contact EXCEPT ![w.id] = version + 1]
     /\ UNCHANGED issued
  \/ /\ w.does = "delete" /\ w.id \in Stored
     /\ contact' = [contact EXCEPT ![w.id] = 0] /\ UNCHANGED <<issued, version>>
Target(w) == IF w.does = "create" THEN issued + 1 ELSE w.id
Gone(w) == w.does # "create" /\ w.id \notin Stored
Full(w) == version = MaxVersions \/ (w.does = "create" /\ issued = MaxContacts)

Writes(a) ==
  /\ davAt[a] = "decide" /\ Holds(a) /\ Stores(Intent(a))
  /\ davAt' = [davAt EXCEPT ![a] = IF asked[a].method = "delete" THEN "forget" ELSE "confirm"]
  /\ Finds(a, [id |-> Target(Intent(a)), tag |-> 0])
  /\ slipped' = [slipped EXCEPT ![a] = FALSE]
  /\ UNCHANGED <<cache, writeLock, asked, known, late, lapses, davFaults>>

WriteFails(a) ==
  /\ davAt[a] = "decide" /\ Holds(a) /\ Ends(a)
  /\ \/ (Gone(Intent(a)) \/ Full(Intent(a))) /\ UNCHANGED <<late, davFaults>>
     \/ DavFault /\ UNCHANGED late
     \/ DavFault /\ late' = late \union {Intent(a)}
  /\ UNCHANGED <<accountVars, cache, known, lapses>>

(* put: the contact is read back; one that is gone again empties the cache. *)
Confirms(a) ==
  /\ davAt[a] = "confirm"
  /\ \/ /\ found[a].id \in Stored /\ Goes(a, "confirm", "remember")
        /\ Finds(a, Entry(found[a].id))
        /\ UNCHANGED <<listing, listed, writeLock, asked, slipped>>
     \/ /\ found[a].id \notin Stored /\ Ends(a) /\ listing' = "none" /\ listed' = NoEntry
  /\ UNCHANGED <<accountVars, known, late, lapses, davFaults>>

Remembers(a) ==
  /\ davAt[a] = "remember" /\ Tells(found[a]) /\ Ends(a)
  /\ known' = [known EXCEPT ![a] = found[a].tag]
  /\ UNCHANGED <<accountVars, listing, late, lapses, davFaults>>

Forgets(a) ==
  /\ davAt[a] = "forget" /\ Tells(NoEntry) /\ Ends(a)
  /\ UNCHANGED <<accountVars, listing, known, late, lapses, davFaults>>

(* A call fails, an answer is lost or the app hangs up, which drops the handler:
   a contact just created is then in no listing. *)
Breaks(a) ==
  /\ davAt[a] # "rest" /\ DavFault /\ Ends(a)
  /\ lapses' = IF davAt[a] \in {"confirm", "remember"} /\ found[a].id # listed.id
             THEN lapses \union {"untold"} ELSE lapses
  /\ UNCHANGED <<accountVars, cache, known, late>>

-----------------------------------------------------------------------------
(* Time and the account *)

ListingAges ==
  /\ listing = "fresh" /\ listing' = "old"
  /\ UNCHANGED <<accountVars, listed, writeLock, davAt, asked, found, known, late, slipped, lapses, davFaults>>

(* A request that has checked its precondition learns nothing of it. *)
Slips == slipped' = [a \in Apps |-> slipped[a] \/ davAt[a] \in {"note", "decide"}]

ChangedElsewhere ==
  /\ \E c \in Stored, d \in {"update", "delete"} : Stores([does |-> d, id |-> c])
  /\ Slips
  /\ UNCHANGED <<cache, writeLock, davAt, asked, found, known, late, lapses, davFaults>>

LateArrives ==
  /\ \E w \in late :
       /\ late' = late \ {w} /\ Stores(w)
       /\ lapses' = IF w.does = "create" THEN lapses \union {"untold"} ELSE lapses
  /\ Slips
  /\ UNCHANGED <<cache, writeLock, davAt, asked, found, known, davFaults>>

AppStep(a) ==
  \/ Locks(a) \/ ListsCached(a) \/ Lists(a) \/ KeepsListing(a) \/ Checks(a)
  \/ Notes(a) \/ Refused(a) \/ Writes(a) \/ WriteFails(a) \/ Confirms(a)
  \/ Remembers(a) \/ Forgets(a)

ContactNext ==
  \/ \E a \in Apps : AppAsks(a) \/ AppStep(a) \/ Breaks(a)
  \/ ListingAges \/ ChangedElsewhere \/ LateArrives

ContactSpec == ContactInit /\ [][ContactNext]_davVars

-----------------------------------------------------------------------------
(* Properties *)

(* A name means one contact of the account, though Aster takes any number and
   two apps may store it at once: a second one comes into being only after a
   listing read before a write was kept after it, or after a contact was made
   whose answer the bridge did not get.  (write_lock, current, remember; test
   concurrent_conditional_writes_let_only_one_through.) *)
OneContactPerName == Cardinality(Stored) > 1 => lapses # {}

(* A PUT or DELETE with If-Match that goes through meets the version the app
   named, not another app's nor one the listing did not show yet, unless another
   Aster client changed the contact after the bridge had looked.  (hold_for,
   current; test conditional_writes_see_changes_made_elsewhere.) *)
RespectsETags ==
  [][\A a \in Apps :
       /\ davAt[a] = "decide" /\ davAt'[a] \in {"confirm", "forget"}
       /\ asked[a].given = "match" /\ ~slipped[a]
       => contact[found[a].id] = known[a]]_davVars
=============================================================================
