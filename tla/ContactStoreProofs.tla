------------------------- MODULE ContactStoreProofs -------------------------
(***************************************************************************)
(* The write lock, the second look at the account and the listing together *)
(* keep one contact per name and overwrite no version an app has not seen, *)
(* for any number of apps, contacts, versions and faults.                  *)
(***************************************************************************)
EXTENDS ContactStore, FiniteSetTheorems, TLAPS

Places == {"rest", "list", "keep", "lock", "check", "note", "decide", "confirm", "remember", "forget"}
Entries == [id : ContactIds, tag : Nat] \union {NoEntry}
Wishes == [method : {"none", "get", "put", "delete"}, given : {"nothing", "match", "absent"}]
WriteIntents == [does : {"create", "update", "delete"}, id : Nat]

(* A write that has looked at the listing, and one that has reached the account. *)
Looked == {"check", "note", "decide", "confirm", "remember", "forget"}
Written == {"confirm", "remember"}

ContactTypeOK ==
  /\ contact \in [ContactIds -> Nat] /\ issued \in 0..MaxContacts /\ version \in Nat
  /\ listing \in {"none", "fresh", "old"} /\ listed \in Entries
  /\ writeLock \in Apps \union {NoApp}
  /\ davAt \in [Apps -> Places] /\ asked \in [Apps -> Wishes]
  /\ found \in [Apps -> Entries] /\ known \in [Apps -> Nat]
  /\ late \subseteq WriteIntents /\ slipped \in [Apps -> BOOLEAN]
  /\ lapses \subseteq {"overtaken", "untold"} /\ davFaults \in Nat

(* A write holds write_lock from its first look at the listing to its end. *)
Locked ==
  \A a \in Apps :
    davAt[a] \in Looked \/ (davAt[a] \in {"list", "keep"} /\ asked[a].method # "get") => writeLock = a

(* What a request is sure of by the place it has reached. *)
Placed ==
  \A a \in Apps :
    /\ davAt[a] = "check" => found[a] # NoEntry
    /\ asked[a].given = "match" => known[a] # 0

(* Unless something has lapsed, a write works with the one contact there is, and
   a listing that does not show it is about to be told. *)
Sighted ==
  lapses = {} => \A a \in Apps :
    /\ davAt[a] \in Looked => Stored \subseteq {found[a].id}
    /\ davAt[a] = "forget" => Stored = {}
Shown ==
  lapses = {} /\ listing # "none" => \A c \in Stored :
    c = listed.id \/ \E a \in Apps : davAt[a] \in Written /\ found[a].id = c
Single == lapses = {} => \A c, d \in Stored : c = d

(* What a request has read again stands until another client changes it. *)
Current ==
  \A a \in Apps :
    davAt[a] \in {"note", "decide"} /\ asked[a].given = "match" /\ ~slipped[a] /\ found[a] # NoEntry
      => contact[found[a].id] = found[a].tag

ContactIInv == ContactTypeOK /\ Locked /\ Placed /\ Sighted /\ Shown /\ Single /\ Current

LEMMA EntryIs == ASSUME ContactTypeOK, NEW c \in Stored
                 PROVE  Entry(c) \in Entries /\ Entry(c) # NoEntry /\ Entry(c).id = c /\ Entry(c).tag = contact[c]
BY DEF ContactTypeOK, Entry, Entries, Stored, ContactIds, NoEntry

LEMMA AppAsksKeeps == ASSUME ContactIInv, NEW a \in Apps, AppAsks(a) PROVE ContactIInv'
<1> USE ContactAssumption DEF AppAsks, accountVars, cache, ContactIInv
<1>1. Stored' = Stored
  BY DEF Stored
<1>2. ContactTypeOK'
  BY <1>1 DEF ContactTypeOK, Places, Entries, Wishes, WriteIntents, ContactIds, NoEntry
<1>3. Locked'
  BY <1>1 DEF ContactTypeOK, Locked, Looked, Places, Entries, Wishes, WriteIntents, ContactIds, NoEntry
<1>4. Placed'
  BY <1>1 DEF ContactTypeOK, Placed, Places, Entries, Wishes, WriteIntents, ContactIds, NoEntry
<1>5. Sighted'
  BY <1>1 DEF ContactTypeOK, Locked, Sighted, Shown, Looked, Written, Places, Entries, Wishes, WriteIntents, ContactIds, NoEntry
<1>6. Shown'
  BY <1>1 DEF ContactTypeOK, Locked, Sighted, Shown, Looked, Written, Places, Entries, Wishes, WriteIntents, ContactIds, NoEntry
<1>7. Single'
  BY <1>1 DEF Single
<1>8. Current'
  BY <1>1 DEF ContactTypeOK, Locked, Placed, Current, Looked, Places, Entries, Wishes, WriteIntents, ContactIds, NoEntry
<1> QED BY <1>2, <1>3, <1>4, <1>5, <1>6, <1>7, <1>8

LEMMA LocksKeeps == ASSUME ContactIInv, NEW a \in Apps, Locks(a) PROVE ContactIInv'
<1> USE ContactAssumption DEF Locks, Goes, LockFree, accountVars, cache, ContactIInv
<1>1. Stored' = Stored
  BY DEF Stored
<1>2. ContactTypeOK'
  BY <1>1 DEF ContactTypeOK, Places, Entries, Wishes, WriteIntents, ContactIds, NoEntry
<1>3. Locked'
  BY <1>1 DEF ContactTypeOK, Locked, Looked, Places, Entries, Wishes, WriteIntents, ContactIds, NoEntry
<1>4. Placed'
  BY <1>1 DEF ContactTypeOK, Placed, Places, Entries, Wishes, WriteIntents, ContactIds, NoEntry
<1>5. Sighted'
  BY <1>1 DEF ContactTypeOK, Locked, Sighted, Shown, Looked, Written, Places, Entries, Wishes, WriteIntents, ContactIds, NoEntry
<1>6. Shown'
  BY <1>1 DEF ContactTypeOK, Locked, Sighted, Shown, Looked, Written, Places, Entries, Wishes, WriteIntents, ContactIds, NoEntry
<1>7. Single'
  BY <1>1 DEF Single
<1>8. Current'
  BY <1>1 DEF ContactTypeOK, Locked, Placed, Current, Looked, Places, Entries, Wishes, WriteIntents, ContactIds, NoEntry
<1> QED BY <1>2, <1>3, <1>4, <1>5, <1>6, <1>7, <1>8

LEMMA ListsCachedKeeps == ASSUME ContactIInv, NEW a \in Apps, ListsCached(a) PROVE ContactIInv'
<1> USE ContactAssumption DEF ListsCached, Usable, Finds, Ends, NoWish, accountVars, cache, ContactIInv
<1>1. Stored' = Stored
  BY DEF Stored
<1>2. CASE asked[a].method = "get"
  <2>8. Ends(a) /\ known' = [known EXCEPT ![a] = listed.tag]
    BY <1>2 DEF Looks
  <2>1. ContactTypeOK'
    BY <1>1, <2>8 DEF ContactTypeOK, Places, Entries, Wishes, WriteIntents, ContactIds, NoEntry
  <2>2. Locked'
    BY <1>1, <2>8 DEF ContactTypeOK, Locked, Looked, Places, Entries, Wishes, WriteIntents, ContactIds, NoEntry
  <2>3. Placed'
    BY <1>1, <2>8 DEF ContactTypeOK, Placed, Places, Entries, Wishes, WriteIntents, ContactIds, NoEntry
  <2>4. Sighted'
    BY <1>1, <2>8 DEF ContactTypeOK, Locked, Sighted, Shown, Looked, Written, Places, Entries, Wishes, WriteIntents, ContactIds, NoEntry
  <2>5. Shown'
    BY <1>1, <2>8 DEF ContactTypeOK, Locked, Sighted, Shown, Looked, Written, Places, Entries, Wishes, WriteIntents, ContactIds, NoEntry
  <2>6. Single'
    BY <1>1, <2>8 DEF Single
  <2>7. Current'
    BY <1>1, <2>8 DEF ContactTypeOK, Locked, Placed, Current, Looked, Places, Entries, Wishes, WriteIntents, ContactIds, NoEntry
  <2> QED BY <2>1, <2>2, <2>3, <2>4, <2>5, <2>6, <2>7
<1>3. CASE asked[a].method # "get" /\ AsksAgain(a, listed)
  <2>8. Finds(a, listed) /\ davAt' = [davAt EXCEPT ![a] = "check"] /\ UNCHANGED <<asked, known, writeLock, slipped>>
    BY <1>3 DEF Looks
  <2>1. ContactTypeOK'
    BY <1>1, <1>3, <2>8 DEF ContactTypeOK, Places, Entries, Wishes, WriteIntents, ContactIds, NoEntry
  <2>2. Locked'
    BY <1>1, <1>3, <2>8 DEF ContactTypeOK, Locked, Looked, Places, Entries, Wishes, WriteIntents, ContactIds, NoEntry
  <2>3. Placed'
    BY <1>1, <1>3, <2>8 DEF ContactTypeOK, Placed, Places, Entries, Wishes, WriteIntents, ContactIds, NoEntry, AsksAgain
  <2>4. Sighted'
    BY <1>1, <1>3, <2>8 DEF ContactTypeOK, Locked, Sighted, Shown, Looked, Written, Places, Entries, Wishes, WriteIntents, ContactIds, NoEntry
  <2>5. Shown'
    BY <1>1, <1>3, <2>8 DEF ContactTypeOK, Locked, Sighted, Shown, Looked, Written, Places, Entries, Wishes, WriteIntents, ContactIds, NoEntry
  <2>6. Single'
    BY <1>1, <1>3, <2>8 DEF Single
  <2>7. Current'
    BY <1>1, <1>3, <2>8 DEF ContactTypeOK, Locked, Placed, Current, Looked, Places, Entries, Wishes, WriteIntents, ContactIds, NoEntry, AsksAgain
  <2> QED BY <2>1, <2>2, <2>3, <2>4, <2>5, <2>6, <2>7
<1>4. CASE asked[a].method # "get" /\ ~AsksAgain(a, listed)
  <2>8. Finds(a, listed) /\ davAt' = [davAt EXCEPT ![a] = "decide"] /\ UNCHANGED <<asked, known, writeLock, slipped>>
    BY <1>4 DEF Looks
  <2>1. ContactTypeOK'
    BY <1>1, <1>4, <2>8 DEF ContactTypeOK, Places, Entries, Wishes, WriteIntents, ContactIds, NoEntry
  <2>2. Locked'
    BY <1>1, <1>4, <2>8 DEF ContactTypeOK, Locked, Looked, Places, Entries, Wishes, WriteIntents, ContactIds, NoEntry
  <2>3. Placed'
    BY <1>1, <1>4, <2>8 DEF ContactTypeOK, Placed, Places, Entries, Wishes, WriteIntents, ContactIds, NoEntry, AsksAgain
  <2>4. Sighted'
    BY <1>1, <1>4, <2>8 DEF ContactTypeOK, Locked, Sighted, Shown, Looked, Written, Places, Entries, Wishes, WriteIntents, ContactIds, NoEntry
  <2>5. Shown'
    BY <1>1, <1>4, <2>8 DEF ContactTypeOK, Locked, Sighted, Shown, Looked, Written, Places, Entries, Wishes, WriteIntents, ContactIds, NoEntry
  <2>6. Single'
    BY <1>1, <1>4, <2>8 DEF Single
  <2>7. Current'
    BY <1>1, <1>4, <2>8 DEF ContactTypeOK, Locked, Placed, Current, Looked, Places, Entries, Wishes, WriteIntents, ContactIds, NoEntry, AsksAgain
  <2> QED BY <2>1, <2>2, <2>3, <2>4, <2>5, <2>6, <2>7
<1> QED BY <1>2, <1>3, <1>4

LEMMA ListsKeeps == ASSUME ContactIInv, NEW a \in Apps, Lists(a) PROVE ContactIInv'
<1> USE ContactAssumption DEF Lists, Goes, Finds, accountVars, cache, ContactIInv
<1>1. Stored' = Stored
  BY DEF Stored
<1>2. CASE \E c \in Stored : Finds(a, Entry(c))
  <2>9. PICK c \in Stored : Finds(a, Entry(c))
    BY <1>2
  <2>8. found' = [found EXCEPT ![a] = Entry(c)] /\ Entry(c) \in Entries
    BY <2>9, EntryIs
  <2>1. ContactTypeOK'
    BY <1>1, <2>8 DEF ContactTypeOK, Places, Entries, Wishes, WriteIntents, ContactIds, NoEntry
  <2>2. Locked'
    BY <1>1, <2>8 DEF ContactTypeOK, Locked, Looked, Places, Entries, Wishes, WriteIntents, ContactIds, NoEntry
  <2>3. Placed'
    BY <1>1, <2>8 DEF ContactTypeOK, Placed, Places, Entries, Wishes, WriteIntents, ContactIds, NoEntry
  <2>4. Sighted'
    BY <1>1, <2>8 DEF ContactTypeOK, Locked, Sighted, Shown, Looked, Written, Places, Entries, Wishes, WriteIntents, ContactIds, NoEntry
  <2>5. Shown'
    BY <1>1, <2>8 DEF ContactTypeOK, Locked, Sighted, Shown, Looked, Written, Places, Entries, Wishes, WriteIntents, ContactIds, NoEntry
  <2>6. Single'
    BY <1>1, <2>8 DEF Single
  <2>7. Current'
    BY <1>1, <2>8 DEF ContactTypeOK, Locked, Placed, Current, Looked, Places, Entries, Wishes, WriteIntents, ContactIds, NoEntry
  <2> QED BY <2>1, <2>2, <2>3, <2>4, <2>5, <2>6, <2>7
<1>3. CASE Stored = {} /\ Finds(a, NoEntry)
  <2>1. ContactTypeOK'
    BY <1>1, <1>3 DEF ContactTypeOK, Places, Entries, Wishes, WriteIntents, ContactIds, NoEntry, Stored
  <2>2. Locked'
    BY <1>1, <1>3 DEF ContactTypeOK, Locked, Looked, Places, Entries, Wishes, WriteIntents, ContactIds, NoEntry
  <2>3. Placed'
    BY <1>1, <1>3 DEF ContactTypeOK, Placed, Places, Entries, Wishes, WriteIntents, ContactIds, NoEntry
  <2>4. Sighted'
    BY <1>1, <1>3 DEF ContactTypeOK, Locked, Sighted, Shown, Looked, Written, Places, Entries, Wishes, WriteIntents, ContactIds, NoEntry, Stored
  <2>5. Shown'
    BY <1>1, <1>3 DEF ContactTypeOK, Locked, Sighted, Shown, Looked, Written, Places, Entries, Wishes, WriteIntents, ContactIds, NoEntry, Stored
  <2>6. Single'
    BY <1>1, <1>3 DEF Single
  <2>7. Current'
    BY <1>1, <1>3 DEF ContactTypeOK, Locked, Placed, Current, Looked, Places, Entries, Wishes, WriteIntents, ContactIds, NoEntry
  <2> QED BY <2>1, <2>2, <2>3, <2>4, <2>5, <2>6, <2>7
<1> QED BY <1>2, <1>3

LEMMA KeepsListingKeeps == ASSUME ContactIInv, NEW a \in Apps, KeepsListing(a) PROVE ContactIInv'
<1> USE ContactAssumption DEF KeepsListing, Finds, Ends, NoWish, accountVars, cache, ContactIInv
<1>1. Stored' = Stored
  BY DEF Stored
<1>2. CASE asked[a].method = "get"
  <2>8. Ends(a) /\ known' = [known EXCEPT ![a] = found[a].tag]
    BY <1>2 DEF Looks
  <2>1. ContactTypeOK'
    BY <1>1, <2>8 DEF ContactTypeOK, Places, Entries, Wishes, WriteIntents, ContactIds, NoEntry
  <2>2. Locked'
    BY <1>1, <2>8 DEF ContactTypeOK, Locked, Looked, Places, Entries, Wishes, WriteIntents, ContactIds, NoEntry
  <2>3. Placed'
    BY <1>1, <2>8 DEF ContactTypeOK, Placed, Places, Entries, Wishes, WriteIntents, ContactIds, NoEntry
  <2>4. Sighted'
    BY <1>1, <2>8 DEF ContactTypeOK, Locked, Sighted, Shown, Looked, Written, Places, Entries, Wishes, WriteIntents, ContactIds, NoEntry
  <2>5. Shown'
    BY <1>1, <2>8 DEF ContactTypeOK, Locked, Sighted, Shown, Looked, Written, Places, Entries, Wishes, WriteIntents, ContactIds, NoEntry
  <2>6. Single'
    BY <1>1, <2>8 DEF Single
  <2>7. Current'
    BY <1>1, <2>8 DEF ContactTypeOK, Locked, Placed, Current, Looked, Places, Entries, Wishes, WriteIntents, ContactIds, NoEntry
  <2> QED BY <2>1, <2>2, <2>3, <2>4, <2>5, <2>6, <2>7
<1>3. CASE asked[a].method # "get" /\ AsksAgain(a, found[a])
  <2>8. Finds(a, found[a]) /\ davAt' = [davAt EXCEPT ![a] = "check"] /\ UNCHANGED <<asked, known, writeLock, slipped>>
    BY <1>3 DEF Looks
  <2>1. ContactTypeOK'
    BY <1>1, <1>3, <2>8 DEF ContactTypeOK, Places, Entries, Wishes, WriteIntents, ContactIds, NoEntry
  <2>2. Locked'
    BY <1>1, <1>3, <2>8 DEF ContactTypeOK, Locked, Looked, Places, Entries, Wishes, WriteIntents, ContactIds, NoEntry
  <2>3. Placed'
    BY <1>1, <1>3, <2>8 DEF ContactTypeOK, Placed, Places, Entries, Wishes, WriteIntents, ContactIds, NoEntry, AsksAgain
  <2>4. Sighted'
    BY <1>1, <1>3, <2>8 DEF ContactTypeOK, Locked, Sighted, Shown, Looked, Written, Places, Entries, Wishes, WriteIntents, ContactIds, NoEntry
  <2>5. Shown'
    BY <1>1, <1>3, <2>8 DEF ContactTypeOK, Locked, Sighted, Shown, Looked, Written, Places, Entries, Wishes, WriteIntents, ContactIds, NoEntry
  <2>6. Single'
    BY <1>1, <1>3, <2>8 DEF Single
  <2>7. Current'
    BY <1>1, <1>3, <2>8 DEF ContactTypeOK, Locked, Placed, Current, Looked, Places, Entries, Wishes, WriteIntents, ContactIds, NoEntry, AsksAgain
  <2> QED BY <2>1, <2>2, <2>3, <2>4, <2>5, <2>6, <2>7
<1>4. CASE asked[a].method # "get" /\ ~AsksAgain(a, found[a])
  <2>8. Finds(a, found[a]) /\ davAt' = [davAt EXCEPT ![a] = "decide"] /\ UNCHANGED <<asked, known, writeLock, slipped>>
    BY <1>4 DEF Looks
  <2>1. ContactTypeOK'
    BY <1>1, <1>4, <2>8 DEF ContactTypeOK, Places, Entries, Wishes, WriteIntents, ContactIds, NoEntry
  <2>2. Locked'
    BY <1>1, <1>4, <2>8 DEF ContactTypeOK, Locked, Looked, Places, Entries, Wishes, WriteIntents, ContactIds, NoEntry
  <2>3. Placed'
    BY <1>1, <1>4, <2>8 DEF ContactTypeOK, Placed, Places, Entries, Wishes, WriteIntents, ContactIds, NoEntry, AsksAgain
  <2>4. Sighted'
    BY <1>1, <1>4, <2>8 DEF ContactTypeOK, Locked, Sighted, Shown, Looked, Written, Places, Entries, Wishes, WriteIntents, ContactIds, NoEntry
  <2>5. Shown'
    BY <1>1, <1>4, <2>8 DEF ContactTypeOK, Locked, Sighted, Shown, Looked, Written, Places, Entries, Wishes, WriteIntents, ContactIds, NoEntry
  <2>6. Single'
    BY <1>1, <1>4, <2>8 DEF Single
  <2>7. Current'
    BY <1>1, <1>4, <2>8 DEF ContactTypeOK, Locked, Placed, Current, Looked, Places, Entries, Wishes, WriteIntents, ContactIds, NoEntry, AsksAgain
  <2> QED BY <2>1, <2>2, <2>3, <2>4, <2>5, <2>6, <2>7
<1> QED BY <1>2, <1>3, <1>4

LEMMA ChecksKeeps == ASSUME ContactIInv, NEW a \in Apps, Checks(a) PROVE ContactIInv'
<1> USE ContactAssumption DEF Checks, Goes, Finds, accountVars, cache, ContactIInv
<1>1. Stored' = Stored
  BY DEF Stored
<1>2. CASE contact[found[a].id] # 0
  <2>9. found[a].id \in Stored
    BY <1>2 DEF Stored, ContactTypeOK, Placed, Entries, NoEntry
  <2>8. /\ found' = [found EXCEPT ![a] = Entry(found[a].id)] /\ davAt' = [davAt EXCEPT ![a] = "note"]
        /\ Entry(found[a].id) \in Entries /\ Entry(found[a].id).id = found[a].id
        /\ Entry(found[a].id).tag = contact[found[a].id]
    BY <1>2, <2>9, EntryIs
  <2>1. ContactTypeOK'
    BY <1>1, <2>8 DEF ContactTypeOK, Places, Entries, Wishes, WriteIntents, ContactIds, NoEntry
  <2>2. Locked'
    BY <1>1, <2>8 DEF ContactTypeOK, Locked, Looked, Places, Entries, Wishes, WriteIntents, ContactIds, NoEntry
  <2>3. Placed'
    BY <1>1, <2>8 DEF ContactTypeOK, Placed, Places, Entries, Wishes, WriteIntents, ContactIds, NoEntry
  <2>4. Sighted'
    BY <1>1, <2>8 DEF ContactTypeOK, Locked, Sighted, Shown, Looked, Written, Places, Entries, Wishes, WriteIntents, ContactIds, NoEntry
  <2>5. Shown'
    <3>1. \A b \in Apps : davAt[b] \in Written => davAt'[b] = davAt[b] /\ found'[b] = found[b]
      BY <2>8 DEF ContactTypeOK, Written
    <3> QED BY <1>1, <3>1 DEF Shown, Written
  <2>6. Single'
    BY <1>1, <2>8 DEF Single
  <2>7. Current'
    BY <1>1, <2>8 DEF ContactTypeOK, Locked, Placed, Current, Looked, Places, Entries, Wishes, WriteIntents, ContactIds, NoEntry
  <2> QED BY <2>1, <2>2, <2>3, <2>4, <2>5, <2>6, <2>7
<1>3. CASE contact[found[a].id] = 0
  <2>1. ContactTypeOK'
    BY <1>1, <1>3 DEF ContactTypeOK, Places, Entries, Wishes, WriteIntents, ContactIds, NoEntry, Stored
  <2>2. Locked'
    BY <1>1, <1>3 DEF ContactTypeOK, Locked, Looked, Places, Entries, Wishes, WriteIntents, ContactIds, NoEntry
  <2>3. Placed'
    BY <1>1, <1>3 DEF ContactTypeOK, Placed, Places, Entries, Wishes, WriteIntents, ContactIds, NoEntry
  <2>4. Sighted'
    BY <1>1, <1>3 DEF ContactTypeOK, Locked, Sighted, Shown, Looked, Written, Places, Entries, Wishes, WriteIntents, ContactIds, NoEntry, Stored
  <2>5. Shown'
    BY <1>1, <1>3 DEF ContactTypeOK, Locked, Sighted, Shown, Looked, Written, Places, Entries, Wishes, WriteIntents, ContactIds, NoEntry, Stored
  <2>6. Single'
    BY <1>1, <1>3 DEF Single
  <2>7. Current'
    BY <1>1, <1>3 DEF ContactTypeOK, Locked, Placed, Current, Looked, Places, Entries, Wishes, WriteIntents, ContactIds, NoEntry
  <2> QED BY <2>1, <2>2, <2>3, <2>4, <2>5, <2>6, <2>7
<1> QED BY <1>2, <1>3

LEMMA NotesKeeps == ASSUME ContactIInv, NEW a \in Apps, Notes(a) PROVE ContactIInv'
<1> USE ContactAssumption DEF Notes, Goes, Tells, accountVars, cache, ContactIInv
<1>1. Stored' = Stored
  BY DEF Stored
<1>2. ContactTypeOK'
  BY <1>1 DEF ContactTypeOK, Places, Entries, Wishes, WriteIntents, ContactIds, NoEntry
<1>3. Locked'
  BY <1>1 DEF ContactTypeOK, Locked, Looked, Places, Entries, Wishes, WriteIntents, ContactIds, NoEntry
<1>4. Placed'
  BY <1>1 DEF ContactTypeOK, Placed, Places, Entries, Wishes, WriteIntents, ContactIds, NoEntry
<1>5. Sighted'
  BY <1>1 DEF ContactTypeOK, Locked, Sighted, Shown, Looked, Written, Places, Entries, Wishes, WriteIntents, ContactIds, NoEntry
<1>6. Shown'
  BY <1>1 DEF ContactTypeOK, Locked, Sighted, Shown, Looked, Written, Places, Entries, Wishes, WriteIntents, ContactIds, NoEntry
<1>7. Single'
  BY <1>1 DEF Single
<1>8. Current'
  BY <1>1 DEF ContactTypeOK, Locked, Placed, Current, Looked, Places, Entries, Wishes, WriteIntents, ContactIds, NoEntry
<1> QED BY <1>2, <1>3, <1>4, <1>5, <1>6, <1>7, <1>8

LEMMA RefusedKeeps == ASSUME ContactIInv, NEW a \in Apps, Refused(a) PROVE ContactIInv'
<1> USE ContactAssumption DEF Refused, Ends, Finds, NoWish, accountVars, cache, ContactIInv
<1>1. Stored' = Stored
  BY DEF Stored
<1>2. ContactTypeOK'
  BY <1>1 DEF ContactTypeOK, Places, Entries, Wishes, WriteIntents, ContactIds, NoEntry
<1>3. Locked'
  BY <1>1 DEF ContactTypeOK, Locked, Looked, Places, Entries, Wishes, WriteIntents, ContactIds, NoEntry
<1>4. Placed'
  BY <1>1 DEF ContactTypeOK, Placed, Places, Entries, Wishes, WriteIntents, ContactIds, NoEntry
<1>5. Sighted'
  BY <1>1 DEF ContactTypeOK, Locked, Sighted, Shown, Looked, Written, Places, Entries, Wishes, WriteIntents, ContactIds, NoEntry
<1>6. Shown'
  BY <1>1 DEF ContactTypeOK, Locked, Sighted, Shown, Looked, Written, Places, Entries, Wishes, WriteIntents, ContactIds, NoEntry
<1>7. Single'
  BY <1>1 DEF Single
<1>8. Current'
  BY <1>1 DEF ContactTypeOK, Locked, Placed, Current, Looked, Places, Entries, Wishes, WriteIntents, ContactIds, NoEntry
<1> QED BY <1>2, <1>3, <1>4, <1>5, <1>6, <1>7, <1>8

LEMMA WriteFailsKeeps == ASSUME ContactIInv, NEW a \in Apps, WriteFails(a) PROVE ContactIInv'
<1> USE ContactAssumption DEF WriteFails, Ends, Finds, NoWish, Intent, DavFault, accountVars, cache, ContactIInv
<1>1. Stored' = Stored
  BY DEF Stored
<1>2. ContactTypeOK'
  BY <1>1 DEF ContactTypeOK, Places, Entries, Wishes, WriteIntents, ContactIds, NoEntry
<1>3. Locked'
  BY <1>1 DEF ContactTypeOK, Locked, Looked, Places, Entries, Wishes, WriteIntents, ContactIds, NoEntry
<1>4. Placed'
  BY <1>1 DEF ContactTypeOK, Placed, Places, Entries, Wishes, WriteIntents, ContactIds, NoEntry
<1>5. Sighted'
  BY <1>1 DEF ContactTypeOK, Locked, Sighted, Shown, Looked, Written, Places, Entries, Wishes, WriteIntents, ContactIds, NoEntry
<1>6. Shown'
  BY <1>1 DEF ContactTypeOK, Locked, Sighted, Shown, Looked, Written, Places, Entries, Wishes, WriteIntents, ContactIds, NoEntry
<1>7. Single'
  BY <1>1 DEF Single
<1>8. Current'
  BY <1>1 DEF ContactTypeOK, Locked, Placed, Current, Looked, Places, Entries, Wishes, WriteIntents, ContactIds, NoEntry
<1> QED BY <1>2, <1>3, <1>4, <1>5, <1>6, <1>7, <1>8

LEMMA ConfirmsKeeps == ASSUME ContactIInv, NEW a \in Apps, Confirms(a) PROVE ContactIInv'
<1> USE ContactAssumption DEF Confirms, Goes, Finds, Ends, NoWish, accountVars, cache, ContactIInv
<1>1. Stored' = Stored
  BY DEF Stored
<1>2. CASE found[a].id \in Stored
  <2>9. found[a].id \in Stored
    BY <1>2 DEF Stored, ContactTypeOK, Placed, Entries, NoEntry
  <2>8. /\ found' = [found EXCEPT ![a] = Entry(found[a].id)] /\ davAt' = [davAt EXCEPT ![a] = "remember"]
        /\ Entry(found[a].id) \in Entries /\ Entry(found[a].id).id = found[a].id
        /\ Entry(found[a].id).tag = contact[found[a].id] /\ UNCHANGED <<listing, listed, writeLock, asked, slipped>>
    BY <1>2, <2>9, EntryIs
  <2>1. ContactTypeOK'
    BY <1>1, <2>8 DEF ContactTypeOK, Places, Entries, Wishes, WriteIntents, ContactIds, NoEntry
  <2>2. Locked'
    BY <1>1, <2>8 DEF ContactTypeOK, Locked, Looked, Places, Entries, Wishes, WriteIntents, ContactIds, NoEntry
  <2>3. Placed'
    BY <1>1, <2>8 DEF ContactTypeOK, Placed, Places, Entries, Wishes, WriteIntents, ContactIds, NoEntry
  <2>4. Sighted'
    BY <1>1, <2>8 DEF ContactTypeOK, Locked, Sighted, Shown, Looked, Written, Places, Entries, Wishes, WriteIntents, ContactIds, NoEntry
  <2>5. Shown'
    BY <1>1, <2>8 DEF ContactTypeOK, Locked, Sighted, Shown, Looked, Written, Places, Entries, Wishes, WriteIntents, ContactIds, NoEntry
  <2>6. Single'
    BY <1>1, <2>8 DEF Single
  <2>7. Current'
    BY <1>1, <2>8 DEF ContactTypeOK, Locked, Placed, Current, Looked, Places, Entries, Wishes, WriteIntents, ContactIds, NoEntry
  <2> QED BY <2>1, <2>2, <2>3, <2>4, <2>5, <2>6, <2>7
<1>3. CASE found[a].id \notin Stored
  <2>1. ContactTypeOK'
    <3>1. /\ davAt' = [davAt EXCEPT ![a] = "rest"] /\ asked' = [asked EXCEPT ![a] = NoWish]
          /\ found' = [found EXCEPT ![a] = NoEntry] /\ slipped' = [slipped EXCEPT ![a] = FALSE]
          /\ writeLock' \in {writeLock, NoApp} /\ listing' = "none" /\ listed' = NoEntry
      BY <1>3
    <3> QED BY <3>1 DEF ContactTypeOK, Places, Entries, Wishes
  <2>2. Locked'
    BY <1>1, <1>3 DEF ContactTypeOK, Locked, Looked, Places, Entries, Wishes, WriteIntents, ContactIds, NoEntry
  <2>3. Placed'
    BY <1>1, <1>3 DEF ContactTypeOK, Placed, Places, Entries, Wishes, WriteIntents, ContactIds, NoEntry
  <2>4. Sighted'
    BY <1>1, <1>3 DEF ContactTypeOK, Locked, Sighted, Shown, Looked, Written, Places, Entries, Wishes, WriteIntents, ContactIds, NoEntry
  <2>5. Shown'
    BY <1>3 DEF Shown
  <2>6. Single'
    BY <1>1, <1>3 DEF Single
  <2>7. Current'
    BY <1>1, <1>3 DEF ContactTypeOK, Locked, Placed, Current, Looked, Places, Entries, Wishes, WriteIntents, ContactIds, NoEntry
  <2> QED BY <2>1, <2>2, <2>3, <2>4, <2>5, <2>6, <2>7
<1> QED BY <1>2, <1>3

LEMMA RemembersKeeps == ASSUME ContactIInv, NEW a \in Apps, Remembers(a) PROVE ContactIInv'
<1> USE ContactAssumption DEF Remembers, Tells, Ends, Finds, NoWish, accountVars, cache, ContactIInv
<1>1. Stored' = Stored
  BY DEF Stored
<1>2. ContactTypeOK'
  BY <1>1 DEF ContactTypeOK, Places, Entries, Wishes, WriteIntents, ContactIds, NoEntry
<1>3. Locked'
  BY <1>1 DEF ContactTypeOK, Locked, Looked, Places, Entries, Wishes, WriteIntents, ContactIds, NoEntry
<1>4. Placed'
  BY <1>1 DEF ContactTypeOK, Placed, Places, Entries, Wishes, WriteIntents, ContactIds, NoEntry
<1>5. Sighted'
  BY <1>1 DEF ContactTypeOK, Locked, Sighted, Shown, Looked, Written, Places, Entries, Wishes, WriteIntents, ContactIds, NoEntry
<1>6. Shown'
  BY <1>1 DEF ContactTypeOK, Locked, Sighted, Shown, Looked, Written, Places, Entries, Wishes, WriteIntents, ContactIds, NoEntry
<1>7. Single'
  BY <1>1 DEF Single
<1>8. Current'
  BY <1>1 DEF ContactTypeOK, Locked, Placed, Current, Looked, Places, Entries, Wishes, WriteIntents, ContactIds, NoEntry
<1> QED BY <1>2, <1>3, <1>4, <1>5, <1>6, <1>7, <1>8

LEMMA ForgetsKeeps == ASSUME ContactIInv, NEW a \in Apps, Forgets(a) PROVE ContactIInv'
<1> USE ContactAssumption DEF Forgets, Tells, Ends, Finds, NoWish, accountVars, cache, ContactIInv
<1>1. Stored' = Stored
  BY DEF Stored
<1>2. ContactTypeOK'
  BY <1>1 DEF ContactTypeOK, Places, Entries, Wishes, WriteIntents, ContactIds, NoEntry
<1>3. Locked'
  BY <1>1 DEF ContactTypeOK, Locked, Looked, Places, Entries, Wishes, WriteIntents, ContactIds, NoEntry
<1>4. Placed'
  BY <1>1 DEF ContactTypeOK, Placed, Places, Entries, Wishes, WriteIntents, ContactIds, NoEntry
<1>5. Sighted'
  BY <1>1 DEF ContactTypeOK, Locked, Sighted, Shown, Looked, Written, Places, Entries, Wishes, WriteIntents, ContactIds, NoEntry
<1>6. Shown'
  BY <1>1 DEF ContactTypeOK, Locked, Sighted, Shown, Looked, Written, Places, Entries, Wishes, WriteIntents, ContactIds, NoEntry
<1>7. Single'
  BY <1>1 DEF Single
<1>8. Current'
  BY <1>1 DEF ContactTypeOK, Locked, Placed, Current, Looked, Places, Entries, Wishes, WriteIntents, ContactIds, NoEntry
<1> QED BY <1>2, <1>3, <1>4, <1>5, <1>6, <1>7, <1>8

LEMMA BreaksKeeps == ASSUME ContactIInv, NEW a \in Apps, Breaks(a) PROVE ContactIInv'
<1> USE ContactAssumption DEF Breaks, DavFault, Ends, Finds, NoWish, accountVars, cache, ContactIInv
<1>1. Stored' = Stored
  BY DEF Stored
<1>2. ContactTypeOK'
  BY <1>1 DEF ContactTypeOK, Places, Entries, Wishes, WriteIntents, ContactIds, NoEntry
<1>3. Locked'
  BY <1>1 DEF ContactTypeOK, Locked, Looked, Places, Entries, Wishes, WriteIntents, ContactIds, NoEntry
<1>4. Placed'
  BY <1>1 DEF ContactTypeOK, Placed, Places, Entries, Wishes, WriteIntents, ContactIds, NoEntry
<1>5. Sighted'
  BY <1>1 DEF ContactTypeOK, Locked, Sighted, Shown, Looked, Written, Places, Entries, Wishes, WriteIntents, ContactIds, NoEntry
<1>6. Shown'
  BY <1>1 DEF ContactTypeOK, Locked, Sighted, Shown, Looked, Written, Places, Entries, Wishes, WriteIntents, ContactIds, NoEntry
<1>7. Single'
  BY <1>1 DEF Single
<1>8. Current'
  BY <1>1 DEF ContactTypeOK, Locked, Placed, Current, Looked, Places, Entries, Wishes, WriteIntents, ContactIds, NoEntry
<1> QED BY <1>2, <1>3, <1>4, <1>5, <1>6, <1>7, <1>8

LEMMA ListingAgesKeeps == ASSUME ContactIInv, ListingAges PROVE ContactIInv'
<1> USE ContactAssumption DEF ListingAges, accountVars, cache, ContactIInv
<1>1. Stored' = Stored
  BY DEF Stored
<1>2. ContactTypeOK'
  BY <1>1 DEF ContactTypeOK, Places, Entries, Wishes, WriteIntents, ContactIds, NoEntry
<1>3. Locked'
  BY <1>1 DEF ContactTypeOK, Locked, Looked, Places, Entries, Wishes, WriteIntents, ContactIds, NoEntry
<1>4. Placed'
  BY <1>1 DEF ContactTypeOK, Placed, Places, Entries, Wishes, WriteIntents, ContactIds, NoEntry
<1>5. Sighted'
  BY <1>1 DEF ContactTypeOK, Locked, Sighted, Shown, Looked, Written, Places, Entries, Wishes, WriteIntents, ContactIds, NoEntry
<1>6. Shown'
  BY <1>1 DEF ContactTypeOK, Locked, Sighted, Shown, Looked, Written, Places, Entries, Wishes, WriteIntents, ContactIds, NoEntry
<1>7. Single'
  BY <1>1 DEF Single
<1>8. Current'
  BY <1>1 DEF ContactTypeOK, Locked, Placed, Current, Looked, Places, Entries, Wishes, WriteIntents, ContactIds, NoEntry
<1> QED BY <1>2, <1>3, <1>4, <1>5, <1>6, <1>7, <1>8

LEMMA WritesKeeps == ASSUME ContactIInv, NEW a \in Apps, Writes(a) PROVE ContactIInv'
<1> USE ContactAssumption DEF ContactIInv
<1>1. /\ davAt[a] = "decide" /\ writeLock = a /\ UNCHANGED <<listing, listed, writeLock, asked, known, late, lapses, davFaults>>
      /\ davAt' = [davAt EXCEPT ![a] = IF asked[a].method = "delete" THEN "forget" ELSE "confirm"]
      /\ slipped' = [slipped EXCEPT ![a] = FALSE]
  BY DEF Writes, cache, Locked, Looked
<1>2. \A b \in Apps : b # a => davAt[b] \notin Looked /\ davAt'[b] = davAt[b] /\ found'[b] = found[b]
  BY <1>1 DEF Writes, Finds, Locked, ContactTypeOK
<1>3. CASE asked[a].method # "delete" /\ found[a] = NoEntry
  <2>1. /\ issued < MaxContacts /\ issued' = issued + 1 /\ version' = version + 1
        /\ contact' = [contact EXCEPT ![issued + 1] = version + 1]
        /\ found' = [found EXCEPT ![a] = [id |-> issued + 1, tag |-> 0]]
        /\ davAt' = [davAt EXCEPT ![a] = "confirm"]
    BY <1>1, <1>3 DEF Writes, Stores, Intent, Target, Finds
  <2>2. issued + 1 \in ContactIds /\ issued \in Nat
    BY <2>1, ContactAssumption DEF ContactTypeOK, ContactIds
  <2>3. lapses = {} => Stored' = {issued + 1}
    <3>1. lapses = {} => Stored = {}
      BY <1>1, <1>3 DEF Sighted, Looked, Stored, ContactIds, NoEntry
    <3> QED BY <2>1, <2>2, <3>1 DEF Stored, ContactTypeOK
  <2>4. davAt'[a] = "confirm" /\ found'[a].id = issued + 1
    BY <2>1 DEF ContactTypeOK
  <2>5. ContactTypeOK'
    <3>1. contact' \in [ContactIds -> Nat] /\ issued' \in 0..MaxContacts /\ version' \in Nat
      BY <2>1, <2>2, ContactAssumption DEF ContactTypeOK
    <3>2. found' \in [Apps -> Entries]
      BY <2>1, <2>2 DEF ContactTypeOK, Entries
    <3> QED BY <1>1, <2>1, <3>1, <3>2 DEF ContactTypeOK, Places
  <2>6. Sighted'
    BY <1>1, <1>2, <2>3, <2>4 DEF Sighted, Looked
  <2>7. Shown'
    BY <1>1, <2>3, <2>4 DEF Shown, Written
  <2>8. Single'
    BY <1>1, <2>3 DEF Single
  <2> QED BY <1>1, <1>2, <2>4, <2>5, <2>6, <2>7, <2>8 DEF Locked, Looked, Placed, Current
<1>4. CASE asked[a].method # "delete" /\ found[a] # NoEntry
  <2>1. /\ found[a].id \in Stored /\ version' = version + 1 /\ UNCHANGED issued
        /\ contact' = [contact EXCEPT ![found[a].id] = version + 1]
        /\ found' = [found EXCEPT ![a] = [id |-> found[a].id, tag |-> 0]]
        /\ davAt' = [davAt EXCEPT ![a] = "confirm"]
    BY <1>1, <1>4 DEF Writes, Stores, Intent, Target, Finds
  <2>2. found[a].id \in ContactIds
    BY <2>1 DEF Stored
  <2>3. Stored' = Stored
    BY <2>1 DEF Stored, ContactTypeOK
  <2>4. davAt'[a] = "confirm" /\ found'[a].id = found[a].id
    BY <2>1 DEF ContactTypeOK
  <2>5. ContactTypeOK'
    <3>1. contact' \in [ContactIds -> Nat] /\ version' \in Nat
      BY <2>1, <2>2 DEF ContactTypeOK
    <3>2. found' \in [Apps -> Entries]
      BY <2>1, <2>2 DEF ContactTypeOK, Entries
    <3> QED BY <1>1, <2>1, <3>1, <3>2 DEF ContactTypeOK, Places
  <2>6. Sighted'
    BY <1>1, <1>2, <2>3, <2>4 DEF Sighted, Looked
  <2>7. Shown'
    BY <1>1, <1>2, <2>3, <2>4 DEF Shown, Written, Looked
  <2>8. Single'
    BY <1>1, <2>3 DEF Single
  <2> QED BY <1>1, <1>2, <2>4, <2>5, <2>6, <2>7, <2>8 DEF Locked, Looked, Placed, Current
<1>5. CASE asked[a].method = "delete"
  <2>1. /\ found[a].id \in Stored /\ UNCHANGED <<issued, version>>
        /\ contact' = [contact EXCEPT ![found[a].id] = 0]
        /\ found' = [found EXCEPT ![a] = [id |-> found[a].id, tag |-> 0]]
        /\ davAt' = [davAt EXCEPT ![a] = "forget"]
    BY <1>1, <1>5 DEF Writes, Stores, Intent, Target, Finds
  <2>2. found[a].id \in ContactIds
    BY <2>1 DEF Stored
  <2>3. Stored' = Stored \ {found[a].id}
    BY <2>1 DEF Stored, ContactTypeOK
  <2>4. davAt'[a] = "forget" /\ found'[a].id = found[a].id
    BY <2>1 DEF ContactTypeOK
  <2>5. ContactTypeOK'
    <3>1. contact' \in [ContactIds -> Nat]
      BY <2>1, <2>2 DEF ContactTypeOK
    <3>2. found' \in [Apps -> Entries]
      BY <2>1, <2>2 DEF ContactTypeOK, Entries
    <3> QED BY <1>1, <2>1, <3>1, <3>2 DEF ContactTypeOK, Places
  <2>6. lapses = {} => Stored' = {}
    BY <1>1, <2>3 DEF Sighted, Looked
  <2>7. Sighted' /\ Shown' /\ Single'
    BY <1>1, <1>2, <2>6 DEF Sighted, Shown, Single, Looked
  <2> QED BY <1>1, <1>2, <2>4, <2>5, <2>7 DEF Locked, Looked, Placed, Current
<1> QED BY <1>3, <1>4, <1>5

(* Other clients change or delete contacts; only a late creation adds one. *)
LEMMA AccountChanges ==
  ASSUME ContactIInv, NEW w \in WriteIntents, Stores(w), Slips,
         UNCHANGED <<cache, writeLock, davAt, asked, found, known, davFaults>>,
         late' \subseteq late, lapses' \subseteq {"overtaken", "untold"}, lapses \subseteq lapses',
         w.does = "create" => lapses' # {}
  PROVE  ContactIInv'
<1> USE ContactAssumption DEF ContactIInv, cache
<1>1. contact' \in [ContactIds -> Nat] /\ issued' \in 0..MaxContacts /\ version' \in Nat
  <2>1. CASE w.does = "create"
    <3>1. /\ issued < MaxContacts /\ issued' = issued + 1 /\ version' = version + 1
          /\ contact' = [contact EXCEPT ![issued + 1] = version + 1]
      BY <2>1 DEF Stores
    <3>2. issued' \in 0..MaxContacts /\ version' \in Nat
      BY <3>1 DEF ContactTypeOK, ContactAssumption
    <3>3. version + 1 \in Nat /\ contact \in [ContactIds -> Nat]
      BY DEF ContactTypeOK
    <3>4. contact' \in [ContactIds -> Nat]
      BY <3>1, <3>3
    <3> QED BY <3>2, <3>4
  <2>2. CASE w.does = "update"
    BY <2>2 DEF Stores, ContactTypeOK, Stored
  <2>3. CASE w.does = "delete"
    BY <2>3 DEF Stores, ContactTypeOK, Stored
  <2> QED BY <2>1, <2>2, <2>3 DEF WriteIntents
<1>2. lapses' = {} => lapses = {} /\ Stored' \subseteq Stored
  <2>1. CASE w.does = "update"
    BY <2>1 DEF Stores, Stored, ContactTypeOK
  <2>2. CASE w.does = "delete"
    BY <2>2 DEF Stores, Stored, ContactTypeOK
  <2> QED BY <2>1, <2>2 DEF WriteIntents
<1>3. ContactTypeOK'
  BY <1>1 DEF ContactTypeOK, Slips
<1>4. Locked' /\ Placed'
  BY DEF Locked, Placed
<1>5. Sighted'
  BY <1>2 DEF Sighted
<1>6. Shown' /\ Single'
  BY <1>2 DEF Shown, Single
<1>7. Current'
  BY DEF Current, Slips, ContactTypeOK
<1> QED BY <1>3, <1>4, <1>5, <1>6, <1>7

LEMMA ChangedElsewhereKeeps == ASSUME ContactIInv, ChangedElsewhere PROVE ContactIInv'
<1>1. PICK c \in Stored, d \in {"update", "delete"} : Stores([does |-> d, id |-> c])
  BY DEF ChangedElsewhere
<1>2. [does |-> d, id |-> c] \in WriteIntents
  BY ContactAssumption DEF Stored, ContactIds, WriteIntents
<1> QED BY <1>1, <1>2, AccountChanges DEF ChangedElsewhere, ContactIInv, ContactTypeOK

LEMMA LateArrivesKeeps == ASSUME ContactIInv, LateArrives PROVE ContactIInv'
<1>1. PICK w \in late :
        /\ late' = late \ {w} /\ Stores(w)
        /\ lapses' = IF w.does = "create" THEN lapses \union {"untold"} ELSE lapses
  BY DEF LateArrives
<1>2. w \in WriteIntents
  BY DEF ContactIInv, ContactTypeOK
<1>3. lapses' \subseteq {"overtaken", "untold"} /\ lapses \subseteq lapses' /\ (w.does = "create" => lapses' # {})
  BY <1>1 DEF ContactIInv, ContactTypeOK
<1> QED BY <1>1, <1>2, <1>3, AccountChanges DEF LateArrives

LEMMA ContactInitHolds == ContactInit => ContactIInv
<1> SUFFICES ASSUME ContactInit PROVE ContactIInv
  OBVIOUS
<1>1. ContactTypeOK
  BY ContactAssumption DEF ContactInit, ContactTypeOK, Places, Entries, Wishes, NoWish, NoEntry, ContactIds
<1>2. \A c, d \in Stored : c = d
  BY DEF ContactInit, Stored, ContactIds
<1>3. Locked /\ Placed /\ Sighted /\ Shown /\ Single /\ Current
  BY <1>2 DEF ContactInit, Locked, Placed, Sighted, Shown, Single, Current, Looked, NoWish
<1> QED BY <1>1, <1>3 DEF ContactIInv

LEMMA ContactNextKeeps == ContactIInv /\ [ContactNext]_davVars => ContactIInv'
<1> SUFFICES ASSUME ContactIInv, [ContactNext]_davVars PROVE ContactIInv'
  OBVIOUS
<1>1. CASE UNCHANGED davVars
  BY <1>1 DEF davVars, ContactIInv, ContactTypeOK, Locked, Placed, Sighted, Shown, Single, Current, Stored
<1>2. ASSUME NEW a \in Apps, AppAsks(a) \/ AppStep(a) \/ Breaks(a) PROVE ContactIInv'
  BY <1>2, AppAsksKeeps, LocksKeeps, ListsCachedKeeps, ListsKeeps, KeepsListingKeeps, ChecksKeeps, NotesKeeps,
     RefusedKeeps, WritesKeeps, WriteFailsKeeps, ConfirmsKeeps, RemembersKeeps, ForgetsKeeps, BreaksKeeps
     DEF AppStep
<1> QED BY <1>1, <1>2, ListingAgesKeeps, ChangedElsewhereKeeps, LateArrivesKeeps DEF ContactNext

LEMMA ContactIInvHolds == ContactSpec => []ContactIInv
BY ContactInitHolds, ContactNextKeeps, PTL DEF ContactSpec

-----------------------------------------------------------------------------
(* The name of a card means one contact of the account for any number of apps,
   contacts, versions and faults, unless a listing was overtaken by a write or a
   creation's answer never came.  (write_lock, current, remember.) *)
THEOREM NameMeansOneContact == ContactSpec => []OneContactPerName
<1>1. ContactIInv => OneContactPerName
  <2> SUFFICES ASSUME ContactIInv, lapses = {} PROVE ~(Cardinality(Stored) > 1)
    BY DEF OneContactPerName
  <2>1. CASE Stored = {}
    BY <2>1, FS_EmptySet
  <2>2. CASE Stored # {}
    <3>1. PICK c \in Stored : TRUE
      BY <2>2
    <3>2. Stored = {c}
      BY <3>1 DEF ContactIInv, Single
    <3>3. Cardinality(Stored) = 1
      BY <3>2, FS_Singleton
    <3> QED BY <3>3
  <2> QED BY <2>1, <2>2
<1> QED BY <1>1, ContactIInvHolds, PTL

(* No PUT or DELETE with If-Match overwrites a version the app has not named,
   unless another Aster client changed it after the bridge had looked, whatever
   the other apps do.  (hold_for, current.) *)
THEOREM ETagsAreRespected == ContactSpec => RespectsETags
<1>1. ContactIInv /\ [ContactNext]_davVars =>
        [\A a \in Apps :
           /\ davAt[a] = "decide" /\ davAt'[a] \in {"confirm", "forget"}
           /\ asked[a].given = "match" /\ ~slipped[a]
           => contact[found[a].id] = known[a]]_davVars
  <2> SUFFICES ASSUME ContactIInv, ContactNext, NEW a \in Apps, davAt[a] = "decide",
                      davAt'[a] \in {"confirm", "forget"}, asked[a].given = "match", ~slipped[a]
               PROVE  contact[found[a].id] = known[a]
    OBVIOUS
  <2>1. Writes(a)
    <3>1. ASSUME NEW b \in Apps, AppAsks(b) \/ AppStep(b) \/ Breaks(b) PROVE Writes(a)
      <4>1. b = a
        BY <3>1 DEF AppAsks, AppStep, Breaks, Locks, ListsCached, Lists, KeepsListing, Checks, Notes, Refused, Writes,
           WriteFails, Confirms, Remembers, Forgets, Looks, Goes, Ends, ContactIInv, ContactTypeOK
      <4> QED BY <3>1, <4>1 DEF AppAsks, AppStep, Breaks, Locks, ListsCached, Lists, KeepsListing, Checks, Notes, Refused,
           WriteFails, Confirms, Remembers, Forgets, Goes, Ends, ContactIInv, ContactTypeOK
    <3> QED BY <3>1 DEF ContactNext, ListingAges, ChangedElsewhere, LateArrives
  <2>2. found[a].tag = known[a] /\ known[a] # 0
    BY <2>1 DEF Writes, Holds, ContactIInv, Placed
  <2>3. found[a] # NoEntry
    BY <2>2 DEF NoEntry
  <2> QED BY <2>2, <2>3 DEF ContactIInv, Current
<1> QED BY <1>1, ContactIInvHolds, PTL DEF ContactSpec, RespectsETags
=============================================================================
