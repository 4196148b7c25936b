----------------------------- MODULE SyncProofs -----------------------------
(***************************************************************************)
(* How mail comes into the cache and leaves it, for any number of          *)
(* messages, folders and pages, whatever changes meanwhile and whatever    *)
(* call fails: a sync pass spares live mail, and the history index knows   *)
(* all mail that stays where it is.                                        *)
(***************************************************************************)
EXTENDS SyncPass, HistoryIndex, Integers, FiniteSetTheorems,
        WellFoundedInduction, TLAPS

-----------------------------------------------------------------------------
(* Counting messages and pages. *)

(* The least member of a set of natural numbers. *)
LEMMA LeastNumber ==
  ASSUME NEW N \in SUBSET Nat, N # {}
  PROVE  \E n \in N : \A k \in N : n <= k
<1>1. PICK n \in N : \A k \in N : <<k, n>> \notin OpToRel(<, Nat)
  BY NatLessThanWellFounded, WFMin, Zenon
<1>2. \A k \in N : ~(k < n)
  BY <1>1 DEF OpToRel
<1> QED BY <1>2

(* The newest of a finite set of messages. *)
LEMMA NewestOne ==
  ASSUME NEW S \in SUBSET Nat, IsFiniteSet(S), S # {}
  PROVE  \E b \in S : \A n \in S : n <= b
<1> DEFINE newer(m) == {n \in S : n > m}
           sizes == {Cardinality(newer(m)) : m \in S}
<1>1. \A m \in S : IsFiniteSet(newer(m)) /\ Cardinality(newer(m)) \in Nat
  BY FS_Subset, FS_CardinalityType
<1>2. PICK c \in sizes : \A k \in sizes : c <= k
  <2>1. sizes \in SUBSET Nat /\ sizes # {}
    BY <1>1
  <2> HIDE DEF sizes
  <2> QED BY <2>1, LeastNumber
<1>3. PICK b \in S : c = Cardinality(newer(b))
  OBVIOUS
<1>4. ASSUME NEW n \in S, n > b PROVE FALSE
  <2>1. newer(n) \in SUBSET newer(b) /\ newer(n) # newer(b)
    <3>1. n \in Nat /\ b \in Nat /\ n > b
      BY <1>4
    <3>2. n \in newer(b) /\ ~(n > n)
      BY <3>1
    <3>3. ASSUME NEW k \in newer(n) PROVE k \in newer(b)
      <4>1. k \in S /\ k \in Nat /\ k > n
        OBVIOUS
      <4> QED BY <3>1, <4>1
    <3> QED BY <3>2, <3>3
  <2>2. Cardinality(newer(n)) <= Cardinality(newer(b)) /\ Cardinality(newer(n)) # Cardinality(newer(b))
    BY <1>1, <2>1, FS_Subset
  <2>3. Cardinality(newer(b)) <= Cardinality(newer(n))
    BY <1>2, <1>3
  <2>4. Cardinality(newer(n)) \in Nat /\ Cardinality(newer(b)) \in Nat
    BY <1>1
  <2> HIDE DEF newer
  <2> QED BY <2>2, <2>3, <2>4
<1> QED BY <1>4

(* Counting what is newer: no fewer of more messages, no fewer behind an older
   one. *)
LEMMA CountsMore ==
  ASSUME NEW S, NEW T, IsFiniteSet(T), S \subseteq T
  PROVE  IsFiniteSet(S) /\ Cardinality(S) \in Nat /\ Cardinality(T) \in Nat
         /\ Cardinality(S) <= Cardinality(T)
BY FS_Subset, FS_CardinalityType

(* The first messages of a list, newest first: what is not among them is older
   than all of them. *)
LEMMA PageIsNewest ==
  ASSUME NEW B \in SUBSET Nat, IsFiniteSet(B), NEW k \in Nat, NEW m \in B,
         NEW listed, listed = {b \in B : Cardinality({n \in B : n > b}) < k},
         m \notin listed
  PROVE  \A r \in listed : m < r
<1>0. listed \subseteq Nat
  OBVIOUS
<1> SUFFICES ASSUME NEW r \in listed, r <= m PROVE FALSE
  BY <1>0
<1>1. {n \in B : n > m} \subseteq {n \in B : n > r} /\ IsFiniteSet({n \in B : n > r})
  <2>1. \A n \in B : n > m => n > r
    BY <1>0
  <2>2. {n \in B : n > r} \in SUBSET B
    OBVIOUS
  <2>3. IsFiniteSet({n \in B : n > r})
    BY <2>2, FS_Subset
  <2> QED BY <2>1, <2>3
<1>2. /\ Cardinality({n \in B : n > m}) <= Cardinality({n \in B : n > r})
      /\ Cardinality({n \in B : n > m}) \in Nat /\ Cardinality({n \in B : n > r}) \in Nat
  BY <1>1, CountsMore
<1>3. ~(Cardinality({n \in B : n > m}) < k) /\ Cardinality({n \in B : n > r}) < k
  <2> DEFINE few(b) == Cardinality({n \in B : n > b}) < k
  <2>1. listed = {b \in B : few(b)}
    OBVIOUS
  <2> HIDE DEF few
  <2>2. ~few(m) /\ few(r)
    BY <2>1
  <2> QED BY <2>2 DEF few
<1> QED BY <1>2, <1>3

(* A page that begins behind a number of messages of a folder: what is older
   than the page is behind that number and the page. *)
LEMMA BehindThePage ==
  ASSUME NEW H \in SUBSET Nat, IsFiniteSet(H), NEW offset \in Nat, NEW m \in H,
         NEW listed \in SUBSET H,
         \A r \in listed : m < r /\ Cardinality({n \in H : n > r}) >= offset,
         Cardinality({n \in H : n > m}) >= offset
  PROVE  Cardinality({n \in H : n > m}) >= offset + Cardinality(listed)
<1> DEFINE newer(r) == {n \in H : n > r}
<1>0. IsFiniteSet(listed) /\ \A r \in H : IsFiniteSet(newer(r)) /\ Cardinality(newer(r)) \in Nat
  BY FS_Subset, FS_CardinalityType
<1>1. CASE listed = {}
  BY <1>0, <1>1, FS_EmptySet
<1>2. CASE listed # {}
  <2>1. PICK b \in listed : \A n \in listed : n <= b
    BY <1>0, <1>2, NewestOne
  <2>2. listed \cap newer(b) = {}
    <3> SUFFICES ASSUME NEW n \in listed \cap newer(b) PROVE FALSE
      OBVIOUS
    <3>1. n > b /\ n <= b /\ n \in Nat /\ b \in Nat
      BY <2>1
    <3> QED BY <3>1
  <2>3. Cardinality(listed \cup newer(b)) = Cardinality(listed) + Cardinality(newer(b))
    <3>1. Cardinality(listed \cup newer(b))
            = Cardinality(listed) + Cardinality(newer(b)) - Cardinality(listed \cap newer(b))
      BY <1>0, FS_Union
    <3>2. Cardinality(listed \cap newer(b)) = 0
      BY <2>2, FS_EmptySet
    <3>3. Cardinality(listed) \in Nat /\ Cardinality(newer(b)) \in Nat
      BY <1>0, FS_CardinalityType
    <3> QED BY <3>1, <3>2, <3>3
  <2>4. listed \cup newer(b) \subseteq newer(m)
    <3>1. listed \subseteq newer(m)
      OBVIOUS
    <3>2. ASSUME NEW n \in newer(b) PROVE n \in newer(m)
      <4>1. n \in H /\ n > b /\ m < b /\ n \in Nat /\ b \in Nat /\ m \in Nat
        OBVIOUS
      <4> QED BY <4>1
    <3> QED BY <3>1, <3>2
  <2>5. Cardinality(listed \cup newer(b)) <= Cardinality(newer(m))
    BY <1>0, <2>4, CountsMore
  <2>6. Cardinality(newer(b)) >= offset
    OBVIOUS
  <2>7. Cardinality(listed) \in Nat /\ Cardinality(newer(b)) \in Nat /\ Cardinality(newer(m)) \in Nat
    BY <1>0, FS_CardinalityType
  <2> HIDE DEF newer
  <2>8. Cardinality(newer(m)) >= offset + Cardinality(listed)
    BY <2>3, <2>5, <2>6, <2>7
  <2> QED BY <2>8 DEF newer
<1> QED BY <1>1, <1>2

(* A folder with a message that many messages are newer than has one that just
   so many are newer than. *)
LEMMA SomeoneAtOffset ==
  ASSUME NEW H \in SUBSET Nat, IsFiniteSet(H), NEW k \in Nat, NEW m \in H,
         Cardinality({n \in H : n > m}) >= k
  PROVE  \E x \in H : Cardinality({n \in H : n > x}) = k
<1> DEFINE newer(r) == {n \in H : n > r}
           C == {x \in H : Cardinality(newer(x)) >= k}
           sizes == {Cardinality(newer(x)) : x \in C}
<1>1. \A r : IsFiniteSet(newer(r)) /\ Cardinality(newer(r)) \in Nat
  <2>1. \A r : newer(r) \in SUBSET H
    OBVIOUS
  <2> QED BY <2>1, FS_Subset, FS_CardinalityType
<1>2. PICK c \in sizes : \A d \in sizes : c <= d
  <2>1. sizes \in SUBSET Nat
    BY <1>1
  <2>2. Cardinality(newer(m)) \in sizes
    OBVIOUS
  <2> HIDE DEF sizes
  <2> QED BY <2>1, <2>2, LeastNumber
<1>3. PICK x \in C : c = Cardinality(newer(x))
  OBVIOUS
<1>4. ASSUME c # k PROVE FALSE
  <2>1. c > k /\ c \in Nat
    BY <1>1, <1>3, <1>4
  <2>2. newer(x) # {}
    BY <1>1, <1>3, <2>1, FS_EmptySet
  <2>3. PICK z \in newer(x) : \A n \in newer(x) : z <= n
    <3>1. newer(x) \in SUBSET Nat
      OBVIOUS
    <3> HIDE DEF newer
    <3> QED BY <2>2, <3>1, LeastNumber
  <2>4. newer(z) = newer(x) \ {z}
    <3>1. \A n \in newer(z) : n \in newer(x) \ {z}
      <4> SUFFICES ASSUME NEW n \in newer(z) PROVE n \in newer(x) \ {z}
        OBVIOUS
      <4>1. n \in H /\ n \in Nat /\ z \in Nat /\ x \in Nat /\ n > z /\ z > x
        OBVIOUS
      <4> QED BY <4>1
    <3>2. \A n \in newer(x) \ {z} : n \in newer(z)
      <4> SUFFICES ASSUME NEW n \in newer(x) \ {z} PROVE n \in newer(z)
        OBVIOUS
      <4>1. n \in H /\ n \in Nat /\ z \in Nat /\ z <= n /\ n # z
        BY <2>3
      <4> QED BY <4>1
    <3> HIDE DEF newer
    <3> QED BY <3>1, <3>2
  <2>5. Cardinality(newer(z)) = c - 1
    <3> HIDE DEF newer
    <3> QED BY <1>1, <1>3, <2>3, <2>4, FS_RemoveElement
  <2>6. z \in C
    <3>1. z \in H
      OBVIOUS
    <3> HIDE DEF newer
    <3> QED BY <2>1, <2>5, <3>1
  <2>7. c <= c - 1
    BY <1>2, <2>5, <2>6
  <2> QED BY <2>1, <2>7
<1> QED BY <1>3, <1>4

-----------------------------------------------------------------------------
(* A sync pass spares live mail. *)

PassSteps == {"idle", "ask", "answer", "items", "download", "prune", "confirm"}
Listing == {"ask", "answer", "items", "download"}
PassRow == [step : PassSteps, deep : BOOLEAN, complete : BOOLEAN, cappedOnly : BOOLEAN,
            failed : BOOLEAN]
Cursors == Mails \cup {0, NextNumber}
PageRow == [folder : 0..LastListed, items : SUBSET Mails, snap : SUBSET Mails,
            listed : SUBSET Mails, cursor : Cursors, offset : Nat, fetched : Nat,
            fresh : BOOLEAN, more : BOOLEAN, any : BOOLEAN, now : Nat]
HereRow == [op : {"none", "place", "pin", "cache"}, mail : Mails \cup {0}, into : 0..LastListed]
SyncTypeOK ==
  /\ at \in [Mails -> 0..Gone] /\ have \in [Mails -> 0..LastListed]
  /\ pinnedIn \in [pass : SUBSET Mails, listing : SUBSET Mails]
  /\ pass \in PassRow /\ page \in PageRow /\ seen \in SUBSET Mails /\ here \in HereRow

(* What the listing of a folder has yet to come by. *)
ToList(m) ==
  LET from == IF pass.step \in {"ask", "answer"} THEN page.offset ELSE page.offset + Page
  IN IF Custom(page.folder) THEN Cardinality({n \in In(page.folder) : n > m}) >= from
     ELSE m < page.cursor

(* What a pass has yet to come by. *)
Ahead(m) ==
  \/ pass.step \in {"items", "download"} /\ m \in page.items
  \/ pass.step \in Listing /\ at[m] > page.folder
  \/ /\ at[m] = page.folder /\ ToList(m)
     /\ pass.step \in {"ask", "answer"} \/ (pass.step \in {"items", "download"} /\ page.more)

(* Mail that is not cached, and that no command is about to cache. *)
NotCachedHere(m) == have[m] = Absent /\ ~(here.op = "cache" /\ here.mail = m)

(* A pass whose listings are complete so far leaves nothing out that it might
   prune. *)
NothingLeftOut ==
  pass.step # "idle" /\ pass.complete =>
    \A m \in Mails \ slipped :
      at[m] \in Listed => m \in seen \cup pinnedIn.pass \/ Ahead(m) \/ NotCachedHere(m)

(* Nothing is known of mail the account does not have yet. *)
UnbornIsUnseen ==
  \A m \in Mails : at[m] = Unborn =>
    have[m] = Absent /\ here.mail # m /\ m \notin page.items /\ m \notin seen

(* What a pass has in hand: only a message it has seen is downloaded, and only
   mail that is gone was found gone. *)
PassInHand ==
  /\ pass.step \in Listing => page.folder \in Listed
  /\ pass.step = "download" => page.now \in seen
  /\ pass.step = "confirm" => ~pass.complete /\ \A m \in page.listed : at[m] = Gone

(* What a command has in hand: what it takes from the cache is gone. *)
CommandInHand ==
  /\ here.op # "none" => here.mail \in Mails
  /\ here.op \in {"place", "pin"} => here.into \in Listed
  /\ here.op = "cache" /\ here.into = Absent => at[here.mail] = Gone

SyncInv ==
  SyncTypeOK /\ NothingLeftOut /\ UnbornIsUnseen /\ PassInHand /\ CommandInHand

SyncConstants == SyncBounds /\ SyncNumbers
LEMMA SyncConstantsHold == SyncConstants
BY SyncBounds, SyncNumbers DEF SyncConstants, SyncBounds, SyncNumbers

LEMMA SyncNumbersHold ==
  /\ LastListed \in Nat /\ 1 \in Listed /\ Gone \notin Listed /\ Gone # Unborn /\ Unborn \notin Listed
  /\ Listed \subseteq Nat /\ Listed \subseteq 0..LastListed /\ 0..Gone = Listed \cup {Unborn, Gone}
  /\ Page \in Nat /\ Page > 0 /\ ~Custom(1) /\ Mails \subseteq Nat /\ 0 \notin Mails /\ IsFiniteSet(Mails)
  /\ Absent = 0 /\ 0..LastListed = Listed \cup {0} /\ \A f \in Listed : f >= 1 /\ f <= LastListed
  /\ Unborn = 0
BY SyncConstantsHold DEF SyncConstants, SyncBounds, SyncNumbers, Listed, Gone, Unborn, Custom, Absent

LEMMA NewestIsIn ==
  ASSUME NEW S \in SUBSET Mails, S # {}
  PROVE  Newest(S) \in S /\ \A n \in S : n <= Newest(S)
<1>1. S \in SUBSET Nat /\ IsFiniteSet(S)
  BY SyncNumbersHold, FS_Subset
<1>2. \E m \in S : \A n \in S : n <= m
  BY <1>1, NewestOne
<1> QED BY <1>2 DEF Newest

LEMMA OldestIsIn ==
  ASSUME NEW S \in SUBSET Mails, S # {}
  PROVE  Oldest(S) \in S /\ \A n \in S : Oldest(S) <= n
<1>1. S \in SUBSET Nat
  BY SyncNumbersHold
<1>2. \E m \in S : \A n \in S : m <= n
  BY <1>1, LeastNumber
<1> QED BY <1>2 DEF Oldest

LEMMA NextIsNewer == \A m \in Mails : m < NextNumber
<1> SUFFICES ASSUME NEW m \in Mails PROVE m < NextNumber
  OBVIOUS
<1>1. Newest(Mails) \in Mails /\ m <= Newest(Mails)
  BY NewestIsIn
<1>2. m \in Nat /\ Newest(Mails) \in Nat
  BY <1>1, SyncNumbersHold
<1> QED BY <1>1, <1>2 DEF NextNumber

LEMMA FoldersAreFinite ==
  /\ \A f : In(f) \in SUBSET Mails /\ In(f) \in SUBSET Nat /\ IsFiniteSet(In(f))
  /\ \A f, m : IsFiniteSet({n \in In(f) : n > m}) /\ Cardinality({n \in In(f) : n > m}) \in Nat
<1>1. Mails \in SUBSET Nat /\ IsFiniteSet(Mails)
  BY SyncNumbersHold
<1>2. \A f : In(f) \in SUBSET Mails
  BY DEF In
<1>3. \A f : IsFiniteSet(In(f))
  BY <1>1, <1>2, FS_Subset
<1>4. \A f, m : {n \in In(f) : n > m} \in SUBSET In(f)
  OBVIOUS
<1> QED BY <1>1, <1>2, <1>3, <1>4, FS_Subset, FS_CardinalityType

LEMMA SyncParts ==
  ASSUME SyncInv
  PROVE  SyncTypeOK /\ NothingLeftOut /\ UnbornIsUnseen /\ PassInHand /\ CommandInHand
BY DEF SyncInv

LEMMA SyncTypes ==
  ASSUME SyncTypeOK
  PROVE  /\ at \in [Mails -> 0..Gone] /\ have \in [Mails -> 0..LastListed]
         /\ pinnedIn \in [pass : SUBSET Mails, listing : SUBSET Mails]
         /\ pinnedIn.pass \in SUBSET Mails /\ pinnedIn.listing \in SUBSET Mails
         /\ pass \in PassRow /\ page \in PageRow /\ seen \in SUBSET Mails /\ here \in HereRow
         /\ pass.step \in PassSteps /\ page.folder \in 0..LastListed /\ page.folder \in Nat
         /\ page.items \in SUBSET Mails /\ page.listed \in SUBSET Mails /\ page.offset \in Nat
         /\ page.fetched \in Nat /\ here.into \in 0..LastListed /\ here.mail \in Mails \cup {0}
         /\ page.cursor \in Cursors
<1>1. page.folder \in 0..LastListed
  BY DEF SyncTypeOK, PageRow
<1>2. page.folder \in Nat
  BY <1>1, SyncNumbersHold
<1> QED BY <1>1, <1>2 DEF SyncTypeOK, PageRow, PassRow, HereRow

LEMMA TypesAreStored ==
  ASSUME at' \in [Mails -> 0..Gone], have' \in [Mails -> 0..LastListed],
         pinnedIn' \in [pass : SUBSET Mails, listing : SUBSET Mails],
         pass' \in PassRow, page' \in PageRow, seen' \in SUBSET Mails, here' \in HereRow
  PROVE  SyncTypeOK'
<1>1. PassRow' = PassRow /\ PageRow' = PageRow /\ HereRow' = HereRow /\ Gone' = Gone
  BY DEF PassRow, PageRow, HereRow, Gone, Cursors, NextNumber, Newest, PassSteps
<1> QED BY <1>1 DEF SyncTypeOK

-----------------------------------------------------------------------------
(* The account moves, and commands go on, while a pass stands still. *)

LEMMA AheadOfPassStays ==
  ASSUME SyncTypeOK, pass' = pass, page' = page, NEW m \in Mails, Ahead(m), at'[m] = at[m],
         Custom(page.folder) /\ at[m] = page.folder
           => \A n \in In(at[m]) : n > m => at'[n] = at[n]
  PROVE  Ahead(m)'
<1>1. CASE at[m] = page.folder /\ ToList(m)
  <2>1. CASE Custom(page.folder)
    <3> DEFINE before == {n \in In(page.folder) : n > m}
               after == {n \in In(page.folder)' : n > m}
    <3>1. before \subseteq after
      <4> SUFFICES ASSUME NEW n \in before PROVE n \in after
        OBVIOUS
      <4>1. n \in Mails /\ n > m /\ at[n] = page.folder /\ n \in In(at[m])
        BY <1>1 DEF In
      <4>2. at'[n] = at[n]
        BY <1>1, <2>1, <4>1
      <4> QED BY <4>1, <4>2 DEF In
    <3>2. IsFiniteSet(after)
      <4>1. after \in SUBSET Mails
        BY DEF In
      <4> QED BY <4>1, SyncNumbersHold, FS_Subset
    <3>3. Cardinality(before) <= Cardinality(after) /\ Cardinality(before) \in Nat
          /\ Cardinality(after) \in Nat
      <4> HIDE DEF before, after
      <4> QED BY <3>1, <3>2, CountsMore
    <3> DEFINE from == IF pass.step \in {"ask", "answer"} THEN page.offset ELSE page.offset + Page
    <3>4. from \in Nat
      BY SyncTypes, SyncNumbersHold
    <3>5. Cardinality(before) >= from
      BY <1>1, <2>1 DEF ToList
    <3>6. Cardinality(after) >= from
      <4> HIDE DEF before, after, from
      <4> QED BY <3>3, <3>4, <3>5
    <3>7. ToList(m)'
      BY <2>1, <3>6 DEF ToList, Custom
    <3> QED BY <1>1, <3>7 DEF Ahead
  <2>2. CASE ~Custom(page.folder)
    <3>1. ToList(m)'
      BY <1>1, <2>2 DEF ToList, Custom
    <3> QED BY <1>1, <3>1 DEF Ahead
  <2> QED BY <2>1, <2>2
<1>2. CASE ~(at[m] = page.folder /\ ToList(m))
  BY <1>2 DEF Ahead, Listing
<1> QED BY <1>1, <1>2

LEMMA AccountGoesOn ==
  ASSUME SyncInv, UNCHANGED <<pass, page, seen>>, SyncTypeOK', CommandInHand',
         slipped \subseteq slipped', pinnedIn.pass \subseteq pinnedIn'.pass,
         \A m \in Mails : at'[m] = Unborn => at[m] = Unborn /\ have'[m] = Absent /\ here'.mail # m,
         \A m \in Mails : at[m] = Gone => at'[m] = Gone,
         \A m \in Mails \ slipped' : pass.step # "idle" /\ at'[m] \in Listed =>
           \/ at[m] = Unborn /\ NotCachedHere(m)'
           \/ /\ at'[m] = at[m]
              /\ Custom(at[m]) => \A n \in In(at[m]) : n > m => at'[n] = at[n]
              /\ NotCachedHere(m) => NotCachedHere(m)' \/ m \in pinnedIn'.pass
           \/ at[m] = 1 /\ at'[m] > 1 /\ (NotCachedHere(m) => NotCachedHere(m)')
  PROVE  SyncInv'
<1>0. SyncTypeOK /\ NothingLeftOut /\ UnbornIsUnseen /\ PassInHand /\ CommandInHand
  BY SyncParts
<1>1. UnbornIsUnseen'
  BY <1>0 DEF UnbornIsUnseen, Unborn, Absent
<1>2. PassInHand'
  <2>1. pass.step = "confirm" => \A m \in page.listed : at'[m] = Gone
    BY <1>0, SyncTypes DEF PassInHand
  <2> QED BY <1>0, <2>1 DEF PassInHand, Listed, Gone
<1>3. NothingLeftOut'
  <2> SUFFICES ASSUME pass.step # "idle", pass.complete, NEW m \in Mails \ slipped',
                      at'[m] \in Listed
               PROVE  m \in seen \cup pinnedIn'.pass \/ Ahead(m)' \/ NotCachedHere(m)'
    BY DEF NothingLeftOut, Listed
  <2>1. CASE at[m] = Unborn /\ NotCachedHere(m)'
    BY <2>1
  <2>2. CASE /\ at'[m] = at[m]
             /\ Custom(at[m]) => \A n \in In(at[m]) : n > m => at'[n] = at[n]
             /\ NotCachedHere(m) => NotCachedHere(m)' \/ m \in pinnedIn'.pass
    <3>1. m \in seen \cup pinnedIn.pass \/ Ahead(m) \/ NotCachedHere(m)
      BY <1>0, <2>2 DEF NothingLeftOut
    <3>2. CASE Ahead(m)
      BY <1>0, <2>2, <3>2, AheadOfPassStays
    <3> QED BY <2>2, <3>1, <3>2
  <2>3. CASE at[m] = 1 /\ at'[m] > 1 /\ (NotCachedHere(m) => NotCachedHere(m)')
    <3>1. m \in seen \cup pinnedIn.pass \/ Ahead(m) \/ NotCachedHere(m)
      BY <1>0, <2>3, SyncNumbersHold DEF NothingLeftOut
    <3>2. CASE Ahead(m)
      <4>1. \/ pass.step \in {"items", "download"} /\ m \in page.items
            \/ pass.step \in Listing /\ at'[m] > page.folder
        <5>1. page.folder \in Nat /\ at'[m] \in Nat
          BY <1>0, SyncTypes, SyncNumbersHold
        <5> QED BY <2>3, <3>2, <5>1 DEF Ahead, Listing
      <4> QED BY <4>1 DEF Ahead, Listing
    <3> QED BY <2>3, <3>1, <3>2
  <2> QED BY <2>1, <2>2, <2>3
<1> QED BY <1>1, <1>2, <1>3 DEF SyncInv

LEMMA CommandStays ==
  ASSUME SyncInv, here' = here, \A m \in Mails : at[m] = Gone => at'[m] = Gone
  PROVE  CommandInHand'
BY SyncParts DEF CommandInHand, Listed, Gone, Absent

(* Mail that moves or is deleted slips out of a pass. *)
LEMMA OneSlips ==
  ASSUME SyncInv, NEW m \in Mails, NEW f \in Listed \cup {Gone}, at[m] \in Listed, SlipsOut(m),
         at' = [at EXCEPT ![m] = f], UNCHANGED <<have, pinnedIn, pass, page, seen>>,
         here' \in HereRow, CommandInHand', here' = here \/ here'.mail = m
  PROVE  SyncInv'
<1>0. SyncTypeOK /\ UnbornIsUnseen
  BY SyncParts
<1>1. \A n \in Mails : at'[n] = IF n = m THEN f ELSE at[n]
  BY <1>0 DEF SyncTypeOK
<1>2. SyncTypeOK'
  <2>1. at' \in [Mails -> 0..Gone]
    BY <1>0, SyncNumbersHold DEF SyncTypeOK
  <2> QED BY <1>0, <2>1, TypesAreStored DEF SyncTypeOK
<1>3. /\ slipped \subseteq slipped'
      /\ pass.step # "idle" => m \in slipped' /\ (Custom(at[m]) => In(at[m]) \subseteq slipped')
  BY DEF SlipsOut
<1>4. \A n \in Mails : at'[n] = Unborn => at[n] = Unborn /\ have'[n] = Absent /\ here'.mail # n
  BY <1>0, <1>1, SyncNumbersHold DEF UnbornIsUnseen
<1>5. \A n \in Mails : at[n] = Gone => at'[n] = Gone
  BY <1>1, SyncNumbersHold
<1>6. ASSUME NEW n \in Mails \ slipped', pass.step # "idle"
      PROVE  /\ at'[n] = at[n]
             /\ Custom(at[n]) => \A k \in In(at[n]) : k > n => at'[k] = at[k]
             /\ NotCachedHere(n) => NotCachedHere(n)'
  <2>1. n # m /\ at'[n] = at[n]
    BY <1>1, <1>3, <1>6
  <2>2. ASSUME Custom(at[n]), NEW k \in In(at[n]) PROVE at'[k] = at[k]
    <3>1. k \in Mails /\ at[k] = at[n] /\ n \in In(at[n])
      BY DEF In
    <3>2. k # m
      BY <1>3, <1>6, <2>2, <3>1
    <3> QED BY <1>1, <3>1, <3>2
  <2>3. NotCachedHere(n) => NotCachedHere(n)'
    BY <2>1 DEF NotCachedHere, Absent
  <2> QED BY <2>1, <2>2, <2>3
<1> QED BY <1>2, <1>3, <1>4, <1>5, <1>6, AccountGoesOn

(* Mail that comes is not cached yet. *)
LEMMA OneComes ==
  ASSUME SyncInv, NEW m \in Mails, NEW f \in Listed, at[m] = Unborn,
         at' = [at EXCEPT ![m] = f], UNCHANGED <<have, pinnedIn, pass, page, seen, slipped>>,
         here' \in HereRow, CommandInHand', here' = here \/ (here'.mail = m /\ here'.op = "place")
  PROVE  SyncInv'
<1>0. SyncTypeOK /\ UnbornIsUnseen
  BY SyncParts
<1>1. \A n \in Mails : at'[n] = IF n = m THEN f ELSE at[n]
  BY <1>0 DEF SyncTypeOK
<1>2. SyncTypeOK'
  <2>1. at' \in [Mails -> 0..Gone]
    BY <1>0, SyncNumbersHold DEF SyncTypeOK
  <2> QED BY <1>0, <2>1, TypesAreStored DEF SyncTypeOK
<1>4. \A n \in Mails : at'[n] = Unborn => at[n] = Unborn /\ have'[n] = Absent /\ here'.mail # n
  BY <1>0, <1>1, SyncNumbersHold DEF UnbornIsUnseen
<1>5. \A n \in Mails : at[n] = Gone => at'[n] = Gone
  BY <1>1, SyncNumbersHold
<1>6. NotCachedHere(m)'
  BY <1>0 DEF UnbornIsUnseen, NotCachedHere, Absent
<1>7. ASSUME NEW n \in Mails \ {m}, at'[n] \in Listed
      PROVE  /\ at'[n] = at[n]
             /\ Custom(at[n]) => \A k \in In(at[n]) : k > n => at'[k] = at[k]
             /\ NotCachedHere(n) => NotCachedHere(n)'
  <2>1. at'[n] = at[n] /\ at[n] # at[m]
    BY <1>1, <1>7, SyncNumbersHold
  <2>2. \A k \in In(at[n]) : at'[k] = at[k]
    BY <1>1, <2>1 DEF In
  <2>3. NotCachedHere(n) => NotCachedHere(n)'
    BY DEF NotCachedHere, Absent
  <2> QED BY <2>1, <2>2, <2>3
<1> QED BY <1>2, <1>4, <1>5, <1>6, <1>7, AccountGoesOn

LEMMA AccountChangesKeep ==
  ASSUME SyncInv, NEW m \in Mails, NEW f \in Listed,
         Arrives(m, f) \/ MovesElsewhere(m, f) \/ DeletesElsewhere(m)
  PROVE  SyncInv'
<1>0. UNCHANGED <<have, pinnedIn, pass, page, seen, here>> /\ SyncTypeOK /\ here \in HereRow
  BY SyncParts DEF Arrives, MovesElsewhere, DeletesElsewhere, AccountOnly, SyncTypeOK
<1>1. ASSUME NEW to, at' = [at EXCEPT ![m] = to], at[m] # Gone PROVE CommandInHand'
  <2>1. \A n \in Mails : at[n] = Gone => at'[n] = Gone
    BY <1>0, <1>1 DEF SyncTypeOK
  <2> QED BY <1>0, <2>1, CommandStays
<1>2. CASE Arrives(m, f)
  <2>1. at[m] = Unborn /\ at' = [at EXCEPT ![m] = f] /\ slipped' = slipped
    BY <1>2 DEF Arrives
  <2>2. CommandInHand'
    BY <1>1, <2>1, SyncNumbersHold
  <2> QED BY <1>0, <2>1, <2>2, OneComes
<1>3. CASE MovesElsewhere(m, f)
  <2>1. at[m] \in Listed /\ at' = [at EXCEPT ![m] = f] /\ SlipsOut(m)
    BY <1>3 DEF MovesElsewhere
  <2>2. CommandInHand'
    BY <1>1, <2>1, SyncNumbersHold
  <2> QED BY <1>0, <2>1, <2>2, OneSlips
<1>4. CASE DeletesElsewhere(m)
  <2>1. at[m] \in Listed /\ at' = [at EXCEPT ![m] = Gone] /\ SlipsOut(m)
    BY <1>4 DEF DeletesElsewhere
  <2>2. CommandInHand'
    BY <1>1, <2>1, SyncNumbersHold
  <2> QED BY <1>0, <2>1, <2>2, OneSlips
<1> QED BY <1>2, <1>3, <1>4

LEMMA CommandsBeginKeep ==
  ASSUME SyncInv, NEW m \in Mails, NEW f \in Listed,
         AppendStores(m, f) \/ MovesHere(m, f) \/ ExpungesHere(m)
  PROVE  SyncInv'
<1>0. UNCHANGED <<have, pinnedIn, pass, page, seen>> /\ SyncTypeOK
  BY SyncParts DEF AppendStores, MovesHere, ExpungesHere, AccountOnly
<1>2. CASE AppendStores(m, f)
  <2>1. at[m] = Unborn /\ at' = [at EXCEPT ![m] = 1] /\ slipped' = slipped
        /\ here' = [op |-> "place", mail |-> m, into |-> f]
    BY <1>2 DEF AppendStores
  <2>2. here' \in HereRow /\ CommandInHand'
    BY <2>1, SyncNumbersHold DEF CommandInHand, HereRow, Listed
  <2> QED BY <1>0, <2>1, <2>2, OneComes, SyncNumbersHold
<1>3. CASE MovesHere(m, f)
  <2>1. at[m] \in Listed /\ at' = [at EXCEPT ![m] = f] /\ SlipsOut(m)
        /\ here' = [op |-> "cache", mail |-> m, into |-> f]
    BY <1>3 DEF MovesHere
  <2>2. here' \in HereRow /\ CommandInHand'
    BY <2>1, SyncNumbersHold DEF CommandInHand, HereRow, Absent
  <2> QED BY <1>0, <2>1, <2>2, OneSlips
<1>4. CASE ExpungesHere(m)
  <2>1. at[m] \in Listed /\ at' = [at EXCEPT ![m] = Gone] /\ SlipsOut(m)
        /\ here' = [op |-> "cache", mail |-> m, into |-> Absent]
    BY <1>4 DEF ExpungesHere
  <2>2. here' \in HereRow /\ CommandInHand'
    <3>1. at'[m] = Gone
      BY <1>0, <2>1 DEF SyncTypeOK
    <3> QED BY <2>1, <3>1, SyncNumbersHold DEF CommandInHand, HereRow, Absent, Gone
  <2> QED BY <1>0, <2>1, <2>2, OneSlips
<1> QED BY <1>2, <1>3, <1>4

(* Nothing of the account moves. *)
LEMMA AccountStandsGoesOn ==
  ASSUME SyncInv, UNCHANGED <<at, pass, page, seen>>, SyncTypeOK', CommandInHand',
         slipped \subseteq slipped', pinnedIn.pass \subseteq pinnedIn'.pass,
         \A m \in Mails : at[m] = Unborn => have'[m] = Absent /\ here'.mail # m,
         \A m \in Mails : NotCachedHere(m) => NotCachedHere(m)' \/ m \in pinnedIn'.pass
  PROVE  SyncInv'
BY AccountGoesOn

LEMMA AppendPlacesKeeps ==
  ASSUME SyncInv, AppendPlaces
  PROVE  SyncInv'
<1> DEFINE a == here.mail
<1>0. SyncTypeOK /\ UnbornIsUnseen /\ CommandInHand
  BY SyncParts
<1>1. /\ UNCHANGED <<have, pinnedIn, pass, page, seen>> /\ here' = [here EXCEPT !.op = "pin"]
      /\ here.op = "place"
      /\ at' = [at EXCEPT ![a] = IF here.into = 1 \/ at[a] = Gone THEN at[a] ELSE here.into]
      /\ IF at[a] \in {1, Gone} THEN UNCHANGED slipped ELSE SlipsOut(a)
  BY DEF AppendPlaces, AccountOnly
<1>2. a \in Mails /\ here.into \in Listed /\ at[a] # Unborn /\ here \in HereRow
  BY <1>0, <1>1 DEF CommandInHand, UnbornIsUnseen, SyncTypeOK
<1>3. here' \in HereRow /\ here'.op = "pin" /\ here'.mail = a /\ here'.into = here.into
  BY <1>1, <1>2 DEF HereRow
<1>4. CommandInHand'
  BY <1>2, <1>3 DEF CommandInHand, Listed
<1>5. CASE here.into = 1 \/ at[a] = Gone
  <2>1. at' = at
    BY <1>0, <1>1, <1>2, <1>5 DEF SyncTypeOK
  <2>2. slipped \subseteq slipped'
    BY <1>1 DEF SlipsOut
  <2>3. SyncTypeOK'
    BY <1>0, <1>1, <1>3, <2>1, TypesAreStored DEF SyncTypeOK
  <2>4. \A m \in Mails : at[m] = Unborn => have'[m] = Absent /\ here'.mail # m
    BY <1>0, <1>1, <1>3 DEF UnbornIsUnseen
  <2>5. \A m \in Mails : NotCachedHere(m) => NotCachedHere(m)'
    BY <1>1, <1>3 DEF NotCachedHere, Absent
  <2> QED BY <1>1, <1>4, <2>1, <2>2, <2>3, <2>4, <2>5, AccountStandsGoesOn
<1>6. CASE here.into # 1 /\ at[a] = 1
  <2>1. at' = [at EXCEPT ![a] = here.into] /\ slipped' = slipped
    BY <1>1, <1>6, SyncNumbersHold
  <2>2. \A n \in Mails : at'[n] = IF n = a THEN here.into ELSE at[n]
    BY <1>0, <2>1 DEF SyncTypeOK
  <2>3. SyncTypeOK'
    <3>1. at' \in [Mails -> 0..Gone]
      BY <1>0, <1>2, <2>1, SyncNumbersHold DEF SyncTypeOK
    <3> QED BY <1>0, <1>1, <1>3, <3>1, TypesAreStored DEF SyncTypeOK
  <2>4. \A m \in Mails : at'[m] = Unborn => at[m] = Unborn /\ have'[m] = Absent /\ here'.mail # m
    BY <1>0, <1>1, <1>2, <1>3, <2>2, SyncNumbersHold DEF UnbornIsUnseen
  <2>5. \A m \in Mails : at[m] = Gone => at'[m] = Gone
    BY <1>6, <2>2, SyncNumbersHold
  <2>6. \A m \in Mails : NotCachedHere(m) => NotCachedHere(m)'
    BY <1>1, <1>3 DEF NotCachedHere, Absent
  <2>7. at'[a] > 1
    <3>1. at'[a] = here.into /\ here.into \in Nat /\ here.into >= 1
      BY <1>2, <2>2, SyncNumbersHold
    <3> QED BY <1>6, <3>1
  <2>8. ASSUME NEW n \in Mails, n # a
        PROVE  at'[n] = at[n] /\ (Custom(at[n]) => \A k \in In(at[n]) : k > n => at'[k] = at[k])
    <3>1. at'[n] = at[n]
      BY <2>2, <2>8
    <3>2. ASSUME Custom(at[n]), NEW k \in In(at[n]) PROVE at'[k] = at[k]
      <4>1. k \in Mails /\ at[k] = at[n]
        BY DEF In
      <4>2. k # a
        BY <1>6, <3>2, <4>1, SyncNumbersHold
      <4> QED BY <2>2, <4>1, <4>2
    <3> QED BY <3>1, <3>2
  <2> HIDE DEF a
  <2> QED BY <1>1, <1>2, <1>4, <1>6, <2>1, <2>3, <2>4, <2>5, <2>6, <2>7, <2>8, AccountGoesOn
<1>7. CASE here.into # 1 /\ at[a] \notin {1, Gone}
  <2>1. at' = [at EXCEPT ![a] = here.into] /\ SlipsOut(a)
    BY <1>1, <1>7
  <2>2. at[a] \in Listed
    BY <1>0, <1>2, <1>7, SyncNumbersHold DEF SyncTypeOK
  <2> HIDE DEF a
  <2> QED BY <1>1, <1>2, <1>3, <1>4, <2>1, <2>2, OneSlips
<1> QED BY <1>5, <1>6, <1>7

LEMMA AppendPinsKeeps ==
  ASSUME SyncInv, AppendPins
  PROVE  SyncInv'
<1>0. SyncTypeOK /\ UnbornIsUnseen /\ CommandInHand
  BY SyncParts
<1>1. /\ UNCHANGED <<at, have, pass, page, seen, slipped>> /\ here' = [here EXCEPT !.op = "cache"]
      /\ here.op = "pin"
      /\ pinnedIn' = [pass |-> pinnedIn.pass \cup {here.mail},
                      listing |-> pinnedIn.listing \cup {here.mail}]
  BY DEF AppendPins
<1>2. here.mail \in Mails /\ here.into \in Listed /\ here \in HereRow
  BY <1>0, <1>1 DEF CommandInHand, SyncTypeOK
<1>3. here' \in HereRow /\ here'.op = "cache" /\ here'.mail = here.mail /\ here'.into = here.into
  BY <1>1, <1>2 DEF HereRow
<1>4. CommandInHand'
  BY <1>2, <1>3, SyncNumbersHold DEF CommandInHand, Absent
<1>5. pinnedIn' \in [pass : SUBSET Mails, listing : SUBSET Mails]
      /\ pinnedIn'.pass = pinnedIn.pass \cup {here.mail}
  BY <1>0, <1>1, <1>2, SyncTypes
<1>6. SyncTypeOK'
  BY <1>0, <1>1, <1>3, <1>5, TypesAreStored DEF SyncTypeOK
<1>7. \A m \in Mails : at[m] = Unborn => have'[m] = Absent /\ here'.mail # m
  BY <1>0, <1>1, <1>3 DEF UnbornIsUnseen
<1>8. \A m \in Mails : NotCachedHere(m) => NotCachedHere(m)' \/ m \in pinnedIn'.pass
  BY <1>1, <1>3, <1>5 DEF NotCachedHere, Absent
<1> QED BY <1>1, <1>4, <1>5, <1>6, <1>7, <1>8, AccountStandsGoesOn

LEMMA CachesHereKeeps ==
  ASSUME SyncInv, CachesHere
  PROVE  SyncInv'
<1>0. SyncTypeOK /\ UnbornIsUnseen /\ CommandInHand
  BY SyncParts
<1>1. /\ UNCHANGED <<at, pinnedIn, pass, page, seen, slipped>> /\ here' = NotHere /\ here.op = "cache"
      /\ have' = [have EXCEPT ![here.mail] = here.into]
  BY DEF CachesHere
<1>2. here.mail \in Mails /\ here.into \in 0..LastListed
  BY <1>0, <1>1, SyncTypes DEF CommandInHand
<1>3. NotHere \in HereRow /\ NotHere.op = "none" /\ NotHere.mail = 0
  BY SyncNumbersHold DEF NotHere, HereRow
<1>4. CommandInHand'
  BY <1>1, <1>3 DEF CommandInHand
<1>5. have' \in [Mails -> 0..LastListed] /\ \A m \in Mails : m # here.mail => have'[m] = have[m]
  BY <1>0, <1>1, <1>2 DEF SyncTypeOK
<1>6. SyncTypeOK'
  BY <1>0, <1>1, <1>3, <1>5, TypesAreStored DEF SyncTypeOK
<1>7. \A m \in Mails : at[m] = Unborn => have'[m] = Absent /\ here'.mail # m
  BY <1>0, <1>1, <1>3, <1>5, SyncNumbersHold DEF UnbornIsUnseen
<1>8. \A m \in Mails : NotCachedHere(m) => NotCachedHere(m)'
  BY <1>1, <1>3, <1>5 DEF NotCachedHere, Absent
<1> QED BY <1>1, <1>4, <1>6, <1>7, <1>8, AccountStandsGoesOn

-----------------------------------------------------------------------------
(* The steps of a pass; the account stands still. *)

LEMMA PassRows ==
  /\ NoPass \in PassRow /\ NoPass.step = "idle" /\ NoPass.complete
  /\ NoPage \in PageRow /\ NoPage.items = {} /\ NoPage.listed = {}
  /\ \A f \in Listed :
       /\ FirstPage(f) \in PageRow /\ FirstPage(f).folder = f /\ FirstPage(f).cursor = NextNumber
       /\ FirstPage(f).offset = 0 /\ FirstPage(f).items = {}
<1>1. NoPass \in PassRow /\ NoPass.step = "idle" /\ NoPass.complete
  BY DEF NoPass, PassRow, PassSteps
<1>2. NoPage \in PageRow /\ NoPage.items = {} /\ NoPage.listed = {}
  BY SyncNumbersHold DEF NoPage, PageRow, Cursors
<1>3. ASSUME NEW f \in Listed
      PROVE  /\ FirstPage(f) \in PageRow /\ FirstPage(f).folder = f /\ FirstPage(f).cursor = NextNumber
             /\ FirstPage(f).offset = 0 /\ FirstPage(f).items = {}
  <2>1. f \in 0..LastListed /\ NextNumber \in Cursors
    BY SyncNumbersHold DEF Cursors
  <2>2. /\ FirstPage(f).folder = f /\ FirstPage(f).cursor = NextNumber
        /\ FirstPage(f).offset = 0 /\ FirstPage(f).items = {}
    BY DEF FirstPage, NoPage
  <2>3. FirstPage(f) \in PageRow
    BY <1>2, <2>1 DEF FirstPage, PageRow
  <2> QED BY <2>2, <2>3
<1> QED BY <1>1, <1>2, <1>3

LEMMA PassTypes ==
  ASSUME SyncInv, AccountStays, pass' \in PassRow, page' \in PageRow, seen' \in SUBSET Mails,
         have' \in [Mails -> 0..LastListed],
         pinnedIn' \in [pass : SUBSET Mails, listing : SUBSET Mails]
  PROVE  SyncTypeOK' /\ CommandInHand'
<1>1. SyncTypeOK'
  BY SyncParts, TypesAreStored DEF SyncTypeOK, AccountStays
<1>2. CommandInHand'
  BY SyncParts DEF CommandInHand, Listed, Gone, Absent, AccountStays
<1> QED BY <1>1, <1>2

(* A listing that begins has all of its folder ahead. *)
LEMMA AllAhead ==
  ASSUME SyncTypeOK', NEW f \in Listed, page' = FirstPage(f), pass'.step = "ask", at' = at,
         NEW m \in Mails, at[m] >= f, at[m] \in Listed
  PROVE  Ahead(m)'
<1>1. CASE at[m] > f
  BY <1>1, PassRows DEF Ahead, Listing
<1>2. CASE at[m] = f
  <2>1. Cardinality({n \in In(f) : n > m}) \in Nat /\ In(f)' = In(f)
    BY FoldersAreFinite DEF In
  <2>2. ToList(m)'
    <3>1. page'.folder = f /\ page'.offset = 0 /\ page'.cursor = NextNumber
      BY PassRows
    <3>2. m < NextNumber
      BY NextIsNewer
    <3>3. Cardinality({n \in In(f) : n > m}) >= 0
      BY <2>1
    <3>4. In(page.folder)' = In(f)
      BY <2>1, <3>1 DEF In
    <3>5. Cardinality({n \in In(page.folder)' : n > m}) >= page'.offset
      BY <3>1, <3>3, <3>4
    <3> QED BY <3>1, <3>2, <3>5 DEF ToList, Custom
  <2> QED BY <1>2, <2>2, PassRows DEF Ahead
<1>3. at[m] \in Nat /\ f \in Nat
  BY SyncNumbersHold
<1> QED BY <1>1, <1>2, <1>3

LEMMA PassBeginsKeeps ==
  ASSUME SyncInv, deepDue \in BOOLEAN, PassBegins
  PROVE  SyncInv'
<1>0. SyncTypeOK /\ UnbornIsUnseen
  BY SyncParts
<1>1. /\ AccountStays /\ have' = have /\ page' = FirstPage(1) /\ seen' = {} /\ slipped' = {}
      /\ pass' = [NoPass EXCEPT !.step = "ask", !.deep = deepDue] /\ pinnedIn' = [pinnedIn EXCEPT !.pass = {}]
      /\ UNCHANGED <<at, here>>
  BY DEF PassBegins, AccountStays
<1>2. pass' \in PassRow /\ pass'.step = "ask"
  BY <1>1 DEF NoPass, PassRow, PassSteps
<1>3. SyncTypeOK' /\ CommandInHand'
  <2>1. pinnedIn' \in [pass : SUBSET Mails, listing : SUBSET Mails] /\ have' \in [Mails -> 0..LastListed]
    BY <1>0, <1>1 DEF SyncTypeOK
  <2> QED BY <1>1, <1>2, <2>1, PassRows, PassTypes, SyncNumbersHold
<1>4. UnbornIsUnseen'
  BY <1>0, <1>1, PassRows, SyncNumbersHold DEF UnbornIsUnseen, Unborn, Absent
<1>5. PassInHand'
  BY <1>1, <1>2, PassRows, SyncNumbersHold DEF PassInHand, Listed
<1>6. NothingLeftOut'
  <2> SUFFICES ASSUME NEW m \in Mails, at[m] \in Listed PROVE Ahead(m)'
    BY <1>1 DEF NothingLeftOut, Listed
  <2>1. at[m] >= 1
    BY SyncNumbersHold
  <2> QED BY <1>1, <1>2, <1>3, <2>1, AllAhead, SyncNumbersHold
<1> QED BY <1>3, <1>4, <1>5, <1>6 DEF SyncInv

(* A pass that ends has nothing left to vouch for. *)
LEMMA PassOverKeeps ==
  ASSUME SyncInv, AccountStays, PassOver, pinnedIn' = pinnedIn,
         have' = have \/ \E ms : Forgets(ms)
  PROVE  SyncInv'
<1>0. SyncTypeOK /\ UnbornIsUnseen
  BY SyncParts
<1>1. pass' = NoPass /\ page' = NoPage /\ seen' = {} /\ UNCHANGED <<at, here, pinnedIn>>
  BY DEF PassOver, AccountStays
<1>2. have' \in [Mails -> 0..LastListed] /\ \A m \in Mails : have'[m] \in {have[m], 0}
  BY <1>0, SyncNumbersHold DEF Forgets, Absent, SyncTypeOK
<1>3. SyncTypeOK' /\ CommandInHand'
  <2>1. pinnedIn' \in [pass : SUBSET Mails, listing : SUBSET Mails]
    BY <1>0, <1>1 DEF SyncTypeOK
  <2> QED BY <1>1, <1>2, <2>1, PassRows, PassTypes
<1>4. UnbornIsUnseen'
  BY <1>0, <1>1, <1>2, PassRows DEF UnbornIsUnseen, Unborn, Absent
<1>5. PassInHand' /\ NothingLeftOut'
  BY <1>1, PassRows DEF PassInHand, NothingLeftOut, Listing
<1> QED BY <1>3, <1>4, <1>5 DEF SyncInv

(* The listing of one folder is over. *)
LEMMA NextFolderKeeps ==
  ASSUME SyncInv, AccountStays, UNCHANGED <<have, pinnedIn, seen, slipped>>,
         NEW p \in PassRow, NextFolder(p), page.folder \in Listed,
         p.complete => pass.complete /\ ~page.more /\ page.items = {} /\ pass.step = "items"
  PROVE  SyncInv'
<1>0. SyncTypeOK /\ NothingLeftOut /\ UnbornIsUnseen /\ PassInHand /\ CommandInHand
  BY SyncParts
<1>1. UNCHANGED <<at, here, have, pinnedIn, seen, slipped>>
  BY DEF AccountStays
<1>2. \/ /\ page.folder + 1 \in Listed /\ pass' = [p EXCEPT !.step = "ask"]
         /\ page' = FirstPage(page.folder + 1)
      \/ page.folder + 1 \notin Listed /\ pass' = [p EXCEPT !.step = "prune"] /\ page' = NoPage
  BY DEF NextFolder
<1>3. /\ pass' \in PassRow /\ pass'.complete = p.complete
      /\ pass'.step \in {"ask", "prune"}
      /\ pass'.step = "ask" => page.folder + 1 \in Listed /\ page' = FirstPage(page.folder + 1)
      /\ pass'.step = "prune" => page.folder + 1 \notin Listed /\ page' = NoPage
  BY <1>2 DEF PassRow, PassSteps
<1>4. page' \in PageRow /\ page'.items = {} /\ (pass'.step = "ask" => page'.folder \in Listed)
  BY <1>3, PassRows
<1>5. SyncTypeOK' /\ CommandInHand'
  BY <1>0, <1>1, <1>3, <1>4, PassTypes DEF SyncTypeOK
<1>6. UnbornIsUnseen'
  BY <1>0, <1>1, <1>4 DEF UnbornIsUnseen, Unborn, Absent
<1>7. PassInHand'
  BY <1>3, <1>4 DEF PassInHand, Listing, Listed
<1>8. NothingLeftOut'
  <2> SUFFICES ASSUME p.complete, NEW m \in Mails \ slipped, at[m] \in Listed
               PROVE  m \in seen \cup pinnedIn.pass \/ Ahead(m)' \/ NotCachedHere(m)'
    BY <1>1, <1>3 DEF NothingLeftOut, Listed
  <2>1. m \in seen \cup pinnedIn.pass \/ Ahead(m) \/ NotCachedHere(m)
    BY <1>0 DEF NothingLeftOut
  <2>2. CASE Ahead(m)
    <3>1. at[m] > page.folder
      BY <2>2 DEF Ahead, Listing
    <3>2. at[m] \in Nat /\ page.folder \in Nat /\ page.folder >= 1 /\ at[m] <= LastListed
          /\ LastListed \in Nat
      BY SyncNumbersHold
    <3>3. at[m] >= page.folder + 1 /\ page.folder + 1 \in Listed
      BY <3>1, <3>2 DEF Listed
    <3>4. pass'.step = "ask" /\ page' = FirstPage(page.folder + 1)
      BY <1>3, <3>3
    <3> QED BY <1>1, <1>5, <3>3, <3>4, AllAhead
  <2>3. CASE NotCachedHere(m)
    BY <1>1, <2>3 DEF NotCachedHere, Absent
  <2> QED BY <2>1, <2>2, <2>3
<1> QED BY <1>5, <1>6, <1>7, <1>8 DEF SyncInv

LEMMA ListingFailsKeeps ==
  ASSUME SyncInv, ListingFails
  PROVE  SyncInv'
<1> DEFINE p == [pass EXCEPT !.complete = FALSE, !.failed = TRUE]
<1>1. NextFolder(p) /\ AccountStays /\ UNCHANGED <<have, pinnedIn, seen, slipped>>
      /\ page.folder \in Listed /\ pass \in PassRow
  BY SyncParts DEF ListingFails, PassInHand, Listing, SyncTypeOK
<1>2. p \in PassRow /\ ~p.complete
  BY <1>1 DEF PassRow
<1> HIDE DEF p
<1> QED BY <1>1, <1>2, NextFolderKeeps

(* What a step of a pass leaves where it is stays vouched for. *)
LEMMA PassStepKeeps ==
  ASSUME SyncInv, AccountStays, slipped' = slipped, have' \in [Mails -> 0..LastListed],
         pinnedIn' \in [pass : SUBSET Mails, listing : SUBSET Mails], pinnedIn'.pass = pinnedIn.pass,
         pass' \in PassRow, page' \in PageRow, seen \in SUBSET seen', seen' \in SUBSET Mails,
         PassInHand', pass.step # "idle",
         \A m \in Mails : \/ have'[m] = have[m]
                          \/ m \in seen' /\ at[m] # Unborn,
         \A m \in seen' \cup page'.items : m \in seen \cup page.items \/ at[m] # Unborn,
         pass'.complete => pass.complete,
         \A m \in Mails \ slipped :
           pass'.complete /\ pass'.step # "idle" /\ Ahead(m) => m \in seen' \/ Ahead(m)'
  PROVE  SyncInv'
<1>0. SyncTypeOK /\ NothingLeftOut /\ UnbornIsUnseen /\ PassInHand /\ CommandInHand
  BY SyncParts
<1>1. UNCHANGED <<at, here>>
  BY DEF AccountStays
<1>2. SyncTypeOK' /\ CommandInHand'
  BY PassTypes
<1>3. UnbornIsUnseen'
  BY <1>0, <1>1 DEF UnbornIsUnseen, Unborn, Absent
<1>4. NothingLeftOut'
  <2> SUFFICES ASSUME pass'.step # "idle", pass'.complete, NEW m \in Mails \ slipped, at[m] \in Listed
               PROVE  m \in seen' \cup pinnedIn.pass \/ Ahead(m)' \/ NotCachedHere(m)'
    BY <1>1 DEF NothingLeftOut, Listed
  <2>1. m \in seen \cup pinnedIn.pass \/ Ahead(m) \/ NotCachedHere(m)
    BY <1>0 DEF NothingLeftOut
  <2>2. CASE NotCachedHere(m)
    BY <1>1, <2>2 DEF NotCachedHere, Absent
  <2> QED BY <2>1, <2>2
<1> QED BY <1>2, <1>3, <1>4 DEF SyncInv

LEMMA AsksKeeps ==
  ASSUME SyncInv, Asks
  PROVE  SyncInv'
<1>0. SyncTypeOK /\ NothingLeftOut /\ UnbornIsUnseen /\ PassInHand /\ CommandInHand
  BY SyncParts
<1>1. /\ AccountStays /\ UNCHANGED <<at, have, page, seen, slipped>> /\ pass.step = "ask"
      /\ pass' = [pass EXCEPT !.step = "answer"] /\ pinnedIn' = [pinnedIn EXCEPT !.listing = {}]
  BY DEF Asks, AccountStays
<1>2. pass' \in PassRow /\ pass'.step = "answer" /\ pass'.complete = pass.complete
  BY <1>0, <1>1 DEF SyncTypeOK, PassRow, PassSteps
<1>3. pinnedIn' \in [pass : SUBSET Mails, listing : SUBSET Mails] /\ pinnedIn'.pass = pinnedIn.pass
  BY <1>0, <1>1 DEF SyncTypeOK
<1>4. PassInHand'
  BY <1>0, <1>1, <1>2 DEF PassInHand, Listing, Listed
<1>5. \A m : Ahead(m) => Ahead(m)'
  BY <1>1, <1>2 DEF Ahead, ToList, Listing, In, Custom
<1> QED BY <1>0, <1>1, <1>2, <1>3, <1>4, <1>5, PassStepKeeps DEF SyncTypeOK

(* The page the service answers with: what it leaves of the folder is still to
   be listed, and then there is more. *)
LEMMA NothingBetweenPages ==
  ASSUME SyncTypeOK, pass.step = "answer", page.folder \in Listed,
         NEW m \in In(page.folder), ToList(m), m \notin OnPage(page.folder)
  PROVE  /\ OnPage(page.folder) # {} /\ Beyond(page.folder, OnPage(page.folder))
         /\ IF Custom(page.folder)
            THEN Cardinality({n \in In(page.folder) : n > m}) >= page.offset + Page
            ELSE m < Oldest(OnPage(page.folder))
<1> DEFINE f == page.folder
           raw == OnPage(f)
           newer(r) == {n \in In(f) : n > r}
<1>0. In(f) \in SUBSET Mails /\ In(f) \in SUBSET Nat /\ IsFiniteSet(In(f))
      /\ page.offset \in Nat /\ Page \in Nat /\ Page > 0 /\ Mails \subseteq Nat
  BY FoldersAreFinite, SyncTypes, SyncNumbersHold
<1>1. CASE Custom(f)
  <2>1. raw = {r \in In(f) : Cardinality(newer(r)) >= page.offset /\ Cardinality(newer(r)) < page.offset + Page}
    BY <1>1 DEF OnPage
  <2>2. Cardinality(newer(m)) >= page.offset
    BY <1>1 DEF ToList
  <2>3. \A r : Cardinality(newer(r)) \in Nat
    BY FoldersAreFinite
  <2>4. PICK x \in In(f) : Cardinality(newer(x)) = page.offset
    BY <1>0, <2>2, SomeoneAtOffset
  <2>5. Cardinality(newer(m)) >= page.offset + Page
    <3>1. m \in In(f) /\ m \notin raw
      OBVIOUS
    <3> HIDE DEF newer, raw, f
    <3> QED BY <1>0, <2>1, <2>2, <2>3, <3>1
  <2>6. raw # {}
    <3>1. page.offset < page.offset + Page
      BY <1>0
    <3>2. x \in raw
      <4> HIDE DEF newer, raw, f
      <4> QED BY <1>0, <2>1, <2>4, <3>1
    <3> HIDE DEF raw
    <3> QED BY <3>2
  <2>7. Cardinality(In(f)) > Cardinality(newer(m))
    <3>1. newer(m) \in SUBSET In(f) /\ m \in In(f) /\ m \notin newer(m)
      <4>1. m \in Nat /\ ~(m > m)
        BY <1>0
      <4> QED BY <4>1
    <3>2. newer(m) # In(f)
      <4> HIDE DEF newer
      <4> QED BY <3>1
    <3>3. Cardinality(newer(m)) <= Cardinality(In(f)) /\ Cardinality(newer(m)) # Cardinality(In(f))
      <4> HIDE DEF newer
      <4> QED BY <1>0, <3>1, <3>2, FS_Subset
    <3>4. Cardinality(In(f)) \in Nat
      BY <1>0, FS_CardinalityType
    <3> HIDE DEF newer
    <3> QED BY <2>3, <3>3, <3>4
  <2>8. Beyond(f, raw)
    <3>1. Cardinality(In(f)) > page.offset + Page
      <4>1. Cardinality(In(f)) \in Nat
        BY <1>0, FS_CardinalityType
      <4> HIDE DEF newer
      <4> QED BY <1>0, <2>3, <2>5, <2>7, <4>1
    <3> HIDE DEF raw
    <3> QED BY <1>1, <3>1 DEF Beyond
  <2> QED BY <1>1, <2>5, <2>6, <2>8
<1>2. CASE ~Custom(f)
  <2> DEFINE B == {n \in In(f) : n < page.cursor}
  <2>1. raw = {b \in B : Cardinality({n \in B : n > b}) < Page}
    BY <1>2 DEF OnPage
  <2>2. m \in B /\ m < page.cursor
    BY <1>2 DEF ToList
  <2>3. B \in SUBSET Nat /\ IsFiniteSet(B)
    <3>1. B \in SUBSET In(f)
      OBVIOUS
    <3> QED BY <1>0, <3>1, FS_Subset
  <2> HIDE DEF B
  <2>4. raw # {}
    <3>1. PICK b \in B : \A n \in B : n <= b
      BY <2>2, <2>3, NewestOne
    <3>2. {n \in B : n > b} = {}
      <4> SUFFICES ASSUME NEW n \in B, n > b PROVE FALSE
        OBVIOUS
      <4>1. n <= b /\ n \in Nat /\ b \in Nat
        BY <2>3, <3>1
      <4> QED BY <4>1
    <3>3. Cardinality({n \in B : n > b}) = 0
      BY <3>2, FS_EmptySet
    <3> HIDE DEF raw
    <3> QED BY <1>0, <2>1, <3>3
  <2>5. \A r \in raw : m < r
    <3> HIDE DEF raw
    <3>1. m \notin raw
      BY DEF raw
    <3> QED BY <1>0, <2>1, <2>2, <2>3, <3>1, PageIsNewest
  <2>6. raw \in SUBSET Mails
    <3> HIDE DEF raw
    <3> QED BY <1>0, <2>1 DEF B
  <2>7. m < Oldest(raw)
    <3> HIDE DEF raw
    <3> QED BY <2>4, <2>5, <2>6, OldestIsIn
  <2>8. Beyond(f, raw)
    BY <1>2, <2>2 DEF Beyond
  <2> QED BY <1>2, <2>4, <2>7, <2>8
<1> QED BY <1>1, <1>2

LEMMA AnswersKeeps ==
  ASSUME SyncInv, Answers
  PROVE  SyncInv'
<1>0. SyncTypeOK /\ UnbornIsUnseen /\ PassInHand
  BY SyncParts
<1> DEFINE f == page.folder
           raw == OnPage(f)
           items == IF Custom(f) THEN raw \ seen ELSE raw
           more == Beyond(f, raw) /\ raw # {}
<1>1. /\ AccountStays /\ UNCHANGED <<at, have, pinnedIn, seen, slipped>> /\ pass.step = "answer"
      /\ pass' = [pass EXCEPT !.step = "items"]
      /\ page' = [page EXCEPT !.items = items, !.snap = {m \in items : have[m] = f},
                              !.more = more, !.fresh = FALSE,
                              !.any = items # {}, !.fetched = page.fetched + Cardinality(items),
                              !.cursor = IF raw = {} THEN page.cursor ELSE Oldest(raw)]
  BY DEF Answers, AccountStays
<1>2. pass' \in PassRow /\ pass'.step = "items" /\ pass'.complete = pass.complete
  BY <1>0, <1>1 DEF SyncTypeOK, PassRow, PassSteps
<1>3. raw \in SUBSET In(f) /\ items \in SUBSET raw /\ items \in SUBSET Mails /\ raw \in SUBSET Mails
      /\ f \in Listed
  <2>1. raw \in SUBSET In(f)
    BY DEF OnPage
  <2> QED BY <1>0, <1>1, <2>1 DEF In, PassInHand, Listing
<1>4. page' \in PageRow
  <2>1. Cardinality(items) \in Nat
    <3>1. IsFiniteSet(items)
      BY <1>3, SyncNumbersHold, FS_Subset
    <3> QED BY <3>1, FS_CardinalityType
  <2>2. (IF raw = {} THEN page.cursor ELSE Oldest(raw)) \in Cursors
    <3>1. page.cursor \in Cursors
      BY <1>0, SyncTypes
    <3>2. raw # {} => Oldest(raw) \in Mails
      BY <1>3, OldestIsIn
    <3> QED BY <3>1, <3>2 DEF Cursors
  <2>3. more \in BOOLEAN /\ (items # {}) \in BOOLEAN /\ page \in PageRow /\ page.fetched \in Nat
        /\ {m \in items : have[m] = f} \in SUBSET Mails
    <3>1. {m \in items : have[m] = f} \in SUBSET Mails
      BY <1>3
    <3>2. more \in BOOLEAN
      BY DEF Beyond
    <3> QED BY <1>0, <3>1, <3>2, SyncTypes
  <2>4. page.fetched + Cardinality(items) \in Nat
    BY <2>1, <2>3
  <2> HIDE DEF items, raw, more, f
  <2> QED BY <1>1, <1>3, <2>2, <2>3, <2>4 DEF PageRow
<1>5. /\ page'.items = items /\ page'.more = more /\ page'.folder = f /\ page'.offset = page.offset
      /\ page'.cursor = IF raw = {} THEN page.cursor ELSE Oldest(raw)
  <2>1. page \in PageRow
    BY <1>0, SyncTypes
  <2> HIDE DEF items, raw, more
  <2> QED BY <1>1, <2>1 DEF PageRow
<1>6. PassInHand'
  <2> HIDE DEF f
  <2> QED BY <1>2, <1>3, <1>5 DEF PassInHand, Listing, Listed
<1>7. ASSUME NEW m \in Mails, Ahead(m) PROVE m \in seen' \/ Ahead(m)'
  <2>1. CASE at[m] > f
    BY <1>1, <1>2, <1>5, <2>1 DEF Ahead, Listing
  <2>2. CASE at[m] = f /\ ToList(m)
    <3>1. m \in In(f)
      BY <2>2 DEF In
    <3>2. CASE m \in raw
      <4>1. m \in items \/ m \in seen
        BY <3>2
      <4> HIDE DEF items
      <4> QED BY <1>1, <1>2, <1>5, <4>1 DEF Ahead
    <3>3. CASE m \notin raw
      <4>1. /\ raw # {} /\ Beyond(f, raw)
            /\ IF Custom(f) THEN Cardinality({n \in In(f) : n > m}) >= page.offset + Page
               ELSE m < Oldest(raw)
        BY <1>0, <1>1, <1>3, <2>2, <3>1, <3>3, NothingBetweenPages
      <4>2. more
        BY <4>1
      <4>3. page'.more /\ page'.cursor = Oldest(raw)
        <5> HIDE DEF more, raw
        <5> QED BY <1>5, <4>1, <4>2
      <4>4. In(page.folder)' = In(f)
        BY <1>1, <1>5 DEF In
      <4>5. ToList(m)'
        <5> HIDE DEF raw, more, items
        <5> QED BY <1>2, <1>5, <4>1, <4>3, <4>4 DEF ToList, Custom
      <4> HIDE DEF raw, more, items
      <4> QED BY <1>1, <1>2, <1>5, <2>2, <4>3, <4>5 DEF Ahead
    <3> QED BY <3>2, <3>3
  <2> QED BY <1>1, <1>7, <2>1, <2>2 DEF Ahead
<1>8. \A m \in seen' \cup page'.items : m \in seen \cup page.items \/ at[m] # Unborn
  <2>1. \A m \in items : at[m] # Unborn
    BY <1>3, SyncNumbersHold DEF In
  <2> HIDE DEF items
  <2> QED BY <1>1, <1>5, <2>1
<1>9. have' \in [Mails -> 0..LastListed] /\ pinnedIn' \in [pass : SUBSET Mails, listing : SUBSET Mails]
      /\ seen \in SUBSET seen' /\ seen' \in SUBSET Mails
  BY <1>0, <1>1 DEF SyncTypeOK
<1> HIDE DEF items, raw, more, f
<1> QED BY <1>1, <1>2, <1>4, <1>6, <1>7, <1>8, <1>9, PassStepKeeps

LEMMA TakesItemKeeps ==
  ASSUME SyncInv, TakesItem
  PROVE  SyncInv'
<1>0. SyncTypeOK /\ UnbornIsUnseen /\ PassInHand
  BY SyncParts
<1> DEFINE m0 == Newest(page.items)
           writes == m0 \notin page.snap /\ ~Predates(m0)
           old == have[m0] # Absent
<1>1. /\ AccountStays /\ UNCHANGED <<at, pinnedIn, slipped>> /\ pass.step = "items" /\ page.items # {}
      /\ seen' = seen \cup {m0}
      /\ page' = [page EXCEPT !.items = page.items \ {m0}, !.listed = page.listed \cup {m0},
                              !.now = m0, !.fresh = page.fresh \/ (writes /\ ~old)]
      /\ \/ have' = [have EXCEPT ![m0] = IF writes THEN page.folder ELSE have[m0]] /\ pass' = pass
         \/ pass' = [pass EXCEPT !.step = "download"] /\ have' = have
  BY DEF TakesItem, AccountStays
<1>2. m0 \in page.items /\ m0 \in Mails /\ m0 \in Nat
  BY <1>0, <1>1, SyncTypes, NewestIsIn, SyncNumbersHold
<1>3. pass' \in PassRow /\ pass'.step \in {"items", "download"} /\ pass'.complete = pass.complete
  BY <1>0, <1>1 DEF SyncTypeOK, PassRow, PassSteps
<1>4. page' \in PageRow
  <2>1. page \in PageRow /\ page.fresh \in BOOLEAN /\ page.items \in SUBSET Mails /\ page.listed \in SUBSET Mails
    BY <1>0 DEF SyncTypeOK, PageRow
  <2>2. (page.fresh \/ (writes /\ ~old)) \in BOOLEAN
    BY <2>1 DEF Predates
  <2> HIDE DEF writes, old, m0
  <2> QED BY <1>1, <1>2, <2>1, <2>2 DEF PageRow
<1>5. /\ page'.items = page.items \ {m0} /\ page'.now = m0 /\ page'.folder = page.folder
      /\ page'.more = page.more /\ page'.cursor = page.cursor /\ page'.offset = page.offset
  <2>1. page \in PageRow
    BY <1>0, SyncTypes
  <2> HIDE DEF writes, old, m0
  <2> QED BY <1>1, <2>1 DEF PageRow
<1> HIDE DEF m0
<1>6. PassInHand'
  BY <1>0, <1>1, <1>3, <1>5 DEF PassInHand, Listing, Listed
<1>7. have' \in [Mails -> 0..LastListed] /\ \A m \in Mails : have'[m] = have[m] \/ m = m0
  BY <1>0, <1>1, <1>2, SyncTypes
<1>8. \A m \in Mails : have'[m] = have[m] \/ (m \in seen' /\ at[m] # Unborn)
  BY <1>0, <1>1, <1>2, <1>7 DEF UnbornIsUnseen
<1>9. \A m \in seen' \cup page'.items : m \in seen \cup page.items \/ at[m] # Unborn
  BY <1>1, <1>2, <1>5
<1>10. ASSUME NEW m \in Mails, Ahead(m) PROVE m \in seen' \/ Ahead(m)'
  <2>1. ToList(m)' <=> ToList(m)
    BY <1>1, <1>3, <1>5 DEF ToList, In, Custom
  <2> QED BY <1>1, <1>3, <1>5, <1>10, <2>1 DEF Ahead, Listing
<1>11. /\ pinnedIn' \in [pass : SUBSET Mails, listing : SUBSET Mails] /\ pinnedIn'.pass = pinnedIn.pass
       /\ seen \in SUBSET seen' /\ seen' \in SUBSET Mails
  BY <1>0, <1>1, <1>2 DEF SyncTypeOK
<1> HIDE DEF writes, old
<1> QED BY <1>1, <1>3, <1>4, <1>6, <1>7, <1>8, <1>9, <1>10, <1>11, PassStepKeeps

LEMMA CommitsKeeps ==
  ASSUME SyncInv, Commits
  PROVE  SyncInv'
<1>0. SyncTypeOK /\ UnbornIsUnseen /\ PassInHand
  BY SyncParts
<1>1. /\ AccountStays /\ UNCHANGED <<at, pinnedIn, page, seen, slipped>> /\ pass.step = "download"
      /\ pass' = [pass EXCEPT !.step = "items"]
      /\ have' = [have EXCEPT ![page.now] = IF Predates(page.now) THEN have[page.now] ELSE page.folder]
  BY DEF Commits, AccountStays
<1>2. page.now \in seen /\ page.now \in Mails
  BY <1>0, <1>1 DEF PassInHand, SyncTypeOK
<1>3. pass' \in PassRow /\ pass'.step = "items" /\ pass'.complete = pass.complete
  BY <1>0, <1>1 DEF SyncTypeOK, PassRow, PassSteps
<1>4. PassInHand'
  BY <1>0, <1>1, <1>3 DEF PassInHand, Listing, Listed
<1>5. have' \in [Mails -> 0..LastListed] /\ \A m \in Mails : have'[m] = have[m] \/ m = page.now
  BY <1>0, <1>1, <1>2, SyncTypes
<1>6. \A m \in Mails : have'[m] = have[m] \/ (m \in seen' /\ at[m] # Unborn)
  BY <1>0, <1>1, <1>2, <1>5 DEF UnbornIsUnseen
<1>7. ASSUME NEW m \in Mails, Ahead(m) PROVE Ahead(m)'
  <2>1. ToList(m)' <=> ToList(m)
    BY <1>1, <1>3 DEF ToList, In, Custom
  <2> QED BY <1>1, <1>3, <1>7, <2>1 DEF Ahead, Listing
<1>8. /\ pinnedIn' \in [pass : SUBSET Mails, listing : SUBSET Mails] /\ pinnedIn'.pass = pinnedIn.pass
      /\ seen \in SUBSET seen' /\ seen' \in SUBSET Mails /\ page' \in PageRow
  BY <1>0, <1>1 DEF SyncTypeOK
<1> QED BY <1>1, <1>3, <1>4, <1>5, <1>6, <1>7, <1>8, PassStepKeeps

LEMMA PageEndsKeeps ==
  ASSUME SyncInv, PageEnds
  PROVE  SyncInv'
<1>0. SyncTypeOK /\ UnbornIsUnseen /\ PassInHand
  BY SyncParts
<1> DEFINE p == [pass EXCEPT !.complete = pass.complete /\ ~page.more,
                             !.cappedOnly = pass.cappedOnly /\ (~page.more \/ Capped)]
<1>1. /\ AccountStays /\ UNCHANGED <<at, have, pinnedIn, seen, slipped>> /\ pass.step = "items"
      /\ page.items = {} /\ page.folder \in Listed
      /\ pass \in PassRow /\ page \in PageRow
  BY <1>0 DEF PageEnds, AccountStays, PassInHand, Listing, SyncTypeOK
<1>2. CASE NextFolder(p)
  <2>1. (pass.complete /\ ~page.more) \in BOOLEAN /\ (pass.cappedOnly /\ (~page.more \/ Capped)) \in BOOLEAN
    BY <1>1 DEF PassRow, PageRow
  <2>2. p \in PassRow /\ (p.complete => pass.complete /\ ~page.more)
    <3> HIDE DEF Capped
    <3> QED BY <1>1, <2>1 DEF PassRow
  <2> HIDE DEF p
  <2> QED BY <1>1, <1>2, <2>2, NextFolderKeeps
<1>3. CASE page.more /\ pass' = [pass EXCEPT !.step = "ask"]
           /\ page' = [page EXCEPT !.offset = page.offset + Page]
  <2>1. pass' \in PassRow /\ pass'.step = "ask" /\ pass'.complete = pass.complete
    BY <1>1, <1>3 DEF PassRow, PassSteps
  <2>2. page.offset + Page \in Nat
    BY <1>1, SyncNumbersHold DEF PageRow
  <2>3. /\ page' \in PageRow /\ page'.items = {} /\ page'.folder = page.folder
        /\ page'.cursor = page.cursor /\ page'.offset = page.offset + Page
    BY <1>1, <1>3, <2>2 DEF PageRow
  <2>4. PassInHand'
    BY <1>1, <2>1, <2>3 DEF PassInHand, Listing, Listed
  <2>5. ASSUME NEW m \in Mails, Ahead(m) PROVE Ahead(m)'
    <3>1. ToList(m)' <=> ToList(m)
      BY <1>1, <2>1, <2>3 DEF ToList, In, Custom
    <3> QED BY <1>1, <2>1, <2>3, <2>5, <3>1 DEF Ahead, Listing
  <2>6. /\ pinnedIn' \in [pass : SUBSET Mails, listing : SUBSET Mails] /\ pinnedIn'.pass = pinnedIn.pass
        /\ seen \in SUBSET seen' /\ seen' \in SUBSET Mails /\ have' \in [Mails -> 0..LastListed]
    BY <1>0, <1>1 DEF SyncTypeOK
  <2> QED BY <1>1, <2>1, <2>3, <2>4, <2>5, <2>6, PassStepKeeps
<1> QED BY <1>2, <1>3 DEF PageEnds

LEMMA AsksWhetherGoneKeeps ==
  ASSUME SyncInv, AsksWhetherGone
  PROVE  SyncInv'
<1>0. SyncTypeOK /\ UnbornIsUnseen /\ PassInHand
  BY SyncParts
<1>1. PICK S \in SUBSET Candidates : page' = [NoPage EXCEPT !.items = S]
  BY DEF AsksWhetherGone
<1>2. /\ AccountStays /\ UNCHANGED <<at, have, pinnedIn, seen, slipped>> /\ pass.step = "prune"
      /\ pass' = [pass EXCEPT !.step = "confirm"] /\ ~pass.complete
  BY DEF AsksWhetherGone, AccountStays, PrunesCapped
<1>3. \A m \in S : m \in Mails /\ at[m] # Unborn
  <2>1. Candidates \subseteq Cached
    BY DEF Candidates
  <2> QED BY <1>0, <2>1 DEF Cached, UnbornIsUnseen
<1>4. page' \in PageRow /\ page'.items = S /\ page'.listed = {}
  BY <1>1, <1>3, PassRows DEF PageRow
<1>5. pass' \in PassRow /\ pass'.step = "confirm" /\ ~pass'.complete
  BY <1>0, <1>2 DEF SyncTypeOK, PassRow, PassSteps
<1>6. PassInHand'
  BY <1>4, <1>5 DEF PassInHand, Listing
<1>7. /\ pinnedIn' \in [pass : SUBSET Mails, listing : SUBSET Mails] /\ pinnedIn'.pass = pinnedIn.pass
      /\ seen \in SUBSET seen' /\ seen' \in SUBSET Mails /\ have' \in [Mails -> 0..LastListed]
  BY <1>0, <1>2 DEF SyncTypeOK
<1>8. \A m \in seen' \cup page'.items : m \in seen \cup page.items \/ at[m] # Unborn
  BY <1>2, <1>3, <1>4
<1> QED BY <1>2, <1>4, <1>5, <1>6, <1>7, <1>8, PassStepKeeps

LEMMA ConfirmsKeeps ==
  ASSUME SyncInv, Confirms
  PROVE  SyncInv'
<1>0. SyncTypeOK /\ UnbornIsUnseen /\ PassInHand
  BY SyncParts
<1>1. /\ AccountStays /\ UNCHANGED <<at, have, pinnedIn, seen, slipped, pass>> /\ pass.step = "confirm"
      /\ ~pass.complete /\ page.items # {} /\ page \in PageRow
  BY <1>0 DEF Confirms, AccountStays, PassInHand, SyncTypeOK
<1> DEFINE m0 == Newest(page.items)
<1>2. m0 \in page.items /\ page.items \in SUBSET Mails /\ page.listed \in SUBSET Mails
  BY <1>0, <1>1, SyncTypes, NewestIsIn
<1>3. \/ page' = [page EXCEPT !.items = page.items \ {m0},
                              !.listed = IF at[m0] = Gone THEN page.listed \cup {m0} ELSE page.listed]
      \/ page' = [page EXCEPT !.items = {}]
  BY DEF Confirms
<1> HIDE DEF m0
<1>4. /\ page' \in PageRow /\ page'.items \subseteq page.items
      /\ \A m \in page'.listed : m \in page.listed \/ at[m] = Gone
  <2>1. CASE page' = [page EXCEPT !.items = {}]
    BY <1>1, <2>1 DEF PageRow
  <2>2. CASE at[m0] = Gone /\ page' = [page EXCEPT !.items = page.items \ {m0},
                                                  !.listed = page.listed \cup {m0}]
    BY <1>1, <1>2, <2>2 DEF PageRow
  <2>3. CASE at[m0] # Gone /\ page' = [page EXCEPT !.items = page.items \ {m0},
                                                  !.listed = page.listed]
    BY <1>1, <1>2, <2>3 DEF PageRow
  <2> QED BY <1>3, <2>1, <2>2, <2>3
<1>5. PassInHand'
  BY <1>0, <1>1, <1>4 DEF PassInHand, Listing, Gone
<1>6. /\ pinnedIn' \in [pass : SUBSET Mails, listing : SUBSET Mails] /\ pinnedIn'.pass = pinnedIn.pass
      /\ seen \in SUBSET seen' /\ seen' \in SUBSET Mails /\ have' \in [Mails -> 0..LastListed]
      /\ pass' \in PassRow
  BY <1>0, <1>1 DEF SyncTypeOK
<1> QED BY <1>1, <1>4, <1>5, <1>6, PassStepKeeps

LEMMA PassClosesKeeps ==
  ASSUME SyncInv, Prunes \/ RemovesConfirmed \/ PassEnds
  PROVE  SyncInv'
<1>1. AccountStays /\ PassOver /\ pinnedIn' = pinnedIn
  BY DEF Prunes, RemovesConfirmed, PassEnds
<1>2. have' = have \/ \E ms : Forgets(ms)
  BY DEF Prunes, RemovesConfirmed, PassEnds
<1> QED BY <1>1, <1>2, PassOverKeeps

LEMMA NothingMovesKeeps ==
  ASSUME SyncInv, UNCHANGED <<at, have, pinnedIn, pass, page, seen, here, slipped>>
  PROVE  SyncInv'
<1>1. SyncTypeOK' /\ CommandInHand'
  BY SyncParts, PassTypes, TypesAreStored, CommandStays DEF SyncTypeOK
<1>2. \A m \in Mails : at[m] = Unborn => have'[m] = Absent /\ here'.mail # m
  BY SyncParts DEF UnbornIsUnseen
<1>3. \A m \in Mails : NotCachedHere(m) => NotCachedHere(m)'
  BY DEF NotCachedHere, Absent
<1> QED BY <1>1, <1>2, <1>3, AccountStandsGoesOn

-----------------------------------------------------------------------------

LEMMA SyncStarts == SyncInit => SyncInv /\ deepDue \in BOOLEAN
<1> SUFFICES ASSUME SyncInit PROVE SyncInv /\ deepDue \in BOOLEAN
  OBVIOUS
<1>1. /\ at = [m \in Mails |-> IF m \in AtFirst THEN 1 ELSE Unborn]
      /\ have = [m \in Mails |-> IF m \in AtFirst THEN 1 ELSE Absent]
      /\ pinnedIn = [pass |-> {}, listing |-> {}]
      /\ page = NoPage /\ seen = {} /\ here = NotHere /\ deepDue = TRUE
  BY DEF SyncInit, SyncInitWith
<1>2. pass \in PassRow /\ pass.step = "idle"
  BY DEF SyncInit, SyncInitWith, NoPass, PassRow, PassSteps
<1>3. 1 \in 0..LastListed /\ 0 \in 0..LastListed /\ 1 \in 0..Gone /\ Unborn \in 0..Gone
  BY SyncNumbersHold DEF Gone
<1>4. NotHere \in HereRow /\ NotHere.op = "none" /\ NotHere.mail = 0
  BY SyncNumbersHold DEF NotHere, HereRow
<1>5. SyncTypeOK
  <2>1. at \in [Mails -> 0..Gone] /\ have \in [Mails -> 0..LastListed]
    BY <1>1, <1>3 DEF Absent
  <2> QED BY <1>1, <1>2, <1>4, <2>1, PassRows DEF SyncTypeOK
<1>6. UnbornIsUnseen
  BY <1>1, <1>4, PassRows, SyncNumbersHold DEF UnbornIsUnseen
<1>7. NothingLeftOut /\ PassInHand /\ CommandInHand
  BY <1>1, <1>2, <1>4 DEF NothingLeftOut, PassInHand, CommandInHand, Listing
<1> QED BY <1>1, <1>5, <1>6, <1>7 DEF SyncInv

LEMMA SyncNextKeeps ==
  ASSUME SyncInv, deepDue \in BOOLEAN, SyncNext
  PROVE  SyncInv'
<1>1. CASE PassBegins \/ Asks \/ Answers \/ TakesItem \/ Commits \/ PageEnds \/ ListingFails
  BY <1>1, PassBeginsKeeps, AsksKeeps, AnswersKeeps, TakesItemKeeps, CommitsKeeps, PageEndsKeeps,
     ListingFailsKeeps
<1>2. CASE Prunes \/ AsksWhetherGone \/ Confirms \/ RemovesConfirmed \/ PassEnds
  BY <1>2, PassClosesKeeps, AsksWhetherGoneKeeps, ConfirmsKeeps
<1>3. CASE HereStep
  BY <1>3, AppendPlacesKeeps, AppendPinsKeeps, CachesHereKeeps DEF HereStep
<1>4. CASE Changes
  <2>1. PICK m \in Mails : \/ DeletesElsewhere(m) \/ ExpungesHere(m)
          \/ \E f \in Listed : Arrives(m, f) \/ MovesElsewhere(m, f) \/ AppendStores(m, f) \/ MovesHere(m, f)
    BY <1>4 DEF Changes
  <2> QED BY <2>1, AccountChangesKeep, CommandsBeginKeep, SyncNumbersHold
<1>5. CASE DeepFallsDue
  <2>1. UNCHANGED <<at, have, pinnedIn, pass, page, seen, here, slipped>>
    BY <1>5 DEF DeepFallsDue
  <2> QED BY <2>1, NothingMovesKeeps
<1> QED BY <1>1, <1>2, <1>3, <1>4, <1>5 DEF SyncNext, PassStep

LEMMA DeepDueStays ==
  ASSUME deepDue \in BOOLEAN, SyncNext
  PROVE  deepDue' \in BOOLEAN
<1>1. CASE PassStep
  BY <1>1 DEF PassStep, PassBegins, Asks, Answers, TakesItem, Commits, PageEnds, ListingFails,
     Prunes, AsksWhetherGone, Confirms, RemovesConfirmed, PassEnds
<1>2. CASE HereStep
  BY <1>2 DEF HereStep, AppendPlaces, AppendPins, CachesHere, AccountOnly
<1>3. CASE Changes
  BY <1>3 DEF Changes, DeletesElsewhere, ExpungesHere, Arrives, MovesElsewhere, AppendStores,
     MovesHere, AccountOnly
<1>4. CASE DeepFallsDue
  BY <1>4 DEF DeepFallsDue
<1> QED BY <1>1, <1>2, <1>3, <1>4 DEF SyncNext

(* What a pass, or a command while it prunes, takes from the cache. *)
LEMMA PruneTakes ==
  ASSUME SyncInv, SyncNext, NEW m \in Mails, have[m] # Absent, have'[m] = Absent, at[m] \in Listed,
         pass.step \in {"prune", "confirm"}
  PROVE  m \in slipped
<1>0. SyncTypeOK /\ NothingLeftOut /\ UnbornIsUnseen /\ PassInHand /\ CommandInHand
  BY SyncParts
<1>1. CASE Prunes
  <2>1. /\ pass.step = "prune" /\ pass.complete
        /\ have' = [n \in Mails |-> IF n \in {k \in Mails : MayPrune(k)} THEN Absent ELSE have[n]]
    BY <1>1 DEF Prunes, Forgets
  <2>2. MayPrune(m)
    BY <2>1
  <2>3. m \notin seen /\ m \notin pinnedIn.pass
    BY <2>2 DEF MayPrune
  <2>4. ~Ahead(m) /\ ~NotCachedHere(m)
    BY <2>1 DEF Ahead, NotCachedHere, Listing
  <2> QED BY <1>0, <2>1, <2>3, <2>4 DEF NothingLeftOut
<1>2. CASE RemovesConfirmed
  <2>1. pass.step = "confirm" /\ m \in page.listed
    BY <1>2 DEF RemovesConfirmed, Forgets
  <2> QED BY <1>0, <2>1, SyncNumbersHold DEF PassInHand
<1>3. CASE CachesHere
  <2>1. here.op = "cache" /\ have' = [have EXCEPT ![here.mail] = here.into]
    BY <1>3 DEF CachesHere
  <2>2. m = here.mail /\ here.into = Absent
    BY <1>0, <2>1 DEF SyncTypeOK
  <2> QED BY <1>0, <2>1, <2>2, SyncNumbersHold DEF CommandInHand
<1>4. CASE AsksWhetherGone \/ Confirms \/ PassEnds \/ DeepFallsDue \/ AppendPlaces \/ AppendPins
  BY <1>4 DEF AsksWhetherGone, Confirms, PassEnds, DeepFallsDue, AppendPlaces, AppendPins, AccountOnly
<1>5. CASE PassBegins \/ Asks \/ Answers \/ TakesItem \/ Commits \/ PageEnds \/ ListingFails
  BY <1>5 DEF PassBegins, Asks, Answers, TakesItem, Commits, PageEnds, ListingFails
<1>6. CASE Changes
  BY <1>6 DEF Changes, DeletesElsewhere, ExpungesHere, Arrives, MovesElsewhere, AppendStores,
     MovesHere, AccountOnly
<1> QED BY <1>1, <1>2, <1>3, <1>4, <1>5, <1>6 DEF SyncNext, PassStep, HereStep

(* A pass removes mail the account still has only if the mail moved during the
   pass, or was in a custom folder that something left meanwhile: never because
   it was appended, because a listing failed, or was cut off.  (The prune at the
   end of run_sync_pass, unless_appended_since, confirm_gone_on_server.) *)
THEOREM PassesSpareLiveMail == SyncSpec => PrunesOnlySlipped
<1> DEFINE Inv == SyncInv /\ deepDue \in BOOLEAN
           Spares == \A m \in Mails :
             have[m] # Absent /\ have'[m] = Absent /\ at[m] \in Listed /\ pass.step \in {"prune", "confirm"}
               => m \in slipped
<1>1. SyncInit => Inv
  BY SyncStarts
<1>2. Inv /\ [SyncNext]_syncVars => Inv'
  <2> SUFFICES ASSUME SyncInv, deepDue \in BOOLEAN, [SyncNext]_syncVars
               PROVE  SyncInv' /\ deepDue' \in BOOLEAN
    OBVIOUS
  <2>1. CASE SyncNext
    BY <2>1, SyncNextKeeps, DeepDueStays
  <2>2. CASE UNCHANGED syncVars
    BY <2>2, NothingMovesKeeps DEF syncVars
  <2> QED BY <2>1, <2>2
<1>3. Inv /\ [SyncNext]_syncVars => [Spares]_syncVars
  <2>1. ASSUME SyncInv, SyncNext PROVE Spares
    BY <2>1, PruneTakes
  <2> QED BY <2>1
<1> HIDE DEF Inv
<1> QED BY <1>1, <1>2, <1>3, PTL DEF SyncSpec, PrunesOnlySlipped

-----------------------------------------------------------------------------
(* The history index knows mail that stays in its folder. *)

(* What the variables of a step hold. *)
Steps == {"none", "light", "full", "save"}
RetryRow == [attempts : Nat, listing : 0..LastListing, due : BOOLEAN]
IndexRow == [sweeping : BOOLEAN, cursor : Nat, offset : Nat, total_offset : Int,
             drift : BOOLEAN, incomplete : BOOLEAN]
WorkRow == [step : Steps, listing : 0..LastListing, last : Nat, items : Nat, total : Int,
            more : BOOLEAN]
HistoryTypeOK ==
  /\ account \in [OldMails -> 0..Deleted] /\ row \in [OldMails -> 0..LastListing]
  /\ member \in [Listings -> SUBSET OldMails] /\ current \in [Listings -> SUBSET OldMails]
  /\ departed \in SUBSET OldMails
  /\ retry \in [OldMails -> RetryRow] /\ index \in [Listings -> IndexRow] /\ work \in WorkRow

(* Where the sweep of listing l has yet to come by message m. *)
ToVisit(l, m) ==
  IF ByOffset(l) THEN Cardinality({n \in Held(l) : n > m}) >= index[l].offset
  ELSE index[l].cursor = AtTop \/ m < index[l].cursor

(* The same behind the page that is about to be saved. *)
ToVisitNext(l, m) ==
  /\ work.more
  /\ IF ByOffset(l) THEN Cardinality({n \in Held(l) : n > m}) >= index[l].offset + work.items
     ELSE work.last = AtTop \/ m < work.last

(* A step works on a listing that is being swept. *)
Sweeping == work.step # "none" => work.listing \in Listings /\ index[work.listing].sweeping

(* Nothing is known of mail the account does not have yet. *)
UnbornIsUnknown ==
  \A m \in OldMails : account[m] = 0 =>
    row[m] = 0 /\ m \notin departed /\ m \notin Indexed /\ retry[m].listing = 0

(* A member was stamped in the listing of its folder. *)
MembersAreHeld ==
  \A l \in Listings :
    /\ current[l] \subseteq member[l]
    /\ \A m \in member[l] \ strayed : account[m] \in {l, Deleted}

(* A member that its sweep has not come by in this round is still ahead of it. *)
NoneSkipped ==
  \A l \in Listings, m \in OldMails \ strayed :
    m \in member[l] /\ account[m] = l /\ m \notin current[l] =>
      /\ index[l].sweeping => ToVisit(l, m)
      /\ work.step = "save" /\ work.listing = l => ToVisitNext(l, m)

(* Mail that may yet be cached, or that is to be checked, is a member as long as
   the account has it. *)
HeldIsIndexed ==
  \A m \in OldMails \ strayed :
    account[m] \in Listings /\ (m \in departed \/ retry[m].listing # 0) => m \in Indexed

HistoryInv ==
  /\ HistoryTypeOK /\ Sweeping /\ UnbornIsUnknown /\ MembersAreHeld /\ NoneSkipped
  /\ HeldIsIndexed /\ KnownUnlessStrayed

HistoryConstants == HistoryBounds /\ HistoryNumbers
LEMMA HistoryConstantsHold == HistoryConstants
BY HistoryBounds, HistoryNumbers DEF HistoryConstants, HistoryBounds, HistoryNumbers

LEMMA HistoryNumbersHold ==
  /\ LastListing \in Nat /\ LastListing > 0 /\ Deleted \notin Listings /\ Deleted # 0 /\ 0 \notin Listings
  /\ Listings \subseteq Nat /\ Listings \subseteq 0..LastListing /\ Listings \subseteq 0..Deleted
  /\ 0..LastListing \subseteq Nat /\ 0..Deleted = Listings \cup {0, Deleted}
BY HistoryConstantsHold DEF HistoryConstants, HistoryBounds, Deleted, Listings

LEMMA HistoryFinite ==
  /\ \A l : Held(l) \in SUBSET OldMails /\ Held(l) \in SUBSET Nat /\ IsFiniteSet(Held(l))
  /\ \A l, m : IsFiniteSet({n \in Held(l) : n > m}) /\ Cardinality({n \in Held(l) : n > m}) \in Nat
<1>1. OldMails \in SUBSET Nat /\ IsFiniteSet(OldMails)
  BY HistoryConstantsHold DEF HistoryConstants, HistoryNumbers
<1>2. \A l : Held(l) \in SUBSET OldMails
  BY DEF Held
<1>3. \A l : IsFiniteSet(Held(l))
  BY <1>1, <1>2, FS_Subset
<1>4. \A l, m : {n \in Held(l) : n > m} \in SUBSET Held(l)
  OBVIOUS
<1> QED BY <1>1, <1>2, <1>3, <1>4, FS_Subset, FS_CardinalityType

LEMMA InSomeListing == \A m : m \in Indexed <=> \E l \in Listings : m \in member[l]
BY DEF Indexed

LEMMA InSomeListingNext == \A m : m \in Indexed' <=> \E l \in Listings : m \in member'[l]
BY DEF Indexed, Listings

-----------------------------------------------------------------------------
(* What the parts say when only some of the variables move. *)

(* As long as the account and the position in a listing stand, so does what is
   ahead of its sweep. *)
LEMMA AheadStays ==
  ASSUME HistoryTypeOK, NEW l \in Listings, NEW m \in OldMails, ToVisit(l, m),
         {n \in Held(l) : n > m} \subseteq {n \in Held(l)' : n > m}
           \/ (~ByOffset(l)),
         IsFiniteSet(Held(l)'), Held(l)' \subseteq OldMails,
         index'[l].cursor = index[l].cursor, index'[l].offset = index[l].offset
  PROVE  ToVisit(l, m)'
<1>1. CASE ByOffset(l)
  <2>1. {n \in Held(l) : n > m} \subseteq {n \in Held(l)' : n > m}
    BY <1>1
  <2>2. IsFiniteSet({n \in Held(l)' : n > m})
    BY FS_Subset
  <2>3. Cardinality({n \in Held(l) : n > m}) <= Cardinality({n \in Held(l)' : n > m})
        /\ Cardinality({n \in Held(l)' : n > m}) \in Nat
    BY <2>1, <2>2, CountsMore
  <2>4. Cardinality({n \in Held(l) : n > m}) >= index[l].offset /\ index[l].offset \in Nat
    BY <1>1 DEF ToVisit, HistoryTypeOK, IndexRow
  <2>5. Cardinality({n \in Held(l)' : n > m}) >= index'[l].offset
    BY <2>3, <2>4, HistoryFinite
  <2> QED BY <1>1, <2>5 DEF ToVisit, ByOffset
<1>2. CASE ~ByOffset(l)
  BY <1>2 DEF ToVisit, ByOffset, AtTop
<1> QED BY <1>1, <1>2

LEMMA StampsMove ==
  ASSUME HistoryTypeOK, NEW l \in Listings, NEW ms \in SUBSET OldMails, NEW moved \in SUBSET ms,
         Stamps(l, ms, moved)
  PROVE  /\ member' \in [Listings -> SUBSET OldMails] /\ current' \in [Listings -> SUBSET OldMails]
         /\ \A k \in Listings, m \in OldMails :
              /\ m \in member'[k] <=> \/ m \in member[k] /\ ~(k # l /\ m \in moved /\ row[m] = k)
                                      \/ k = l /\ m \in ms
              /\ m \in current'[k] <=> \/ m \in current[k] /\ ~(k # l /\ m \in moved /\ row[m] = k)
                                       \/ k = l /\ m \in ms
<1> DEFINE stay(stamped, k) == IF k = l THEN stamped[k] \cup ms
                               ELSE {m \in stamped[k] : ~(m \in moved /\ row[m] = k)}
<1>1. member' = [k \in Listings |-> stay(member, k)] /\ current' = [k \in Listings |-> stay(current, k)]
  BY DEF Stamps
<1>2. \A k \in Listings : stay(member, k) \in SUBSET OldMails /\ stay(current, k) \in SUBSET OldMails
  BY DEF HistoryTypeOK
<1>3. member' \in [Listings -> SUBSET OldMails] /\ current' \in [Listings -> SUBSET OldMails]
  <2> HIDE DEF stay
  <2> QED BY <1>1, <1>2
<1>4. \A k \in Listings : member'[k] = stay(member, k) /\ current'[k] = stay(current, k)
  <2> HIDE DEF stay
  <2> QED BY <1>1
<1> QED BY <1>3, <1>4

(* Stamping what a listing holds: no member is lost to the index, and those
   ahead of a sweep stay ahead. *)
LEMMA StampsKeep ==
  ASSUME HistoryInv, NEW l \in Listings, NEW ms \in SUBSET Held(l), NEW moved \in SUBSET ms,
         Stamps(l, ms, moved), UNCHANGED <<account, strayed>>
  PROVE  /\ MembersAreHeld'
         /\ Indexed \subseteq Indexed' /\ ms \subseteq Indexed'
         /\ \A k \in Listings, m \in OldMails \ strayed :
              m \in member'[k] /\ account[m] = k /\ m \notin current'[k]
                => /\ m \in member[k] /\ m \notin current[k]
                   /\ k = l => m \notin ms
         /\ \A m \in OldMails : account[m] = 0 => m \notin Indexed'
<1>0. HistoryTypeOK /\ MembersAreHeld /\ UnbornIsUnknown /\ ms \in SUBSET OldMails
      /\ \A m \in ms : account[m] = l
  BY DEF HistoryInv, Held
<1>1. /\ member' \in [Listings -> SUBSET OldMails] /\ current' \in [Listings -> SUBSET OldMails]
      /\ \A k \in Listings, m \in OldMails :
              /\ m \in member'[k] <=> \/ m \in member[k] /\ ~(k # l /\ m \in moved /\ row[m] = k)
                                      \/ k = l /\ m \in ms
              /\ m \in current'[k] <=> \/ m \in current[k] /\ ~(k # l /\ m \in moved /\ row[m] = k)
                                       \/ k = l /\ m \in ms
  BY <1>0, StampsMove
<1>2. MembersAreHeld'
  <2> SUFFICES ASSUME NEW k \in Listings
               PROVE  /\ current'[k] \subseteq member'[k]
                      /\ \A m \in member'[k] \ strayed : account[m] \in {k, Deleted}
    BY DEF MembersAreHeld, Listings, Deleted
  <2>1. current[k] \subseteq member[k] /\ \A m \in member[k] \ strayed : account[m] \in {k, Deleted}
    BY <1>0 DEF MembersAreHeld
  <2>2. member'[k] \in SUBSET OldMails /\ current'[k] \in SUBSET OldMails
    BY <1>1
  <2>3. \A m \in current'[k] : m \in member'[k]
    BY <1>1, <2>1, <2>2
  <2>4. \A m \in member'[k] \ strayed : account[m] \in {k, Deleted}
    BY <1>0, <1>1, <2>1, <2>2
  <2> QED BY <2>3, <2>4
<1>3. ms \subseteq Indexed'
  <2>1. \A m \in ms : m \in member'[l]
    BY <1>0, <1>1
  <2> QED BY <2>1, InSomeListingNext
<1>4. Indexed \subseteq Indexed'
  <2> SUFFICES ASSUME NEW m \in Indexed PROVE m \in Indexed'
    OBVIOUS
  <2>1. PICK k \in Listings : m \in member[k]
    BY InSomeListing
  <2>2. m \in OldMails
    BY <1>0, <2>1 DEF HistoryTypeOK
  <2>3. m \in member'[k] \/ m \in ms
    BY <1>1, <2>1, <2>2
  <2> QED BY <1>3, <2>3, InSomeListingNext
<1>5. \A k \in Listings, m \in OldMails \ strayed :
              m \in member'[k] /\ account[m] = k /\ m \notin current'[k]
                => /\ m \in member[k] /\ m \notin current[k]
                   /\ k = l => m \notin ms
  BY <1>1
<1>6. ASSUME NEW m \in OldMails, account[m] = 0, m \in Indexed' PROVE FALSE
  <2>1. PICK k \in Listings : m \in member'[k]
    BY <1>6, InSomeListingNext
  <2>2. m \in member[k] \/ m \in ms
    BY <1>1, <2>1
  <2>3. m \notin member[k]
    BY <1>0, <1>6, InSomeListing DEF UnbornIsUnknown
  <2>4. m \notin ms
    BY <1>0, <1>6, HistoryNumbersHold
  <2> QED BY <2>2, <2>3, <2>4
<1> QED BY <1>2, <1>3, <1>4, <1>5, <1>6

(* The account, or nothing, moves; what the tables and the sweeps hold stays. *)
LEMMA AccountMovesKeep ==
  ASSUME HistoryInv, IndexStays, account' \in [OldMails -> 0..Deleted],
         strayed \subseteq strayed',
         \A m \in OldMails : account'[m] # account[m] =>
           /\ account'[m] # 0
           /\ account[m] = 0 \/ m \in strayed' \/ account'[m] = Deleted
           /\ \A n \in Held(account[m]) :
                ByOffset(account[m]) /\ account[m] # 0 => n \in strayed' \/ n = m
  PROVE  HistoryInv'
<1>0. HistoryTypeOK /\ Sweeping /\ UnbornIsUnknown /\ MembersAreHeld /\ NoneSkipped
      /\ HeldIsIndexed /\ KnownUnlessStrayed
  BY DEF HistoryInv
<1>00. UNCHANGED <<row, member, current, departed, retry, sealed, index, age, work, historyFaults>>
  BY DEF IndexStays
<1>01. Indexed' = Indexed
  BY <1>00 DEF Indexed
<1>1. HistoryTypeOK'
  BY <1>0, <1>00 DEF HistoryTypeOK
<1>2. Sweeping'
  BY <1>0, <1>00 DEF Sweeping, Listings
<1>3. UnbornIsUnknown'
  BY <1>0, <1>00, <1>01 DEF UnbornIsUnknown
<1>4. MembersAreHeld'
  <2> SUFFICES ASSUME NEW l \in Listings, NEW m \in member[l] \ strayed'
               PROVE  account'[m] \in {l, Deleted}
    BY <1>0, <1>00 DEF MembersAreHeld, Listings, Deleted
  <2>1. m \in OldMails /\ m \notin strayed /\ account[m] \in {l, Deleted}
    BY <1>0 DEF MembersAreHeld, HistoryTypeOK
  <2>2. account[m] # 0
    BY <2>1, HistoryNumbersHold
  <2> QED BY <2>1, <2>2
<1>5. NoneSkipped'
  <2> SUFFICES ASSUME NEW l \in Listings, NEW m \in OldMails \ strayed',
                      m \in member[l], account'[m] = l, m \notin current[l]
               PROVE  /\ index[l].sweeping => ToVisit(l, m)'
                      /\ work.step = "save" /\ work.listing = l => ToVisitNext(l, m)'
    BY <1>00 DEF NoneSkipped, Listings
  <2>1. account[m] = l
    <3>1. account[m] \in {l, Deleted}
      BY <1>0 DEF MembersAreHeld
    <3>2. account[m] # 0 /\ l # Deleted
      BY <3>1, HistoryNumbersHold
    <3> QED BY <3>1, <3>2
  <2>2. ByOffset(l) => {n \in Held(l) : n > m} \subseteq {n \in Held(l)' : n > m}
    <3> SUFFICES ASSUME ByOffset(l), NEW n \in Held(l), n > m PROVE n \in Held(l)'
      OBVIOUS
    <3>1. n \in OldMails /\ account[n] = l /\ l # 0
      BY HistoryNumbersHold DEF Held
    <3>2. m \in Held(l)
      BY <2>1 DEF Held
    <3>3. m # n
      <4>1. m \in Nat /\ n \in Nat
        BY <3>1, <3>2, HistoryFinite
      <4> QED BY <4>1
    <3>4. account'[n] = account[n]
      BY <2>1, <3>1, <3>2, <3>3
    <3> QED BY <3>1, <3>4 DEF Held
  <2>3. IsFiniteSet(Held(l)') /\ Held(l)' \subseteq OldMails
    <3>1. Held(l)' \in SUBSET OldMails /\ IsFiniteSet(OldMails)
      BY HistoryConstantsHold DEF Held, HistoryConstants, HistoryNumbers
    <3> QED BY <3>1, FS_Subset
  <2>4. index[l].sweeping => ToVisit(l, m)'
    <3> SUFFICES ASSUME index[l].sweeping PROVE ToVisit(l, m)'
      OBVIOUS
    <3>1. ToVisit(l, m)
      BY <1>0, <2>1 DEF NoneSkipped
    <3> QED BY <1>0, <1>00, <2>2, <2>3, <3>1, AheadStays
  <2>5. ASSUME work.step = "save", work.listing = l PROVE ToVisitNext(l, m)'
    <3>1. ToVisitNext(l, m)
      BY <1>0, <2>1, <2>5 DEF NoneSkipped
    <3>2. CASE ByOffset(l)
      <4>1. Cardinality({n \in Held(l) : n > m}) >= index[l].offset + work.items
        BY <3>1, <3>2 DEF ToVisitNext
      <4>2. Cardinality({n \in Held(l) : n > m}) <= Cardinality({n \in Held(l)' : n > m})
            /\ Cardinality({n \in Held(l)' : n > m}) \in Nat
        <5>1. IsFiniteSet({n \in Held(l)' : n > m})
          BY <2>3, FS_Subset
        <5> QED BY <2>2, <3>2, <5>1, CountsMore
      <4>3. index[l].offset \in Nat /\ work.items \in Nat
        BY <1>0 DEF HistoryTypeOK, IndexRow, WorkRow
      <4>4. Cardinality({n \in Held(l)' : n > m}) >= index[l].offset + work.items
        BY <4>1, <4>2, <4>3, HistoryFinite
      <4> QED BY <1>00, <3>1, <3>2, <4>4 DEF ToVisitNext, ByOffset
    <3>3. CASE ~ByOffset(l)
      BY <1>00, <3>1, <3>3 DEF ToVisitNext, ByOffset, AtTop
    <3> QED BY <3>2, <3>3
  <2> QED BY <2>4, <2>5
<1>6. HeldIsIndexed'
  <2> SUFFICES ASSUME NEW m \in OldMails \ strayed', account'[m] \in Listings,
                      m \in departed \/ retry[m].listing # 0
               PROVE  m \in Indexed
    BY <1>00, <1>01 DEF HeldIsIndexed, Listings
  <2>1. account[m] # 0
    BY <1>0 DEF UnbornIsUnknown
  <2>2. account'[m] = account[m]
    BY <2>1, HistoryNumbersHold
  <2> QED BY <1>0, <2>2 DEF HeldIsIndexed
<1>7. KnownUnlessStrayed'
  BY <1>0, <1>00, <1>01 DEF KnownUnlessStrayed
<1> QED BY <1>1, <1>2, <1>3, <1>4, <1>5, <1>6, <1>7 DEF HistoryInv

LEMMA MailArrivesKeeps ==
  ASSUME HistoryInv, NEW m \in OldMails, NEW l \in Listings, MailArrives(m, l)
  PROVE  HistoryInv'
<1>0. account \in [OldMails -> 0..Deleted]
  BY DEF HistoryInv, HistoryTypeOK
<1>1. account' = [account EXCEPT ![m] = l] /\ account[m] = 0 /\ strayed' = strayed /\ IndexStays
  BY DEF MailArrives
<1>2. account' \in [OldMails -> 0..Deleted] /\ l # 0
  BY <1>0, <1>1, HistoryNumbersHold
<1>3. \A n \in OldMails : account'[n] # account[n] => n = m /\ account'[n] = l
  BY <1>0, <1>1
<1> QED BY <1>1, <1>2, <1>3, AccountMovesKeep

LEMMA MailMovesKeeps ==
  ASSUME HistoryInv, NEW m \in OldMails, NEW l \in Listings, MailMoves(m, l)
  PROVE  HistoryInv'
<1>0. account \in [OldMails -> 0..Deleted]
  BY DEF HistoryInv, HistoryTypeOK
<1>1. account' = [account EXCEPT ![m] = l] /\ Strays(m) /\ IndexStays
  BY DEF MailMoves
<1>2. account' \in [OldMails -> 0..Deleted] /\ l # 0
  BY <1>0, <1>1, HistoryNumbersHold
<1>3. \A n \in OldMails : account'[n] # account[n] => n = m /\ account'[n] = l
  BY <1>0, <1>1
<1>4. /\ strayed \subseteq strayed' /\ m \in strayed'
      /\ ByOffset(account[m]) => Held(account[m]) \subseteq strayed'
  BY <1>1 DEF Strays
<1> QED BY <1>1, <1>2, <1>3, <1>4, AccountMovesKeep

LEMMA MailDeletedKeeps ==
  ASSUME HistoryInv, NEW m \in OldMails, MailDeleted(m)
  PROVE  HistoryInv'
<1>0. account \in [OldMails -> 0..Deleted]
  BY DEF HistoryInv, HistoryTypeOK
<1>1. account' = [account EXCEPT ![m] = Deleted] /\ IndexStays
  BY DEF MailDeleted
<1>2. account' \in [OldMails -> 0..Deleted] /\ Deleted # 0
  BY <1>0, <1>1, HistoryNumbersHold
<1>3. \A n \in OldMails : account'[n] # account[n] => n = m /\ account'[n] = Deleted
  BY <1>0, <1>1
<1>4. /\ strayed \subseteq strayed'
      /\ ByOffset(account[m]) => \A n \in Held(account[m]) : n \in strayed' \/ n = m
  BY DEF MailDeleted
<1> QED BY <1>1, <1>2, <1>3, <1>4, AccountMovesKeep

-----------------------------------------------------------------------------
(* The steps of a pass and of a sweep. *)

LEMMA HistoryParts ==
  ASSUME HistoryInv
  PROVE  /\ HistoryTypeOK /\ Sweeping /\ UnbornIsUnknown /\ MembersAreHeld /\ NoneSkipped
         /\ HeldIsIndexed /\ KnownUnlessStrayed
BY DEF HistoryInv

LEMMA SameAhead ==
  ASSUME account' = account, NEW l \in Listings, NEW m \in OldMails,
         index'[l].cursor = index[l].cursor, index'[l].offset = index[l].offset
  PROVE  ToVisit(l, m)' <=> ToVisit(l, m)
<1>1. Held(l)' = Held(l)
  BY DEF Held
<1> QED BY <1>1 DEF ToVisit, ByOffset, AtTop

(* Nothing that the parts read moves, but for when a retry falls due. *)
LEMMA QuietKeeps ==
  ASSUME HistoryInv, UNCHANGED <<account, row, member, current, departed, index, work>>,
         strayed \subseteq strayed', retry' \in [OldMails -> RetryRow],
         \A m \in OldMails : retry'[m].listing = retry[m].listing
  PROVE  HistoryInv'
<1>1. Indexed' = Indexed
  BY DEF Indexed
<1>2. HistoryTypeOK' /\ Sweeping' /\ UnbornIsUnknown' /\ KnownUnlessStrayed'
  BY <1>1, HistoryParts DEF HistoryTypeOK, Sweeping, UnbornIsUnknown, KnownUnlessStrayed, Listings, Deleted
<1>3. MembersAreHeld' /\ HeldIsIndexed'
  BY <1>1, HistoryParts DEF MembersAreHeld, HeldIsIndexed, Listings, Deleted
<1>4. NoneSkipped'
  <2>1. \A l, m : (ToVisit(l, m)' <=> ToVisit(l, m)) /\ (ToVisitNext(l, m)' <=> ToVisitNext(l, m))
    BY DEF ToVisit, ToVisitNext, Held, ByOffset, AtTop
  <2> QED BY <2>1, HistoryParts DEF NoneSkipped, Listings
<1> QED BY <1>2, <1>3, <1>4 DEF HistoryInv

LEMMA TimePassesKeeps ==
  ASSUME HistoryInv, NEW from, NEW to, TimePasses(from, to)
  PROVE  HistoryInv'
<1>1. UNCHANGED <<account, row, member, current, departed, index, work, strayed, retry>>
  BY DEF TimePasses, RowsStay
<1>2. retry' \in [OldMails -> RetryRow]
  BY <1>1, HistoryParts DEF HistoryTypeOK
<1> QED BY <1>1, <1>2, QuietKeeps

LEMMA KeysArriveKeeps ==
  ASSUME HistoryInv, KeysArrive
  PROVE  HistoryInv'
<1>1. UNCHANGED <<account, row, member, current, departed, index, work, strayed, retry>>
  BY DEF KeysArrive
<1>2. retry' \in [OldMails -> RetryRow]
  BY <1>1, HistoryParts DEF HistoryTypeOK
<1> QED BY <1>1, <1>2, QuietKeeps

LEMMA RetryFallsDueKeeps ==
  ASSUME HistoryInv, NEW m \in OldMails, RetryFallsDue(m)
  PROVE  HistoryInv'
<1>1. UNCHANGED <<account, row, member, current, departed, index, work, strayed>>
      /\ retry' = [retry EXCEPT ![m].due = TRUE]
  BY DEF RetryFallsDue
<1>2. retry \in [OldMails -> RetryRow]
  BY HistoryParts DEF HistoryTypeOK
<1>3. retry' \in [OldMails -> RetryRow] /\ \A n \in OldMails : retry'[n].listing = retry[n].listing
  BY <1>1, <1>2 DEF RetryRow
<1> QED BY <1>1, <1>3, QuietKeeps

LEMMA PassStampsKeeps ==
  ASSUME HistoryInv, NEW l \in Listings, PassStamps(l)
  PROVE  HistoryInv'
<1>0. HistoryTypeOK /\ Sweeping /\ UnbornIsUnknown /\ MembersAreHeld /\ NoneSkipped
      /\ HeldIsIndexed /\ KnownUnlessStrayed
  BY HistoryParts
<1>1. /\ Stamps(l, Top(l), RowElsewhere(l, Top(l))) /\ UNCHANGED <<account, strayed, departed, retry, work>>
      /\ row' = [m \in OldMails |-> IF m \in Top(l) \ sealed THEN l ELSE row[m]]
      /\ work.step = "none"
  BY DEF PassStamps
<1>2. index' \in [Listings -> IndexRow]
      /\ \A k \in Listings : /\ index'[k].sweeping = index[k].sweeping
                             /\ index'[k].cursor = index[k].cursor /\ index'[k].offset = index[k].offset
  <2>1. index \in [Listings -> IndexRow]
    BY <1>0 DEF HistoryTypeOK
  <2>2. PICK b \in BOOLEAN : index' = index \/ index' = [index EXCEPT ![l].drift = b]
    BY DEF PassStamps
  <2> QED BY <2>1, <2>2 DEF IndexRow
<1>3. Top(l) \in SUBSET Held(l) /\ RowElsewhere(l, Top(l)) \in SUBSET Top(l)
  BY DEF Top, RowElsewhere
<1>4. /\ MembersAreHeld'
      /\ Indexed \subseteq Indexed' /\ Top(l) \subseteq Indexed'
      /\ \A k \in Listings, m \in OldMails \ strayed :
              m \in member'[k] /\ account[m] = k /\ m \notin current'[k]
                => m \in member[k] /\ m \notin current[k]
      /\ \A m \in OldMails : account[m] = 0 => m \notin Indexed'
  <2> DEFINE ms == Top(l)
             moved == RowElsewhere(l, ms)
  <2>1. ms \in SUBSET Held(l) /\ moved \in SUBSET ms /\ Stamps(l, ms, moved)
        /\ UNCHANGED <<account, strayed>>
    BY <1>1, <1>3
  <2> HIDE DEF ms, moved
  <2>2. /\ MembersAreHeld'
        /\ Indexed \subseteq Indexed' /\ ms \subseteq Indexed'
        /\ \A k \in Listings, m \in OldMails \ strayed :
              m \in member'[k] /\ account[m] = k /\ m \notin current'[k]
                => m \in member[k] /\ m \notin current[k]
        /\ \A m \in OldMails : account[m] = 0 => m \notin Indexed'
    BY <2>1, StampsKeep
  <2>3. Top(l) \subseteq Indexed'
    BY <2>2 DEF ms
  <2> QED BY <2>2, <2>3
<1>5. HistoryTypeOK'
  <2>1. member' \in [Listings -> SUBSET OldMails] /\ current' \in [Listings -> SUBSET OldMails]
    <3> DEFINE ms == Top(l)
               moved == RowElsewhere(l, ms)
    <3>1. ms \in SUBSET OldMails /\ moved \in SUBSET ms /\ Stamps(l, ms, moved)
      BY <1>1, <1>3 DEF Held
    <3> HIDE DEF ms, moved
    <3> QED BY <1>0, <3>1, StampsMove
  <2>2. row' \in [OldMails -> 0..LastListing]
    BY <1>0, <1>1, HistoryNumbersHold DEF HistoryTypeOK
  <2> QED BY <1>0, <1>1, <1>2, <2>1, <2>2 DEF HistoryTypeOK, Listings, Deleted
<1>6. Sweeping'
  BY <1>1 DEF Sweeping
<1>7. UnbornIsUnknown'
  <2>1. \A m \in OldMails : account[m] = 0 => m \notin Top(l)
    BY <1>3, HistoryNumbersHold DEF Held
  <2> QED BY <1>0, <1>1, <1>4, <2>1 DEF UnbornIsUnknown
<1>8. NoneSkipped'
  <2> SUFFICES ASSUME NEW k \in Listings, NEW m \in OldMails \ strayed,
                      m \in member'[k], account[m] = k, m \notin current'[k], index'[k].sweeping
               PROVE  ToVisit(k, m)'
    BY <1>1 DEF NoneSkipped, Listings
  <2>1. ToVisit(k, m)
    BY <1>0, <1>2, <1>4 DEF NoneSkipped
  <2> QED BY <1>1, <1>2, <2>1, SameAhead
<1>9. HeldIsIndexed'
  BY <1>0, <1>1, <1>4 DEF HeldIsIndexed, Listings
<1>10. KnownUnlessStrayed'
  BY <1>0, <1>1, <1>4 DEF KnownUnlessStrayed
<1> QED BY <1>4, <1>5, <1>6, <1>7, <1>8, <1>9, <1>10 DEF HistoryInv

LEMMA RetriesOneKeeps ==
  ASSUME HistoryInv, NEW m \in OldMails, RetriesOne(m)
  PROVE  HistoryInv'
<1>0. HistoryTypeOK /\ Sweeping /\ UnbornIsUnknown /\ MembersAreHeld /\ NoneSkipped
      /\ HeldIsIndexed /\ KnownUnlessStrayed
  BY HistoryParts
<1>1. UNCHANGED <<account, member, current, departed, index, work, strayed>> /\ Indexed' = Indexed
  BY DEF RetriesOne, Indexed
<1>2. retry \in [OldMails -> RetryRow] /\ row \in [OldMails -> 0..LastListing]
  BY <1>0 DEF HistoryTypeOK
<1>3. CASE account[m] \in Listings /\ m \in sealed
  <2>1. retry' = [retry EXCEPT ![m] = Noted(m, retry[m].listing)] /\ row' = row
    BY <1>3 DEF RetriesOne
  <2>2. Noted(m, retry[m].listing) \in RetryRow /\ Noted(m, retry[m].listing).listing = retry[m].listing
    BY <1>2 DEF Noted, RetryRow
  <2>3. retry' \in [OldMails -> RetryRow] /\ \A n \in OldMails : retry'[n].listing = retry[n].listing
    BY <1>2, <2>1, <2>2
  <2> QED BY <1>1, <2>1, <2>3, QuietKeeps
<1>4. CASE ~(account[m] \in Listings /\ m \in sealed)
  <2>1. /\ retry' = [retry EXCEPT ![m] = NoRetry]
        /\ row' = [row EXCEPT ![m] = IF account[m] \in Listings THEN retry[m].listing ELSE row[m]]
    BY <1>4 DEF RetriesOne
  <2>2. NoRetry \in RetryRow /\ NoRetry.listing = 0
    BY HistoryNumbersHold DEF NoRetry, RetryRow
  <2>3. retry' \in [OldMails -> RetryRow] /\ row' \in [OldMails -> 0..LastListing]
    <3>1. retry[m].listing \in 0..LastListing
      BY <1>2 DEF RetryRow
    <3> QED BY <1>2, <2>1, <2>2, <3>1
  <2>4. \A n \in OldMails : /\ retry'[n].listing = retry[n].listing \/ retry'[n].listing = 0
                            /\ row'[n] = row[n] \/ (n = m /\ account[n] \in Listings
                                                      /\ row'[n] = retry[n].listing)
    BY <1>2, <2>1, <2>2
  <2>5. HistoryTypeOK' /\ Sweeping'
    BY <1>0, <1>1, <2>3 DEF HistoryTypeOK, Sweeping, Listings, Deleted
  <2>6. UnbornIsUnknown'
    BY <1>0, <1>1, <2>4, HistoryNumbersHold DEF UnbornIsUnknown
  <2>7. MembersAreHeld'
    BY <1>0, <1>1 DEF MembersAreHeld, Listings, Deleted
  <2>8. NoneSkipped'
    <3>1. \A l, n : (ToVisit(l, n)' <=> ToVisit(l, n)) /\ (ToVisitNext(l, n)' <=> ToVisitNext(l, n))
      BY <1>1 DEF ToVisit, ToVisitNext, Held, ByOffset, AtTop
    <3> QED BY <1>0, <1>1, <3>1 DEF NoneSkipped, Listings
  <2>9. HeldIsIndexed'
    BY <1>0, <1>1, <2>4 DEF HeldIsIndexed, Listings
  <2>10. KnownUnlessStrayed'
    BY <1>0, <1>1, <2>4 DEF KnownUnlessStrayed, HeldIsIndexed
  <2> QED BY <2>5, <2>6, <2>7, <2>8, <2>9, <2>10 DEF HistoryInv
<1> QED BY <1>3, <1>4

LEMMA LeastOne ==
  ASSUME NEW S \in SUBSET Nat, S # {}
  PROVE  Least(S) \in S /\ \A n \in S : Least(S) <= n
<1>1. \E m \in S : \A n \in S : m <= n
  BY LeastNumber
<1> QED BY <1>1 DEF Least

LEMMA SweepBeginsKeeps ==
  ASSUME HistoryInv, SweepBegins
  PROVE  HistoryInv'
<1>0. HistoryTypeOK /\ Sweeping /\ UnbornIsUnknown /\ MembersAreHeld /\ NoneSkipped
      /\ HeldIsIndexed /\ KnownUnlessStrayed
  BY HistoryParts
<1> DEFINE l == Least(Wanting)
<1>1. UNCHANGED <<account, row, member, departed, retry, strayed>> /\ Indexed' = Indexed
      /\ work' = [NoWork EXCEPT !.step = "light", !.listing = l]
  BY DEF SweepBegins, Indexed
<1>2. l \in Listings
  <2>1. Wanting \in SUBSET Nat /\ Wanting # {} /\ Wanting \subseteq Listings
    BY HistoryNumbersHold DEF SweepBegins, Wanting
  <2> QED BY <2>1, LeastOne
<1>3. index \in [Listings -> IndexRow] /\ current \in [Listings -> SUBSET OldMails]
  BY <1>0 DEF HistoryTypeOK
<1> DEFINE begun == [NewIndex EXCEPT !.sweeping = TRUE, !.total_offset = index[l].total_offset,
                                     !.incomplete = index[l].incomplete]
<1>4. \/ index[l].sweeping /\ index' = index /\ current' = current
      \/ index' = [index EXCEPT ![l] = begun] /\ current' = [current EXCEPT ![l] = {}]
  BY DEF SweepBegins
<1>5. begun \in IndexRow /\ begun.sweeping /\ begun.cursor = AtTop /\ begun.offset = 0
  BY <1>2, <1>3 DEF IndexRow, NewIndex, AtTop
<1> HIDE DEF begun, l
<1>6. index' \in [Listings -> IndexRow] /\ current' \in [Listings -> SUBSET OldMails]
      /\ index'[l].sweeping
  BY <1>2, <1>3, <1>4, <1>5
<1>7. work' \in WorkRow /\ work'.step = "light" /\ work'.listing = l
  <2>1. work' = [step |-> "light", listing |-> l, last |-> 0, items |-> 0, total |-> 0, more |-> FALSE]
    BY <1>1 DEF NoWork, AtTop
  <2>2. l \in 0..LastListing /\ "light" \in Steps
    BY <1>2, HistoryNumbersHold DEF Steps
  <2> QED BY <2>1, <2>2 DEF WorkRow
<1>8. HistoryTypeOK'
  BY <1>0, <1>1, <1>6, <1>7 DEF HistoryTypeOK, Listings, Deleted
<1>9. Sweeping'
  BY <1>2, <1>6, <1>7 DEF Sweeping, Listings
<1>10. UnbornIsUnknown' /\ HeldIsIndexed' /\ KnownUnlessStrayed'
  BY <1>0, <1>1 DEF UnbornIsUnknown, HeldIsIndexed, KnownUnlessStrayed, Listings
<1>11. \A k \in Listings : current'[k] \in SUBSET current[k]
  BY <1>3, <1>4
<1>12. MembersAreHeld'
  BY <1>0, <1>1, <1>11 DEF MembersAreHeld, Listings, Deleted
<1>13. NoneSkipped'
  <2> SUFFICES ASSUME NEW k \in Listings, NEW m \in OldMails \ strayed,
                      m \in member[k], account[m] = k, m \notin current'[k], index'[k].sweeping
               PROVE  ToVisit(k, m)'
    BY <1>1, <1>7 DEF NoneSkipped, Listings
  <2>1. CASE index'[k] = index[k] /\ current'[k] = current[k]
    <3>1. ToVisit(k, m)
      BY <1>0, <2>1 DEF NoneSkipped
    <3> QED BY <1>1, <2>1, <3>1, SameAhead
  <2>2. CASE k = l /\ index'[k] = begun
    <3>1. Held(k)' = Held(k)
      BY <1>1 DEF Held
    <3>2. Cardinality({n \in Held(k) : n > m}) \in Nat
      BY HistoryFinite
    <3>3. Cardinality({n \in Held(k)' : n > m}) >= 0
      BY <3>1, <3>2
    <3> QED BY <1>5, <2>2, <3>3 DEF ToVisit, AtTop
  <2> QED BY <1>2, <1>3, <1>4, <2>1, <2>2
<1> QED BY <1>8, <1>9, <1>10, <1>12, <1>13 DEF HistoryInv

(* What a page leaves of a listing is older than the page, and behind the offset
   that is saved with it. *)
LEMMA LeftForNextPage ==
  ASSUME HistoryTypeOK, NEW l \in Listings, NEW m \in Behind(l) \ PageFrom(l),
         ToVisit(l, m), NEW w, w.more, w.items = Cardinality(PageFrom(l)),
         w.last = IF PageFrom(l) = {} THEN index[l].cursor ELSE Least(PageFrom(l))
  PROVE  IF ByOffset(l) THEN Cardinality({n \in Held(l) : n > m}) >= index[l].offset + w.items
         ELSE w.last = AtTop \/ m < w.last
<1>0. PageItems \in Nat
  BY HistoryConstantsHold DEF HistoryConstants, HistoryBounds
<1>1. Behind(l) \in SUBSET Held(l) /\ PageFrom(l) \in SUBSET Behind(l) /\ m \in Held(l)
  BY DEF Behind, PageFrom
<1>2. Behind(l) \in SUBSET Nat /\ IsFiniteSet(Behind(l)) /\ PageFrom(l) \in SUBSET Held(l)
      /\ PageFrom(l) \in SUBSET Nat
  BY <1>1, HistoryFinite, FS_Subset
<1>3. \A r \in PageFrom(l) : m < r
  <2>1. PageFrom(l) = {b \in Behind(l) : Cardinality({n \in Behind(l) : n > b}) < PageItems}
    BY DEF PageFrom
  <2> QED BY <1>0, <1>2, <2>1, PageIsNewest
<1>4. CASE ~ByOffset(l)
  <2>1. CASE PageFrom(l) = {}
    BY <1>4, <2>1 DEF ToVisit
  <2>2. CASE PageFrom(l) # {}
    BY <1>2, <1>3, <1>4, <2>2, LeastOne
  <2> QED BY <2>1, <2>2
<1>5. CASE ByOffset(l)
  <2>1. index[l].offset \in Nat
    BY DEF HistoryTypeOK, IndexRow
  <2>2. \A r \in PageFrom(l) : Cardinality({n \in Held(l) : n > r}) >= index[l].offset
    BY <1>1, <1>5 DEF Behind
  <2>3. Cardinality({n \in Held(l) : n > m}) >= index[l].offset
    BY <1>5 DEF ToVisit
  <2>4. Cardinality({n \in Held(l) : n > m}) >= index[l].offset + Cardinality(PageFrom(l))
    BY <1>1, <1>2, <1>3, <2>1, <2>2, <2>3, HistoryFinite, BehindThePage
  <2> QED BY <1>5, <2>4
<1> QED BY <1>4, <1>5

LEMMA IndexesPageKeeps ==
  ASSUME HistoryInv, IndexesPage
  PROVE  HistoryInv'
<1>0. HistoryTypeOK /\ Sweeping /\ UnbornIsUnknown /\ MembersAreHeld /\ NoneSkipped
      /\ HeldIsIndexed /\ KnownUnlessStrayed
  BY HistoryParts
<1> DEFINE l == work.listing
           raw == PageFrom(l)
           ms == Takes(l, raw)
           missing == {m \in ms : row[m] # l}
           cached == IF work.step = "light" THEN ms \ missing ELSE ms \ sealed
           again == work.step = "light" /\ missing # {}
           moved == IF ByOffset(l) THEN {} ELSE RowElsewhere(l, raw)
           saves == [step |-> "save", listing |-> l, items |-> Cardinality(raw),
                     last |-> IF raw = {} THEN index[l].cursor ELSE Least(raw),
                     total |-> Cardinality(Held(l)), more |-> Behind(l) # raw]
<1>1. /\ Stamps(l, raw, moved) /\ UNCHANGED <<account, strayed, departed, index>>
      /\ row' = [m \in OldMails |-> IF m \in cached THEN l ELSE row[m]]
      /\ retry' = [m \in OldMails |->
             IF work.step = "full" /\ m \in ms \cap sealed THEN Noted(m, l) ELSE retry[m]]
      /\ work' = IF again THEN [work EXCEPT !.step = "full"] ELSE saves
  BY DEF IndexesPage
<1>2. l \in Listings /\ index[l].sweeping /\ l \in 0..LastListing
  <2>1. l \in Listings /\ index[l].sweeping
    BY <1>0 DEF IndexesPage, Sweeping
  <2> QED BY <2>1, HistoryNumbersHold
<1>3. raw \in SUBSET Held(l) /\ moved \in SUBSET raw /\ ms \in SUBSET raw /\ cached \in SUBSET ms
      /\ raw \in SUBSET Nat /\ raw \in SUBSET OldMails /\ IsFiniteSet(raw)
  <2>1. raw \in SUBSET Held(l)
    BY DEF PageFrom, Behind
  <2>2. moved \in SUBSET raw /\ ms \in SUBSET raw /\ cached \in SUBSET ms
    BY DEF RowElsewhere, Takes
  <2>3. raw \in SUBSET Nat /\ raw \in SUBSET OldMails /\ IsFiniteSet(raw)
    BY <2>1, HistoryFinite, FS_Subset
  <2> QED BY <2>1, <2>2, <2>3
<1>4. /\ member' \in [Listings -> SUBSET OldMails] /\ current' \in [Listings -> SUBSET OldMails]
  <2> HIDE DEF l, raw, moved
  <2> QED BY <1>0, <1>1, <1>2, <1>3, StampsMove
<1>5. /\ MembersAreHeld'
      /\ Indexed \subseteq Indexed' /\ raw \subseteq Indexed'
      /\ \A k \in Listings, m \in OldMails \ strayed :
              m \in member'[k] /\ account[m] = k /\ m \notin current'[k]
                => /\ m \in member[k] /\ m \notin current[k]
                   /\ k = l => m \notin raw
      /\ \A m \in OldMails : account[m] = 0 => m \notin Indexed'
  <2> HIDE DEF l, raw, moved
  <2> QED BY <1>1, <1>2, <1>3, StampsKeep
<1>6. saves \in WorkRow
  <2>1. Cardinality(raw) \in Nat /\ Cardinality(Held(l)) \in Int
    <3>1. Cardinality(raw) \in Nat /\ Cardinality(Held(l)) \in Nat
      BY <1>3, HistoryFinite, FS_CardinalityType
    <3> QED BY <3>1
  <2>2. (IF raw = {} THEN index[l].cursor ELSE Least(raw)) \in Nat
    <3>1. index[l].cursor \in Nat
      BY <1>0, <1>2 DEF HistoryTypeOK, IndexRow
    <3>2. raw # {} => Least(raw) \in Nat
      BY <1>3, LeastOne
    <3> QED BY <3>1, <3>2
  <2>3. (Behind(l) # raw) \in BOOLEAN /\ "save" \in Steps
    BY DEF Steps
  <2> HIDE DEF raw, l
  <2> QED BY <1>2, <2>1, <2>2, <2>3 DEF WorkRow
<1>7. /\ work' \in WorkRow /\ work'.listing = l
      /\ work'.step = "save" => work' = saves
  <2>1. work \in WorkRow
    BY <1>0 DEF HistoryTypeOK
  <2>2. saves.listing = l
    OBVIOUS
  <2>3. CASE again
    <3>1. work' = [work EXCEPT !.step = "full"]
      BY <1>1, <2>3
    <3> QED BY <2>1, <3>1 DEF WorkRow, Steps
  <2>4. CASE ~again
    <3>1. work' = saves
      BY <1>1, <2>4
    <3> HIDE DEF saves
    <3> QED BY <1>6, <2>2, <3>1
  <2> QED BY <2>3, <2>4
<1>8. row' \in [OldMails -> 0..LastListing] /\ retry' \in [OldMails -> RetryRow]
  <2>1. row' \in [OldMails -> 0..LastListing]
    <3> HIDE DEF cached, l
    <3> QED BY <1>0, <1>1, <1>2 DEF HistoryTypeOK
  <2>2. \A m \in OldMails : retry[m] \in RetryRow /\ Noted(m, l) \in RetryRow
    <3>1. \A m \in OldMails : retry[m] \in RetryRow
      BY <1>0 DEF HistoryTypeOK
    <3> HIDE DEF l
    <3> QED BY <1>2, <3>1 DEF Noted, RetryRow
  <2>3. retry' \in [OldMails -> RetryRow]
    <3> HIDE DEF ms, l
    <3> QED BY <1>1, <2>2
  <2> QED BY <2>1, <2>3
<1>9. \A m \in OldMails : /\ row'[m] = row[m] \/ m \in raw
                          /\ retry'[m] = retry[m] \/ m \in raw
  BY <1>1, <1>3
<1>10. HistoryTypeOK'
  <2>1. UNCHANGED <<account, departed, index>> /\ work' \in WorkRow
    <3> HIDE DEF l, saves, again, raw, ms, moved, cached, missing
    <3> QED BY <1>1, <1>7
  <2> QED BY <1>0, <1>4, <1>8, <2>1 DEF HistoryTypeOK, Listings, Deleted
<1>11. Sweeping'
  BY <1>1, <1>2, <1>7 DEF Sweeping, Listings
<1>12. \A m \in raw : account[m] = l /\ account[m] # 0
  BY <1>2, <1>3, HistoryNumbersHold DEF Held
<1>13. UnbornIsUnknown'
  <2> HIDE DEF raw, l
  <2> QED BY <1>0, <1>1, <1>5, <1>9, <1>12 DEF UnbornIsUnknown
<1>14. HeldIsIndexed'
  <2> HIDE DEF raw, l
  <2> QED BY <1>0, <1>1, <1>5, <1>9 DEF HeldIsIndexed, Listings
<1>15. KnownUnlessStrayed'
  <2> HIDE DEF raw, l
  <2> QED BY <1>0, <1>1, <1>5, <1>9 DEF KnownUnlessStrayed
<1>16. NoneSkipped'
  <2> SUFFICES ASSUME NEW k \in Listings, NEW m \in OldMails \ strayed,
                      m \in member'[k], account[m] = k, m \notin current'[k]
               PROVE  /\ index[k].sweeping => ToVisit(k, m)'
                      /\ work'.step = "save" /\ work'.listing = k => ToVisitNext(k, m)'
    BY <1>1 DEF NoneSkipped, Listings
  <2>1. m \in member[k] /\ m \notin current[k] /\ (k = l => m \notin raw)
    <3> HIDE DEF raw, l
    <3> QED BY <1>5
  <2>2. index[k].sweeping => ToVisit(k, m)
    BY <1>0, <2>1 DEF NoneSkipped
  <2>3. index[k].sweeping => ToVisit(k, m)'
    BY <1>1, <2>2, SameAhead
  <2>4. ASSUME work'.step = "save", work'.listing = k PROVE ToVisitNext(k, m)'
    <3>1. k = l /\ work' = saves /\ m \notin raw
      <4> HIDE DEF saves, raw, l
      <4> QED BY <1>7, <2>1, <2>4
    <3>2. ToVisit(l, m) /\ m \in Held(l)
      BY <1>2, <2>2, <3>1 DEF Held
    <3>3. m \in Behind(l)
      BY <3>2 DEF ToVisit, Behind
    <3>4. saves.more /\ saves.items = Cardinality(PageFrom(l))
          /\ saves.last = IF PageFrom(l) = {} THEN index[l].cursor ELSE Least(PageFrom(l))
      BY <3>1, <3>3
    <3>5. IF ByOffset(l) THEN Cardinality({n \in Held(l) : n > m}) >= index[l].offset + saves.items
         ELSE saves.last = AtTop \/ m < saves.last
      <4> HIDE DEF saves
      <4> QED BY <1>0, <1>2, <3>1, <3>2, <3>3, <3>4, LeftForNextPage
    <3>6. Held(k)' = Held(k)
      BY <1>1 DEF Held
    <3> HIDE DEF saves, l
    <3> QED BY <1>1, <3>1, <3>4, <3>5, <3>6 DEF ToVisitNext, ByOffset, AtTop
  <2> QED BY <2>3, <2>4
<1> QED BY <1>5, <1>10, <1>11, <1>13, <1>14, <1>15, <1>16 DEF HistoryInv

(* The end of a round: what it did not stamp is no member any more, and queued
   unless another listing has it. *)
LEMMA RoundEndKeeps ==
  ASSUME HistoryInv, NEW l \in Listings, FinishesSweep(l), ~work.more,
         work.step = "save", work.listing = l,
         UNCHANGED <<account, row, current, retry, strayed>>
  PROVE  /\ departed' \in SUBSET OldMails /\ member' \in [Listings -> SUBSET OldMails]
         /\ UnbornIsUnknown' /\ MembersAreHeld' /\ HeldIsIndexed' /\ KnownUnlessStrayed'
         /\ \A k \in Listings : member'[k] \subseteq member[k] /\ member'[l] = current[l]
<1>0. HistoryTypeOK /\ Sweeping /\ UnbornIsUnknown /\ MembersAreHeld /\ NoneSkipped
      /\ HeldIsIndexed /\ KnownUnlessStrayed
  BY HistoryParts
<1>1. departed' = departed \cup Departing(l) /\ member' = [member EXCEPT ![l] = current[l]]
  BY DEF FinishesSweep
<1>2. /\ member' \in [Listings -> SUBSET OldMails]
      /\ \A k \in Listings : member'[k] = IF k = l THEN current[k] ELSE member[k]
  BY <1>0, <1>1 DEF HistoryTypeOK
<1>3. Departing(l) \subseteq member[l] /\ departed' \in SUBSET OldMails
  BY <1>0, <1>1 DEF Departing, HistoryTypeOK
<1>4. \A k \in Listings : member'[k] \subseteq member[k] /\ current[k] \subseteq member[k]
  BY <1>0, <1>2 DEF MembersAreHeld
<1>5. Indexed' \subseteq Indexed
  BY <1>4, InSomeListing, InSomeListingNext
<1>6. UnbornIsUnknown'
  <2>1. \A m \in departed' : m \in departed \/ m \in Indexed
    BY <1>1, <1>3, InSomeListing
  <2> QED BY <1>0, <1>5, <2>1 DEF UnbornIsUnknown
<1>7. MembersAreHeld'
  BY <1>0, <1>2, <1>4 DEF MembersAreHeld, Listings, Deleted
<1>8. ASSUME NEW m \in OldMails \ strayed, m \in member[l], m \notin current[l]
      PROVE  account[m] \notin Listings
  <2> SUFFICES ASSUME account[m] \in Listings PROVE FALSE
    OBVIOUS
  <2>1. account[m] = l
    BY <1>0, <1>8, HistoryNumbersHold DEF MembersAreHeld
  <2>2. ToVisitNext(l, m)
    BY <1>0, <1>8, <2>1 DEF NoneSkipped
  <2> QED BY <2>2 DEF ToVisitNext
<1>9. HeldIsIndexed'
  <2> SUFFICES ASSUME NEW m \in OldMails \ strayed, account[m] \in Listings,
                      m \in departed' \/ retry[m].listing # 0
               PROVE  m \in Indexed'
    BY DEF HeldIsIndexed, Listings
  <2>1. m \in departed \/ retry[m].listing # 0
    BY <1>1, <1>8 DEF Departing
  <2>2. m \in Indexed
    BY <1>0, <2>1 DEF HeldIsIndexed
  <2>3. PICK k \in Listings : m \in member[k]
    BY <2>2, InSomeListing
  <2>4. m \in member'[k]
    BY <1>2, <1>8, <2>3
  <2> QED BY <2>4, InSomeListingNext
<1>10. KnownUnlessStrayed'
  <2> SUFFICES ASSUME NEW m \in OldMails \ strayed, row[m] # 0, m \notin departed'
               PROVE  m \in Indexed'
    BY DEF KnownUnlessStrayed
  <2>1. m \in Indexed
    BY <1>0, <1>1 DEF KnownUnlessStrayed
  <2>2. PICK k \in Listings : m \in member[k] /\ (k = l => m \in current[l]
                                                    \/ \A j \in Listings \ {l} : m \notin member[j])
    BY <2>1, InSomeListing
  <2>3. m \in member'[k]
    BY <1>1, <1>2, <2>2 DEF Departing
  <2> QED BY <2>3, InSomeListingNext
<1> QED BY <1>2, <1>3, <1>4, <1>6, <1>7, <1>9, <1>10

(* A step that is over, or given up. *)
LEMMA WorkEnds ==
  /\ NoWork \in WorkRow /\ NoWork.step = "none"
  /\ NewIndex \in IndexRow
BY HistoryNumbersHold DEF NoWork, NewIndex, WorkRow, IndexRow, Steps, AtTop

LEMMA SavesPageKeeps ==
  ASSUME HistoryInv, SavesPage
  PROVE  HistoryInv'
<1>0. HistoryTypeOK /\ Sweeping /\ UnbornIsUnknown /\ MembersAreHeld /\ NoneSkipped
      /\ HeldIsIndexed /\ KnownUnlessStrayed
  BY HistoryParts
<1> DEFINE l == work.listing
<1>1. /\ work.step = "save" /\ work' = NoWork /\ UNCHANGED <<account, row, current, retry, strayed>>
      /\ l \in Listings
  BY <1>0 DEF SavesPage, Sweeping
<1>2. Sweeping' /\ work' \in WorkRow
  BY <1>1, WorkEnds DEF Sweeping
<1>3. index \in [Listings -> IndexRow] /\ work.last \in Nat /\ work.items \in Nat /\ index[l].offset \in Nat
      /\ Cardinality(current[l]) \in Nat /\ work.total \in Int
  <2>1. IsFiniteSet(current[l])
    <3>1. current[l] \in SUBSET OldMails /\ IsFiniteSet(OldMails)
      BY <1>0, <1>1, HistoryConstantsHold DEF HistoryTypeOK, HistoryConstants, HistoryNumbers
    <3> QED BY <3>1, FS_Subset
  <2> QED BY <1>0, <1>1, <2>1, FS_CardinalityType DEF HistoryTypeOK, WorkRow, IndexRow
<1>4. CASE work.more /\ index' = [index EXCEPT ![l].cursor = work.last,
                                               ![l].offset = index[l].offset + work.items]
           /\ UNCHANGED <<member, departed>>
  <2>1. /\ index' \in [Listings -> IndexRow]
        /\ \A k \in Listings : k # l => index'[k] = index[k]
        /\ index'[l].cursor = work.last /\ index'[l].offset = index[l].offset + work.items
        /\ index'[l].sweeping = index[l].sweeping
    BY <1>1, <1>3, <1>4 DEF IndexRow
  <2>2. HistoryTypeOK' /\ UnbornIsUnknown' /\ MembersAreHeld' /\ HeldIsIndexed' /\ KnownUnlessStrayed'
    <3>1. Indexed' = Indexed
      BY <1>4 DEF Indexed
    <3>2. HistoryTypeOK'
      BY <1>0, <1>1, <1>2, <1>4, <2>1 DEF HistoryTypeOK, Listings, Deleted
    <3> QED BY <1>0, <1>1, <1>4, <3>1, <3>2
         DEF UnbornIsUnknown, MembersAreHeld, HeldIsIndexed, KnownUnlessStrayed, Listings, Deleted
  <2>3. NoneSkipped'
    <3> SUFFICES ASSUME NEW k \in Listings, NEW m \in OldMails \ strayed,
                        m \in member[k], account[m] = k, m \notin current[k], index'[k].sweeping
                 PROVE  ToVisit(k, m)'
      BY <1>1, <1>4, WorkEnds DEF NoneSkipped, Listings
    <3>1. CASE k # l
      <4>1. index'[k] = index[k] /\ ToVisit(k, m)
        BY <1>0, <2>1, <3>1 DEF NoneSkipped
      <4> QED BY <1>1, <4>1, SameAhead
    <3>2. CASE k = l
      <4>1. ToVisitNext(k, m)
        BY <1>0, <1>1, <3>2 DEF NoneSkipped
      <4>2. Held(k)' = Held(k)
        BY <1>1 DEF Held
      <4> QED BY <2>1, <3>2, <4>1, <4>2 DEF ToVisit, ToVisitNext, ByOffset, AtTop
    <3> QED BY <3>1, <3>2
  <2> QED BY <1>2, <2>2, <2>3 DEF HistoryInv
<1>5. CASE ~work.more /\ FinishesSweep(l)
           /\ index' = [index EXCEPT ![l] =
                [NewIndex EXCEPT !.total_offset = work.total - Cardinality(current[l])]]
  <2>1. /\ index' \in [Listings -> IndexRow]
        /\ \A k \in Listings : k # l => index'[k] = index[k]
    <3>1. [NewIndex EXCEPT !.total_offset = work.total - Cardinality(current[l])] \in IndexRow
      BY <1>3, WorkEnds DEF IndexRow
    <3> QED BY <1>3, <1>5, <3>1
  <2>2. /\ departed' \in SUBSET OldMails /\ member' \in [Listings -> SUBSET OldMails]
        /\ UnbornIsUnknown' /\ MembersAreHeld' /\ HeldIsIndexed' /\ KnownUnlessStrayed'
        /\ \A k \in Listings : member'[k] \subseteq member[k] /\ member'[l] = current[l]
    BY <1>1, <1>5, RoundEndKeeps
  <2>3. HistoryTypeOK'
    BY <1>0, <1>1, <1>2, <2>1, <2>2 DEF HistoryTypeOK, Listings, Deleted
  <2>4. NoneSkipped'
    <3> SUFFICES ASSUME NEW k \in Listings, NEW m \in OldMails \ strayed,
                        m \in member'[k], account[m] = k, m \notin current[k], index'[k].sweeping
                 PROVE  ToVisit(k, m)'
      BY <1>1, WorkEnds DEF NoneSkipped, Listings
    <3>1. k # l /\ m \in member[k]
      BY <2>2
    <3>2. index'[k] = index[k] /\ ToVisit(k, m)
      BY <1>0, <2>1, <3>1 DEF NoneSkipped
    <3> QED BY <1>1, <3>2, SameAhead
  <2> QED BY <1>2, <2>2, <2>3, <2>4 DEF HistoryInv
<1> QED BY <1>4, <1>5 DEF SavesPage

(* A position that is given up, or kept, when a step ends early. *)
LEMMA GivesUpKeeps ==
  ASSUME HistoryInv, NEW l \in Listings, work' = NoWork, RowsStay,
         index' \in [Listings -> IndexRow],
         \A k \in Listings : \/ index'[k] = index[k]
                             \/ ~index'[k].sweeping
                             \/ index'[k].cursor = AtTop /\ index'[k].offset = 0
  PROVE  HistoryInv'
<1>0. HistoryTypeOK /\ Sweeping /\ UnbornIsUnknown /\ MembersAreHeld /\ NoneSkipped
      /\ HeldIsIndexed /\ KnownUnlessStrayed
  BY HistoryParts
<1>1. UNCHANGED <<account, row, member, current, departed, retry, strayed>> /\ Indexed' = Indexed
  BY DEF RowsStay, Indexed
<1>2. Sweeping' /\ HistoryTypeOK'
  BY <1>0, <1>1, WorkEnds DEF Sweeping, HistoryTypeOK, Listings, Deleted
<1>3. UnbornIsUnknown' /\ MembersAreHeld' /\ HeldIsIndexed' /\ KnownUnlessStrayed'
  BY <1>0, <1>1 DEF UnbornIsUnknown, MembersAreHeld, HeldIsIndexed, KnownUnlessStrayed, Listings, Deleted
<1>4. NoneSkipped'
  <2> SUFFICES ASSUME NEW k \in Listings, NEW m \in OldMails \ strayed,
                      m \in member[k], account[m] = k, m \notin current[k], index'[k].sweeping
               PROVE  ToVisit(k, m)'
    BY <1>1, WorkEnds DEF NoneSkipped, Listings
  <2>1. CASE index'[k] = index[k]
    <3>1. ToVisit(k, m)
      BY <1>0, <2>1 DEF NoneSkipped
    <3> QED BY <1>1, <2>1, <3>1, SameAhead
  <2>2. CASE index'[k].cursor = AtTop /\ index'[k].offset = 0
    <3>1. Held(k)' = Held(k)
      BY <1>1 DEF Held
    <3>2. Cardinality({n \in Held(k) : n > m}) \in Nat
      BY HistoryFinite
    <3>3. Cardinality({n \in Held(k)' : n > m}) >= 0
      BY <3>1, <3>2
    <3> QED BY <2>2, <3>3 DEF ToVisit, AtTop
  <2> QED BY <2>1, <2>2
<1> QED BY <1>2, <1>3, <1>4 DEF HistoryInv

LEMMA PageFailsKeeps ==
  ASSUME HistoryInv, PageFails
  PROVE  HistoryInv'
<1>1. work' = NoWork /\ RowsStay /\ work.listing \in Listings /\ index \in [Listings -> IndexRow]
  BY HistoryParts DEF PageFails, Sweeping, HistoryTypeOK
<1>2. index' = index \/ index' = [index EXCEPT ![work.listing].cursor = AtTop, ![work.listing].offset = 0]
  BY DEF PageFails
<1>3. /\ index' \in [Listings -> IndexRow]
      /\ \A k \in Listings : \/ index'[k] = index[k]
                             \/ index'[k].cursor = AtTop /\ index'[k].offset = 0
  BY <1>1, <1>2 DEF IndexRow, AtTop
<1> QED BY <1>1, <1>3, GivesUpKeeps

LEMMA StallsKeeps ==
  ASSUME HistoryInv, Stalls
  PROVE  HistoryInv'
<1>1. work' = NoWork /\ RowsStay /\ work.listing \in Listings /\ index \in [Listings -> IndexRow]
  BY HistoryParts DEF Stalls, Sweeping, HistoryTypeOK
<1>2. index' = [index EXCEPT ![work.listing] =
       [NewIndex EXCEPT !.total_offset = index[work.listing].total_offset, !.incomplete = TRUE]]
  BY DEF Stalls
<1>3. /\ index' \in [Listings -> IndexRow]
      /\ \A k \in Listings : index'[k] = index[k] \/ ~index'[k].sweeping
  BY <1>1, <1>2 DEF IndexRow, NewIndex, AtTop
<1> QED BY <1>1, <1>3, GivesUpKeeps

LEMMA StepDiesKeeps ==
  ASSUME HistoryInv, StepDies
  PROVE  HistoryInv'
<1>0. HistoryTypeOK /\ Sweeping /\ UnbornIsUnknown /\ MembersAreHeld /\ NoneSkipped
      /\ HeldIsIndexed /\ KnownUnlessStrayed
  BY HistoryParts
<1>1. /\ work' = NoWork /\ work.listing \in Listings /\ index \in [Listings -> IndexRow]
      /\ UNCHANGED <<account, row, current, retry, index, strayed, sealed, changes>>
  BY <1>0 DEF StepDies, Sweeping, HistoryTypeOK
<1>2. CASE UNCHANGED <<member, departed>>
  BY <1>1, <1>2, GivesUpKeeps DEF RowsStay
<1>3. CASE work.step = "save" /\ ~work.more /\ FinishesSweep(work.listing)
  <2>1. /\ departed' \in SUBSET OldMails /\ member' \in [Listings -> SUBSET OldMails]
        /\ UnbornIsUnknown' /\ MembersAreHeld' /\ HeldIsIndexed' /\ KnownUnlessStrayed'
        /\ \A k \in Listings : member'[k] \subseteq member[k]
    BY <1>1, <1>3, RoundEndKeeps
  <2>2. HistoryTypeOK' /\ Sweeping'
    BY <1>0, <1>1, <2>1, WorkEnds DEF HistoryTypeOK, Sweeping, Listings, Deleted
  <2>3. NoneSkipped'
    <3> SUFFICES ASSUME NEW k \in Listings, NEW m \in OldMails \ strayed,
                        m \in member'[k], account[m] = k, m \notin current[k], index[k].sweeping
                 PROVE  ToVisit(k, m)'
      BY <1>1, WorkEnds DEF NoneSkipped, Listings
    <3>1. ToVisit(k, m)
      BY <1>0, <2>1 DEF NoneSkipped
    <3> QED BY <1>1, <3>1, SameAhead
  <2> QED BY <2>1, <2>2, <2>3 DEF HistoryInv
<1> QED BY <1>2, <1>3 DEF StepDies

(* The queue: what is taken off it is known, gone from the account, or strays. *)
LEMMA QueueShrinksKeeps ==
  ASSUME HistoryInv, UNCHANGED <<account, member, current, index, work>>,
         departed' \in SUBSET departed, strayed \subseteq strayed',
         retry' \in [OldMails -> RetryRow], row' \in [OldMails -> 0..LastListing],
         \A m \in OldMails : /\ retry'[m].listing \in {retry[m].listing, 0}
                             /\ row'[m] \in {row[m], 0},
         \A m \in departed \ departed' : m \in Indexed \cup strayed' \/ row'[m] = 0
  PROVE  HistoryInv'
<1>0. HistoryTypeOK /\ Sweeping /\ UnbornIsUnknown /\ MembersAreHeld /\ NoneSkipped
      /\ HeldIsIndexed /\ KnownUnlessStrayed
  BY HistoryParts
<1>1. Indexed' = Indexed
  BY DEF Indexed
<1>2. HistoryTypeOK' /\ Sweeping' /\ MembersAreHeld'
  BY <1>0 DEF HistoryTypeOK, Sweeping, MembersAreHeld, Listings, Deleted
<1>3. UnbornIsUnknown' /\ HeldIsIndexed'
  BY <1>0, <1>1 DEF UnbornIsUnknown, HeldIsIndexed, Listings
<1>4. KnownUnlessStrayed'
  BY <1>0, <1>1 DEF KnownUnlessStrayed
<1>5. NoneSkipped'
  <2>1. \A l, m : (ToVisit(l, m)' <=> ToVisit(l, m)) /\ (ToVisitNext(l, m)' <=> ToVisitNext(l, m))
    BY DEF ToVisit, ToVisitNext, Held, ByOffset, AtTop
  <2> QED BY <1>0, <2>1 DEF NoneSkipped, Listings
<1> QED BY <1>2, <1>3, <1>4, <1>5 DEF HistoryInv

LEMMA PrunesDepartedKeeps ==
  ASSUME HistoryInv, PrunesDeparted
  PROVE  HistoryInv'
<1>0. HistoryTypeOK /\ UnbornIsUnknown /\ HeldIsIndexed
  BY HistoryParts
<1>1. UNCHANGED <<account, member, current, index, work, strayed>>
  BY DEF PrunesDeparted
<1>2. PICK m \in departed :
       /\ departed' = (departed \ Indexed) \ {m}
       /\ IF m \in Indexed \/ account[m] # Deleted THEN UNCHANGED <<row, retry>>
          ELSE row' = [row EXCEPT ![m] = 0] /\ retry' = [retry EXCEPT ![m] = NoRetry]
  BY DEF PrunesDeparted
<1>3. retry \in [OldMails -> RetryRow] /\ row \in [OldMails -> 0..LastListing] /\ m \in OldMails
      /\ account[m] \in Listings \cup {0, Deleted}
  BY <1>0, HistoryNumbersHold DEF HistoryTypeOK
<1>4. NoRetry \in RetryRow /\ NoRetry.listing = 0 /\ 0 \in 0..LastListing
  BY HistoryNumbersHold DEF NoRetry, RetryRow
<1>5. retry' \in [OldMails -> RetryRow] /\ row' \in [OldMails -> 0..LastListing]
  BY <1>2, <1>3, <1>4
<1>6. \A n \in OldMails : /\ retry'[n].listing \in {retry[n].listing, 0}
                          /\ row'[n] \in {row[n], 0}
  BY <1>2, <1>3, <1>4
<1>7. m \in Indexed \cup strayed \/ row'[m] = 0
  <2>1. CASE m \in Indexed
    BY <2>1
  <2>2. CASE m \notin Indexed /\ account[m] = Deleted
    BY <1>2, <1>3, <2>2
  <2>3. CASE account[m] = 0
    BY <1>0, <1>3, <2>3 DEF UnbornIsUnknown
  <2>4. CASE account[m] \in Listings
    BY <1>0, <1>3, <2>4 DEF HeldIsIndexed
  <2> QED BY <1>3, <2>1, <2>2, <2>3, <2>4
<1> QED BY <1>1, <1>2, <1>5, <1>6, <1>7, QueueShrinksKeeps

LEMMA CheckRefusedKeeps ==
  ASSUME HistoryInv, CheckRefused
  PROVE  HistoryInv'
<1>0. HistoryTypeOK
  BY HistoryParts
<1>1. UNCHANGED <<account, member, current, index, work, row, retry>>
  BY DEF CheckRefused
<1>2. PICK m \in departed \ Indexed :
       departed' = (departed \ Indexed) \ {m} /\ strayed' = strayed \cup {m}
  BY DEF CheckRefused
<1>3. retry' \in [OldMails -> RetryRow] /\ row' \in [OldMails -> 0..LastListing]
  BY <1>0, <1>1 DEF HistoryTypeOK
<1> QED BY <1>1, <1>2, <1>3, QueueShrinksKeeps

-----------------------------------------------------------------------------

LEMMA HistoryStarts == HistoryInit => HistoryInv
<1> SUFFICES ASSUME HistoryInit PROVE HistoryInv
  OBVIOUS
<1>1. /\ account = [m \in OldMails |-> IF m \in FirstMails THEN 1 ELSE 0]
      /\ row = [m \in OldMails |-> 0] /\ departed = {}
      /\ member = [l \in Listings |-> {}] /\ current = [l \in Listings |-> {}]
      /\ retry = [m \in OldMails |-> NoRetry] /\ index = [l \in Listings |-> NewIndex]
      /\ work = NoWork
  BY DEF HistoryInit, HistoryInitWith, NoWork
<1>2. NoRetry \in RetryRow /\ NoRetry.listing = 0 /\ 0 \in 0..LastListing
      /\ 1 \in 0..Deleted /\ 0 \in 0..Deleted
  BY HistoryNumbersHold DEF NoRetry, RetryRow, Deleted
<1>3. HistoryTypeOK
  <2>1. account \in [OldMails -> 0..Deleted]
    BY <1>1, <1>2
  <2>2. retry \in [OldMails -> RetryRow] /\ index \in [Listings -> IndexRow] /\ work \in WorkRow
    BY <1>1, <1>2, WorkEnds
  <2> QED BY <1>1, <1>2, <2>1, <2>2 DEF HistoryTypeOK
<1>4. Indexed = {}
  BY <1>1, InSomeListing
<1>5. Sweeping /\ UnbornIsUnknown /\ MembersAreHeld /\ NoneSkipped /\ HeldIsIndexed /\ KnownUnlessStrayed
  BY <1>1, <1>2, <1>4, WorkEnds DEF Sweeping, UnbornIsUnknown, MembersAreHeld, NoneSkipped,
     HeldIsIndexed, KnownUnlessStrayed
<1> QED BY <1>3, <1>5 DEF HistoryInv

LEMMA HistoryNextKeeps ==
  ASSUME HistoryInv, HistoryNext
  PROVE  HistoryInv'
<1>1. CASE SweepBegins \/ IndexesPage \/ SavesPage \/ PrunesDeparted
  BY <1>1, SweepBeginsKeeps, IndexesPageKeeps, SavesPageKeeps, PrunesDepartedKeeps
<1>2. CASE \E m \in OldMails : RetriesOne(m)
  BY <1>2, RetriesOneKeeps
<1>3. CASE PageFails \/ Stalls \/ CheckRefused \/ StepDies
  BY <1>3, PageFailsKeeps, StallsKeeps, CheckRefusedKeeps, StepDiesKeeps
<1>4. CASE KeysArrive \/ HourPasses \/ MonthPasses
  BY <1>4, KeysArriveKeeps, TimePassesKeeps DEF HourPasses, MonthPasses
<1>5. CASE \E l \in Listings : PassStamps(l) \/ \E m \in OldMails : MailArrives(m, l) \/ MailMoves(m, l)
  BY <1>5, PassStampsKeeps, MailArrivesKeeps, MailMovesKeeps
<1>6. CASE \E m \in OldMails : MailDeleted(m) \/ RetryFallsDue(m)
  BY <1>6, MailDeletedKeeps, RetryFallsDueKeeps
<1> QED BY <1>1, <1>2, <1>3, <1>4, <1>5, <1>6 DEF HistoryNext, HistoryStep

(* A cached message that stayed in its folder is known to the index, or queued
   to be checked, at every moment of every sweep, whatever page fails and
   wherever the bridge ends: nothing else is ever removed from the cache.
   (finish_listing_sweep, prune_departed.) *)
THEOREM StayingMailIsKnown == HistorySpec => []KnownUnlessStrayed
<1>1. HistoryInit => HistoryInv
  BY HistoryStarts
<1>2. HistoryInv /\ [HistoryNext]_historyVars => HistoryInv'
  <2> SUFFICES ASSUME HistoryInv, [HistoryNext]_historyVars PROVE HistoryInv'
    OBVIOUS
  <2>1. CASE HistoryNext
    BY <2>1, HistoryNextKeeps
  <2>2. CASE UNCHANGED historyVars
    <3>1. UNCHANGED <<account, row, member, current, departed, index, work, strayed, retry>>
      BY <2>2 DEF historyVars
    <3>2. retry' \in [OldMails -> RetryRow]
      BY <3>1, HistoryParts DEF HistoryTypeOK
    <3> QED BY <3>1, <3>2, QuietKeeps
  <2> QED BY <2>1, <2>2
<1>3. HistoryInv => KnownUnlessStrayed
  BY DEF HistoryInv
<1> QED BY <1>1, <1>2, <1>3, PTL DEF HistorySpec
=============================================================================
