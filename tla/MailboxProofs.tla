--------------------------- MODULE MailboxProofs ----------------------------
(***************************************************************************)
(* Mailboxes as clients count them, for any number of messages, sessions and *)
(* clients: the maildrop a POP3 session trashes from, and the sequence     *)
(* numbers and UIDs of IMAP sessions beside the sync pass, other clients and *)
(* a repair of the cache.                                                  *)
(***************************************************************************)
EXTENDS Maildrop, MailboxView, FiniteSetTheorems, SequenceTheorems, WellFoundedInduction, TLAPS

-----------------------------------------------------------------------------
(* Finite sets of naturals and of weighted elements, in order. *)

(* The least member of a set of natural numbers. *)
LEMMA LeastNumber ==
  ASSUME NEW N \in SUBSET Nat, N # {}
  PROVE  \E n \in N : \A k \in N : n <= k
<1>1. PICK n \in N : \A k \in N : <<k, n>> \notin OpToRel(<, Nat)
  BY NatLessThanWellFounded, WFMin, Zenon
<1>2. \A k \in N : ~(k < n)
  BY <1>1 DEF OpToRel
<1> QED BY <1>2

Sorts(q, S, w) ==
  /\ q \in [1..Cardinality(S) -> S]
  /\ \A i, j \in 1..Cardinality(S) : q[i] = q[j] => i = j
  /\ \A m \in S : \E i \in 1..Cardinality(S) : q[i] = m
  /\ \A i, j \in 1..Cardinality(S) : i < j => w[q[i]] <= w[q[j]]

(* A finite set can be listed in the order of any weight. *)
LEMMA SortExists ==
  ASSUME NEW M, NEW w \in [M -> Nat], NEW S \in SUBSET M, IsFiniteSet(S)
  PROVE  \E q : Sorts(q, S, w)
<1> DEFINE Bad == {n \in Nat : \E T \in SUBSET M : IsFiniteSet(T) /\ Cardinality(T) = n
                                                    /\ \A q : ~Sorts(q, T, w)}
<1>1. ASSUME NEW n \in Bad, \A k \in Bad : n <= k PROVE FALSE
  <2>1. PICK T \in SUBSET M : IsFiniteSet(T) /\ Cardinality(T) = n /\ \A q : ~Sorts(q, T, w)
    OBVIOUS
  <2>2. CASE T = {}
    <3>1. Cardinality(T) = 0
      BY <2>2, FS_EmptySet
    <3>2. Sorts([i \in 1..0 |-> i], T, w)
      BY <2>2, <3>1 DEF Sorts
    <3> QED BY <2>1, <3>2
  <2>3. CASE T # {}
    <3>1. PICK m \in T : \A k \in T : w[m] <= w[k]
      <4>1. {w[k] : k \in T} \in SUBSET Nat /\ {w[k] : k \in T} # {}
        BY <2>3
      <4>2. PICK u \in {w[k] : k \in T} : \A v \in {w[k] : k \in T} : u <= v
        BY <4>1, LeastNumber
      <4> QED BY <4>2
    <3>2. IsFiniteSet(T \ {m}) /\ Cardinality(T \ {m}) = n - 1 /\ n - 1 \in Nat
      <4>1. Cardinality(T \ {m}) = n - 1 /\ IsFiniteSet(T \ {m})
        BY <2>1, FS_RemoveElement
      <4> QED BY <4>1, FS_CardinalityType
    <3>3. n - 1 \notin Bad
      BY <1>1, <3>2
    <3>4. PICK p : Sorts(p, T \ {m}, w)
      BY <3>2, <3>3
    <3> DEFINE q == [i \in 1..n |-> IF i = 1 THEN m ELSE p[i - 1]]
    <3>5. /\ p \in [1..(n - 1) -> T \ {m}]
          /\ \A i, j \in 1..(n - 1) : p[i] = p[j] => i = j
          /\ \A k \in T \ {m} : \E i \in 1..(n - 1) : p[i] = k
          /\ \A i, j \in 1..(n - 1) : i < j => w[p[i]] <= w[p[j]]
      BY <3>2, <3>4 DEF Sorts
    <3>6. \A i \in 1..n : i # 1 => i - 1 \in 1..(n - 1) /\ p[i - 1] \in T \ {m}
      BY <3>5, <3>2
    <3>7. q \in [1..n -> T]
      BY <3>6
    <3>8. \A i, j \in 1..n : q[i] = q[j] => i = j
      <4> SUFFICES ASSUME NEW i \in 1..n, NEW j \in 1..n, q[i] = q[j] PROVE i = j
        OBVIOUS
      <4>1. CASE i = 1 \/ j = 1
        BY <4>1, <3>6
      <4>2. CASE i # 1 /\ j # 1
        BY <4>2, <3>5, <3>6
      <4> QED BY <4>1, <4>2
    <3>9. ASSUME NEW k \in T PROVE \E i \in 1..n : q[i] = k
      <4>1. CASE k = m
        BY <4>1, <3>2
      <4>2. CASE k # m
        <5>1. PICK i \in 1..(n - 1) : p[i] = k
          BY <3>5, <4>2
        <5>2. i + 1 \in 1..n /\ i + 1 # 1 /\ (i + 1) - 1 = i
          BY <3>2
        <5> QED BY <5>1, <5>2
      <4> QED BY <4>1, <4>2
    <3>10. ASSUME NEW i \in 1..n, NEW j \in 1..n, i < j PROVE w[q[i]] <= w[q[j]]
      <4>1. j # 1 /\ q[j] = p[j - 1] /\ q[j] \in T
        BY <3>6, <3>10
      <4>2. CASE i = 1
        BY <3>1, <4>1, <4>2
      <4>3. CASE i # 1
        BY <3>5, <3>6, <3>10, <4>1, <4>3
      <4> QED BY <4>2, <4>3
    <3> HIDE DEF q
    <3>11. Sorts(q, T, w)
      BY <2>1, <3>7, <3>8, <3>9, <3>10 DEF Sorts
    <3> QED BY <2>1, <3>11
  <2> QED BY <2>2, <2>3
<1>2. Cardinality(S) \in Nat
  BY FS_CardinalityType
<1>3. Bad \in SUBSET Nat
  OBVIOUS
<1> HIDE DEF Bad
<1>4. Bad = {}
  BY <1>1, <1>3, LeastNumber
<1> QED BY <1>2, <1>4 DEF Bad

-----------------------------------------------------------------------------
(* POP3: what QUIT was told to trash it trashes, and nothing else. *)

MaildropTypeOK ==
  /\ place \in [PopMails -> {"inbox", "archive", "trash", "gone"}]
  /\ inbox \in SUBSET PopMails /\ listedInbox \in (SUBSET PopMails) \union {Nothing}
  /\ popAt \in [PopClients -> {"out", "in", "quit", "moved"}]
  /\ maildrop \in [PopClients -> Seq(PopMails)]
  /\ marked \in [PopClients -> SUBSET Nat]
  /\ anyFailed \in [PopClients -> BOOLEAN]
  /\ wanted \in [PopClients -> SUBSET PopMails] /\ owed \in [PopClients -> SUBSET PopMails]
  /\ popTold \in [PopClients -> {"nothing", "ok", "failed"}]

(* Marks are positions of the maildrop, and what they stand for is wanted gone;
   until QUIT nothing else is. *)
MarksAreWishes ==
  \A c \in PopClients :
    /\ marked[c] \subseteq DOMAIN maildrop[c]
    /\ \A n \in marked[c] : maildrop[c][n] \in wanted[c]
    /\ popAt[c] = "in" => \A m \in wanted[c] : \E n \in marked[c] : maildrop[c][n] = m

(* What is owed has not left the inbox, and unless a call failed it is at a mark
   that QUIT has yet to work on. *)
OwedIsMarked ==
  \A c \in PopClients :
    /\ \A m \in owed[c] : place[m] = "inbox"
    /\ popAt[c] \in {"quit", "moved"} /\ ~anyFailed[c] =>
         \A m \in owed[c] : \E n \in marked[c] :
           maildrop[c][n] = m /\ (popAt[c] = "moved" => n # First(c))

OkMeansDone == \A c \in PopClients : popTold[c] = "ok" => popAt[c] = "out" /\ owed[c] = {}

MaildropInv == MaildropTypeOK /\ MarksAreWishes /\ OwedIsMarked /\ OkMeansDone /\ removed = {}

LEMMA DropAssumed == IsFiniteSet(PopMails) /\ PopMails \subseteq Nat
BY MaildropAssumption DEF MaildropAssumption

(* PASS lists the messages of the inbox. *)
LEMMA ListedIsSeq == ASSUME NEW S \in SUBSET PopMails PROVE Listed(S) \in Seq(PopMails)
<1> DEFINE w == [m \in PopMails |-> m]
<1>1. IsFiniteSet(S) /\ Cardinality(S) \in Nat
  BY DropAssumed, FS_Subset, FS_CardinalityType
<1>2. w \in [PopMails -> Nat]
  BY DropAssumed
<1> HIDE DEF w
<1>3. PICK q : Sorts(q, S, w)
  BY <1>1, <1>2, SortExists
<1>4. q \in [1..Cardinality(S) -> S] /\ \A i, j \in DOMAIN q : i < j => q[i] < q[j]
  <2>1. q \in [1..Cardinality(S) -> S]
    BY <1>3 DEF Sorts
  <2>2. ASSUME NEW i \in 1..Cardinality(S), NEW j \in 1..Cardinality(S), i < j PROVE q[i] < q[j]
    <3>1. q[i] \in PopMails /\ q[j] \in PopMails /\ q[i] \in Nat /\ q[j] \in Nat
      BY <2>1, DropAssumed
    <3>2. w[q[i]] <= w[q[j]] /\ q[i] # q[j]
      BY <1>1, <1>3, <2>2 DEF Sorts
    <3> QED BY <3>1, <3>2 DEF w
  <2> QED BY <2>1, <2>2
<1>5. Listed(S) \in [1..Cardinality(S) -> S]
  BY <1>4, Zenon DEF Listed
<1> QED BY <1>1, <1>5, IsASeq

(* The first mark is a mark. *)
LEMMA FirstIsMarked ==
  ASSUME MaildropTypeOK, NEW c \in PopClients, marked[c] # {} PROVE First(c) \in marked[c]
<1>1. marked[c] \in SUBSET Nat
  BY DEF MaildropTypeOK
<1>2. \E n \in marked[c] : \A k \in marked[c] : n <= k
  BY <1>1, LeastNumber
<1> QED BY <1>2, Zenon DEF First

LEMMA DropInit == MaildropInit => MaildropInv
<1> SUFFICES ASSUME MaildropInit PROVE MaildropInv
  OBVIOUS
<1>1. MaildropTypeOK
  <2>1. <<>> \in Seq(PopMails)
    OBVIOUS
  <2> QED BY <2>1 DEF MaildropInit, MaildropTypeOK
<1>2. MarksAreWishes /\ OwedIsMarked /\ OkMeansDone /\ removed = {}
  BY DEF MaildropInit, MarksAreWishes, OwedIsMarked, OkMeansDone
<1> QED BY <1>1, <1>2 DEF MaildropInv

(* A step of one client, after which it stands as it must, and which takes
   messages from what is owed to the others as they leave the inbox. *)
LEMMA ClientMoves ==
  ASSUME MaildropInv, MaildropTypeOK', removed' = {}, NEW c \in PopClients,
         \A d \in PopClients \ {c} :
           popAt'[d] = popAt[d] /\ maildrop'[d] = maildrop[d] /\ marked'[d] = marked[d]
             /\ anyFailed'[d] = anyFailed[d] /\ wanted'[d] = wanted[d] /\ popTold'[d] = popTold[d]
             /\ owed'[d] \subseteq owed[d] /\ \A m \in owed'[d] : place'[m] = place[m],
         /\ marked'[c] \subseteq DOMAIN maildrop'[c]
         /\ \A n \in marked'[c] : maildrop'[c][n] \in wanted'[c]
         /\ popAt'[c] = "in" => \A m \in wanted'[c] : \E n \in marked'[c] : maildrop'[c][n] = m,
         /\ \A m \in owed'[c] : place'[m] = "inbox"
         /\ popAt'[c] \in {"quit", "moved"} /\ ~anyFailed'[c] =>
              \A m \in owed'[c] : \E n \in marked'[c] :
                maildrop'[c][n] = m /\ (popAt'[c] = "moved" => n # First(c)'),
         popTold'[c] = "ok" => popAt'[c] = "out" /\ owed'[c] = {}
  PROVE  MaildropInv'
<1>1. MarksAreWishes'
  <2> SUFFICES ASSUME NEW d \in PopClients
               PROVE  /\ marked'[d] \subseteq DOMAIN maildrop'[d]
                      /\ \A n \in marked'[d] : maildrop'[d][n] \in wanted'[d]
                      /\ popAt'[d] = "in" =>
                           \A m \in wanted'[d] : \E n \in marked'[d] : maildrop'[d][n] = m
    BY DEF MarksAreWishes
  <2> QED BY DEF MaildropInv, MarksAreWishes
<1>2. OwedIsMarked'
  <2> SUFFICES ASSUME NEW d \in PopClients, d # c
               PROVE  /\ \A m \in owed'[d] : place'[m] = "inbox"
                      /\ popAt'[d] \in {"quit", "moved"} /\ ~anyFailed'[d] =>
                           \A m \in owed'[d] : \E n \in marked'[d] :
                             maildrop'[d][n] = m /\ (popAt'[d] = "moved" => n # First(d)')
    BY DEF OwedIsMarked
  <2>1. First(d)' = First(d)
    BY DEF First
  <2> QED BY <2>1 DEF MaildropInv, OwedIsMarked
<1>3. OkMeansDone'
  BY DEF MaildropInv, OkMeansDone
<1> QED BY <1>1, <1>2, <1>3 DEF MaildropInv

(* A message that leaves its place is owed to nobody any more. *)
LEMMA MovesEffect ==
  ASSUME MaildropTypeOK, NEW m \in PopMails, NEW there \in {"inbox", "archive", "trash", "gone"},
         Moves(m, there)
  PROVE  /\ place' \in [PopMails -> {"inbox", "archive", "trash", "gone"}]
         /\ owed' \in [PopClients -> SUBSET PopMails]
         /\ \A c \in PopClients :
              owed'[c] = owed[c] \ {m} /\ \A k \in owed'[c] : place'[k] = place[k]
BY DEF MaildropTypeOK, Moves

LEMMA PassDrop == ASSUME MaildropInv, NEW c \in PopClients, Pass(c) PROVE MaildropInv'
<1>1. /\ popAt' = [popAt EXCEPT ![c] = "in"] /\ maildrop' = [maildrop EXCEPT ![c] = Listed(inbox)]
      /\ marked' = [marked EXCEPT ![c] = {}] /\ wanted' = [wanted EXCEPT ![c] = {}]
      /\ popTold' = [popTold EXCEPT ![c] = "nothing"] /\ popAt[c] = "out"
      /\ UNCHANGED <<place, inbox, listedInbox, anyFailed, owed, removed>>
  BY DEF Pass, mailVars
<1>2. Listed(inbox) \in Seq(PopMails)
  BY ListedIsSeq DEF MaildropInv, MaildropTypeOK
<1>3. MaildropTypeOK'
  BY <1>1, <1>2 DEF MaildropInv, MaildropTypeOK
<1>4. popAt'[c] = "in" /\ marked'[c] = {} /\ wanted'[c] = {} /\ popTold'[c] = "nothing"
  BY <1>1 DEF MaildropInv, MaildropTypeOK
<1>5. \A m \in owed'[c] : place'[m] = "inbox"
  BY <1>1 DEF MaildropInv, OwedIsMarked
<1>6. \A d \in PopClients \ {c} :
        popAt'[d] = popAt[d] /\ maildrop'[d] = maildrop[d] /\ marked'[d] = marked[d]
          /\ wanted'[d] = wanted[d] /\ popTold'[d] = popTold[d]
  BY <1>1 DEF MaildropInv, MaildropTypeOK
<1>7. removed' = {}
  BY <1>1 DEF MaildropInv
<1> QED BY <1>1, <1>3, <1>4, <1>5, <1>6, <1>7, ClientMoves

LEMMA DeleDrop == ASSUME MaildropInv, NEW c \in PopClients, Dele(c) PROVE MaildropInv'
<1>1. popAt[c] = "in"
      /\ UNCHANGED <<place, inbox, listedInbox, popAt, maildrop, anyFailed, owed, removed, popTold>>
  BY DEF Dele, mailVars
<1>2. PICK n \in DOMAIN maildrop[c] \ marked[c] :
        /\ marked' = [marked EXCEPT ![c] = marked[c] \union {n}]
        /\ wanted' = [wanted EXCEPT ![c] = wanted[c] \union {maildrop[c][n]}]
  BY DEF Dele
<1>3. maildrop[c] \in Seq(PopMails) /\ n \in Nat /\ maildrop[c][n] \in PopMails
  <2>1. maildrop[c] \in Seq(PopMails)
    BY DEF MaildropInv, MaildropTypeOK
  <2> QED BY <1>2, <2>1, LenProperties
<1>4. MaildropTypeOK'
  BY <1>1, <1>2, <1>3 DEF MaildropInv, MaildropTypeOK
<1>5. marked'[c] = marked[c] \union {n} /\ wanted'[c] = wanted[c] \union {maildrop[c][n]}
      /\ \A d \in PopClients \ {c} : marked'[d] = marked[d] /\ wanted'[d] = wanted[d]
  BY <1>2 DEF MaildropInv, MaildropTypeOK
<1>6. /\ marked[c] \subseteq DOMAIN maildrop[c]
      /\ \A k \in marked[c] : maildrop[c][k] \in wanted[c]
      /\ \A m \in wanted[c] : \E k \in marked[c] : maildrop[c][k] = m
      /\ \A m \in owed[c] : place[m] = "inbox"
      /\ popTold[c] # "ok" /\ removed = {}
  BY <1>1 DEF MaildropInv, MarksAreWishes, OwedIsMarked, OkMeansDone
<1> QED BY <1>1, <1>4, <1>5, <1>6, ClientMoves

LEMMA RsetDrop == ASSUME MaildropInv, NEW c \in PopClients, Rset(c) PROVE MaildropInv'
<1>1. popAt[c] = "in"
      /\ marked' = [marked EXCEPT ![c] = {}] /\ wanted' = [wanted EXCEPT ![c] = {}]
      /\ UNCHANGED <<place, inbox, listedInbox, popAt, maildrop, anyFailed, owed, removed, popTold>>
  BY DEF Rset, mailVars
<1>2. MaildropTypeOK'
  BY <1>1 DEF MaildropInv, MaildropTypeOK
<1>3. marked'[c] = {} /\ wanted'[c] = {}
      /\ \A d \in PopClients \ {c} : marked'[d] = marked[d] /\ wanted'[d] = wanted[d]
  BY <1>1 DEF MaildropInv, MaildropTypeOK
<1>4. (\A m \in owed[c] : place[m] = "inbox") /\ popTold[c] # "ok" /\ removed = {}
  BY <1>1 DEF MaildropInv, OwedIsMarked, OkMeansDone
<1> QED BY <1>1, <1>2, <1>3, <1>4, ClientMoves

LEMMA ClosesEffect ==
  ASSUME MaildropInv, NEW c \in PopClients, Closes(c)
  PROVE  /\ popAt' \in [PopClients -> {"out", "in", "quit", "moved"}]
         /\ maildrop' \in [PopClients -> Seq(PopMails)]
         /\ marked' \in [PopClients -> SUBSET Nat] /\ anyFailed' \in [PopClients -> BOOLEAN]
         /\ popAt'[c] = "out" /\ marked'[c] = {}
         /\ \A d \in PopClients \ {c} :
              popAt'[d] = popAt[d] /\ maildrop'[d] = maildrop[d] /\ marked'[d] = marked[d]
                /\ anyFailed'[d] = anyFailed[d]
<1>1. <<>> \in Seq(PopMails)
  OBVIOUS
<1> QED BY <1>1 DEF Closes, MaildropInv, MaildropTypeOK

LEMMA BreaksDrop == ASSUME MaildropInv, NEW c \in PopClients, PopBreaks(c) PROVE MaildropInv'
<1>1. popAt[c] # "out" /\ Closes(c) /\ UNCHANGED <<place, inbox, listedInbox, wanted, owed, removed, popTold>>
  BY DEF PopBreaks, mailVars
<1>2. MaildropTypeOK'
  BY <1>1, ClosesEffect DEF MaildropInv, MaildropTypeOK
<1>3. (\A m \in owed[c] : place[m] = "inbox") /\ popTold[c] # "ok" /\ removed = {}
  BY <1>1 DEF MaildropInv, OwedIsMarked, OkMeansDone
<1> QED BY <1>1, <1>2, <1>3, ClosesEffect, ClientMoves

LEMMA QuitEndsDrop == ASSUME MaildropInv, NEW c \in PopClients, QuitEnds(c) PROVE MaildropInv'
<1>1. /\ popAt[c] = "quit" /\ marked[c] = {} /\ Closes(c)
      /\ popTold' = [popTold EXCEPT ![c] = IF anyFailed[c] THEN "failed" ELSE "ok"]
      /\ UNCHANGED <<place, inbox, listedInbox, wanted, owed, removed>>
  BY DEF QuitEnds, mailVars
<1>2. MaildropTypeOK' /\ (popTold'[c] = "ok" => ~anyFailed[c])
      /\ \A d \in PopClients \ {c} : popTold'[d] = popTold[d]
  <2>1. popTold' \in [PopClients -> {"nothing", "ok", "failed"}]
        /\ popTold'[c] = (IF anyFailed[c] THEN "failed" ELSE "ok")
        /\ \A d \in PopClients \ {c} : popTold'[d] = popTold[d]
    BY <1>1 DEF MaildropInv, MaildropTypeOK
  <2> QED BY <1>1, <2>1, ClosesEffect DEF MaildropInv, MaildropTypeOK
<1>3. (\A m \in owed[c] : place[m] = "inbox") /\ removed = {} /\ (~anyFailed[c] => owed[c] = {})
  BY <1>1 DEF MaildropInv, OwedIsMarked
<1> QED BY <1>1, <1>2, <1>3, ClosesEffect, ClientMoves

LEMMA QuitDrop == ASSUME MaildropInv, NEW c \in PopClients, Quit(c) PROVE MaildropInv'
<1>1. /\ popAt[c] = "in" /\ popAt' = [popAt EXCEPT ![c] = "quit"]
      /\ owed' = [owed EXCEPT ![c] = {m \in wanted[c] : place[m] = "inbox"}]
      /\ UNCHANGED <<place, inbox, listedInbox, maildrop, marked, anyFailed, wanted, removed, popTold>>
  BY DEF Quit, mailVars
<1>2. MaildropTypeOK'
  BY <1>1 DEF MaildropInv, MaildropTypeOK
<1>3. popAt'[c] = "quit" /\ owed'[c] = {m \in wanted[c] : place[m] = "inbox"}
      /\ \A d \in PopClients \ {c} : popAt'[d] = popAt[d] /\ owed'[d] = owed[d]
  BY <1>1 DEF MaildropInv, MaildropTypeOK
<1>4. /\ marked[c] \subseteq DOMAIN maildrop[c]
      /\ \A k \in marked[c] : maildrop[c][k] \in wanted[c]
      /\ \A m \in wanted[c] : \E k \in marked[c] : maildrop[c][k] = m
      /\ popTold[c] # "ok" /\ removed = {}
  BY <1>1 DEF MaildropInv, MarksAreWishes, OkMeansDone
<1> QED BY <1>1, <1>2, <1>3, <1>4, ClientMoves

(* One call of QUIT on the first mark, whether it worked or not. *)
LEMMA TrashesDrop == ASSUME MaildropInv, NEW c \in PopClients, QuitTrashes(c) PROVE MaildropInv'
<1> DEFINE m == Message(c, First(c))
<1>1. /\ popAt[c] = "quit" /\ marked[c] # {} /\ popAt' = [popAt EXCEPT ![c] = "moved"]
      /\ IF place[m] = "gone" THEN UNCHANGED <<place, owed>> ELSE Moves(m, "trash")
      /\ removed' = removed \union ({m} \ wanted[c])
      /\ UNCHANGED <<inbox, listedInbox, maildrop, marked, anyFailed, wanted, popTold>>
  BY DEF QuitTrashes
<1>2. First(c) \in marked[c] /\ m = maildrop[c][First(c)]
  BY <1>1, FirstIsMarked DEF MaildropInv, Message
<1>3. /\ marked[c] \subseteq DOMAIN maildrop[c]
      /\ \A k \in marked[c] : maildrop[c][k] \in wanted[c]
      /\ popTold[c] # "ok" /\ removed = {}
      /\ \A d \in PopClients : \A k \in owed[d] : place[k] = "inbox"
      /\ ~anyFailed[c] => \A k \in owed[c] : \E n \in marked[c] : maildrop[c][n] = k
  BY <1>1 DEF MaildropInv, MarksAreWishes, OkMeansDone, OwedIsMarked
<1>4. m \in PopMails /\ removed' = {}
  BY <1>1, <1>2, <1>3 DEF MaildropInv, MaildropTypeOK
<1> HIDE DEF m
<1>5. /\ place' \in [PopMails -> {"inbox", "archive", "trash", "gone"}]
      /\ owed' \in [PopClients -> SUBSET PopMails]
      /\ \A d \in PopClients :
           owed'[d] \subseteq owed[d] \ {m} /\ \A k \in owed'[d] : place'[k] = place[k]
  <2>1. CASE place[m] = "gone"
    BY <1>1, <1>3, <2>1 DEF MaildropInv, MaildropTypeOK
  <2>2. CASE place[m] # "gone"
    BY <1>1, <1>4, <2>2, MovesEffect DEF MaildropInv
  <2> QED BY <2>1, <2>2
<1>6. MaildropTypeOK'
  BY <1>1, <1>5 DEF MaildropInv, MaildropTypeOK
<1>7. popAt'[c] = "moved" /\ \A d \in PopClients \ {c} : popAt'[d] = popAt[d]
  BY <1>1 DEF MaildropInv, MaildropTypeOK
<1>8. First(c)' = First(c)
  BY <1>1 DEF First
<1>9. ~anyFailed[c] => \A k \in owed'[c] : \E n \in marked[c] : maildrop[c][n] = k /\ n # First(c)
  BY <1>2, <1>3, <1>5
<1>10. /\ \A d \in PopClients \ {c} :
           popAt'[d] = popAt[d] /\ maildrop'[d] = maildrop[d] /\ marked'[d] = marked[d]
             /\ anyFailed'[d] = anyFailed[d] /\ wanted'[d] = wanted[d] /\ popTold'[d] = popTold[d]
             /\ owed'[d] \subseteq owed[d] /\ \A k \in owed'[d] : place'[k] = place[k]
       /\ marked'[c] \subseteq DOMAIN maildrop'[c]
       /\ \A n \in marked'[c] : maildrop'[c][n] \in wanted'[c]
       /\ \A k \in owed'[c] : place'[k] = "inbox"
  BY <1>1, <1>3, <1>5, <1>7
<1> QED BY <1>1, <1>3, <1>4, <1>6, <1>7, <1>8, <1>9, <1>10, ClientMoves

LEMMA ForgetsDrop == ASSUME MaildropInv, NEW c \in PopClients, QuitForgets(c) PROVE MaildropInv'
<1>1. /\ popAt[c] = "moved" /\ popAt' = [popAt EXCEPT ![c] = "quit"]
      /\ inbox' \subseteq inbox /\ marked' = [marked EXCEPT ![c] = marked[c] \ {First(c)}]
      /\ UNCHANGED <<place, listedInbox, maildrop, anyFailed, wanted, owed, removed, popTold>>
  BY DEF QuitForgets, Done
<1>2. MaildropTypeOK'
  BY <1>1 DEF MaildropInv, MaildropTypeOK
<1>3. popAt'[c] = "quit" /\ marked'[c] = marked[c] \ {First(c)}
      /\ \A d \in PopClients \ {c} : popAt'[d] = popAt[d] /\ marked'[d] = marked[d]
  BY <1>1 DEF MaildropInv, MaildropTypeOK
<1>4. /\ marked[c] \subseteq DOMAIN maildrop[c]
      /\ \A k \in marked[c] : maildrop[c][k] \in wanted[c]
      /\ popTold[c] # "ok" /\ removed = {}
      /\ \A k \in owed[c] : place[k] = "inbox"
      /\ ~anyFailed[c] => \A k \in owed[c] : \E n \in marked[c] : maildrop[c][n] = k /\ n # First(c)
  BY <1>1 DEF MaildropInv, MarksAreWishes, OkMeansDone, OwedIsMarked
<1> QED BY <1>1, <1>2, <1>3, <1>4, ClientMoves

LEMMA FailsDrop == ASSUME MaildropInv, NEW c \in PopClients, QuitFails(c) PROVE MaildropInv'
<1> DEFINE m == Message(c, First(c))
<1>1. /\ popAt[c] = "quit" /\ marked[c] # {} /\ marked' = [marked EXCEPT ![c] = marked[c] \ {First(c)}]
      /\ UNCHANGED <<place, owed>> \/ Moves(m, "trash")
      /\ anyFailed' = [anyFailed EXCEPT ![c] = TRUE]
      /\ UNCHANGED <<inbox, listedInbox, popAt, maildrop, wanted, removed, popTold>>
  BY DEF QuitFails, Done
<1>2. First(c) \in marked[c] /\ m = maildrop[c][First(c)]
  BY <1>1, FirstIsMarked DEF MaildropInv, Message
<1>3. /\ marked[c] \subseteq DOMAIN maildrop[c]
      /\ \A k \in marked[c] : maildrop[c][k] \in wanted[c]
      /\ popTold[c] # "ok" /\ removed = {}
      /\ \A d \in PopClients : \A k \in owed[d] : place[k] = "inbox"
  BY <1>1 DEF MaildropInv, MarksAreWishes, OkMeansDone, OwedIsMarked
<1>4. m \in PopMails
  BY <1>1, <1>2, <1>3 DEF MaildropInv, MaildropTypeOK
<1> HIDE DEF m
<1>5. /\ place' \in [PopMails -> {"inbox", "archive", "trash", "gone"}]
      /\ owed' \in [PopClients -> SUBSET PopMails]
      /\ \A d \in PopClients :
           owed'[d] \subseteq owed[d] /\ \A k \in owed'[d] : place'[k] = place[k]
  <2>1. CASE UNCHANGED <<place, owed>>
    BY <2>1 DEF MaildropInv, MaildropTypeOK
  <2>2. CASE Moves(m, "trash")
    BY <1>4, <2>2, MovesEffect DEF MaildropInv
  <2> QED BY <1>1, <2>1, <2>2
<1>6. MaildropTypeOK'
  BY <1>1, <1>5 DEF MaildropInv, MaildropTypeOK
<1>7. anyFailed'[c] /\ marked'[c] = marked[c] \ {First(c)}
      /\ \A d \in PopClients \ {c} : anyFailed'[d] = anyFailed[d] /\ marked'[d] = marked[d]
  BY <1>1 DEF MaildropInv, MaildropTypeOK
<1>8. \A k \in owed'[c] : place'[k] = "inbox"
  BY <1>3, <1>5
<1> QED BY <1>1, <1>3, <1>5, <1>6, <1>7, <1>8, ClientMoves

(* Other clients of the account and the sync pass. *)
LEMMA ElsewhereDrop ==
  ASSUME MaildropInv, MovesElsewhere \/ InboxListed \/ InboxWritten PROVE MaildropInv'
<1>1. UNCHANGED <<popAt, maildrop, marked, anyFailed, wanted, removed, popTold>>
  BY DEF MovesElsewhere, InboxListed, InboxWritten
<1>2. /\ place' \in [PopMails -> {"inbox", "archive", "trash", "gone"}]
      /\ owed' \in [PopClients -> SUBSET PopMails]
      /\ \A d \in PopClients :
           owed'[d] \subseteq owed[d] /\ \A k \in owed'[d] : place'[k] = place[k]
      /\ inbox' \in SUBSET PopMails /\ listedInbox' \in (SUBSET PopMails) \union {Nothing}
  <2>1. CASE MovesElsewhere
    <3>1. PICK m \in PopMails, there \in {"inbox", "archive", "gone"} : Moves(m, there)
      BY <2>1 DEF MovesElsewhere
    <3>2. MaildropTypeOK /\ UNCHANGED <<inbox, listedInbox>>
      BY <2>1 DEF MovesElsewhere, MaildropInv
    <3>3. /\ place' \in [PopMails -> {"inbox", "archive", "trash", "gone"}]
          /\ owed' \in [PopClients -> SUBSET PopMails]
          /\ \A d \in PopClients :
               owed'[d] = owed[d] \ {m} /\ \A k \in owed'[d] : place'[k] = place[k]
      BY <3>1, <3>2, MovesEffect
    <3> QED BY <3>2, <3>3 DEF MaildropTypeOK
  <2>2. CASE InboxListed \/ InboxWritten
    BY <2>2 DEF InboxListed, InboxWritten, MaildropInv, MaildropTypeOK
  <2> QED BY <2>1, <2>2
<1>3. MaildropTypeOK'
  BY <1>1, <1>2 DEF MaildropInv, MaildropTypeOK
<1>4. \A d \in PopClients : First(d)' = First(d)
  BY <1>1 DEF First
<1>5. OwedIsMarked'
  BY <1>1, <1>2, <1>4 DEF MaildropInv, OwedIsMarked
<1>6. MarksAreWishes' /\ OkMeansDone' /\ removed' = {}
  BY <1>1, <1>2 DEF MaildropInv, MarksAreWishes, OkMeansDone
<1> QED BY <1>3, <1>5, <1>6 DEF MaildropInv

LEMMA DropStepKeeps == ASSUME MaildropInv, [MaildropNext]_popVars PROVE MaildropInv'
<1>1. ASSUME NEW c \in PopClients, PopStep(c) PROVE MaildropInv'
  BY <1>1, PassDrop, DeleDrop, RsetDrop, BreaksDrop, QuitDrop, TrashesDrop, ForgetsDrop,
     FailsDrop, QuitEndsDrop DEF PopStep
<1>2. CASE MovesElsewhere \/ InboxListed \/ InboxWritten
  BY <1>2, ElsewhereDrop
<1>3. CASE UNCHANGED popVars
  BY <1>3 DEF popVars, mailVars, MaildropInv, MaildropTypeOK, MarksAreWishes, OwedIsMarked,
              OkMeansDone, First
<1> QED BY <1>1, <1>2, <1>3 DEF MaildropNext

(* Whatever becomes of the inbox under the session, QUIT trashes what the client
   marked and nothing else, and +OK means that all of it has left the inbox. *)
THEOREM QuitTrashesTheMarked == MaildropSpec => []QuitDoesAsTold
<1>1. MaildropInv => QuitDoesAsTold
  BY DEF MaildropInv, OkMeansDone, QuitDoesAsTold
<1> QED BY <1>1, DropInit, DropStepKeeps, PTL DEF MaildropSpec

-----------------------------------------------------------------------------
(* Lists: removal of a place, functions computed step by step, and the one
   ascending list of a set of positions. *)

(* The least and the greatest of some positions. *)
LEMMA MinIs ==
  ASSUME NEW S \in SUBSET Nat, S # {}
  PROVE  Min(S) \in S /\ \A x \in S : Min(S) <= x
<1>1. PICK n \in S : \A k \in S : n <= k
  BY LeastNumber
<1> QED BY <1>1 DEF Min

LEMMA MaxIs ==
  ASSUME NEW n \in Nat, NEW S \in SUBSET 0..n, S # {}
  PROVE  Max(S) \in S /\ \A x \in S : x <= Max(S)
<1> DEFINE B == {b \in Nat : \A x \in S : x <= b}
<1>1. PICK b \in B : \A k \in B : b <= k
  <2>1. B \in SUBSET Nat /\ n \in B
    OBVIOUS
  <2> HIDE DEF B
  <2> QED BY <2>1, LeastNumber
<1>2. b \in S
  <2> SUFFICES ASSUME b \notin S PROVE FALSE
    OBVIOUS
  <2>1. \A x \in S : x \in Nat /\ x < b
    BY <1>1
  <2>2. PICK x \in S : TRUE
    OBVIOUS
  <2>3. b \in Nat /\ b - 1 \in Nat
    BY <2>1, <2>2, <1>1
  <2>4. b - 1 \in B
    BY <2>1, <2>3
  <2> HIDE DEF B
  <2> QED BY <1>1, <2>3, <2>4
<1>3. \A x \in S : x <= b
  BY <1>1
<1>4. \A m \in S : (\A x \in S : m >= x) => m = b
  BY <1>2, <1>3
<1> QED BY <1>2, <1>3 DEF Max

(* What is computed step by step: it exists, and stays within bounds that
   each step keeps. *)
LEMMA StepwiseStays ==
  ASSUME NEW n \in Nat, NEW X, NEW g, g[0] \in X[0],
         \A k \in 1..n : g[k - 1] \in X[k - 1] => g[k] \in X[k]
  PROVE  \A k \in 0..n : g[k] \in X[k]
<1> DEFINE Bad == {k \in 0..n : g[k] \notin X[k]}
<1>1. ASSUME NEW l \in Bad, \A k \in Bad : l <= k PROVE FALSE
  <2>1. l \in 0..n /\ l # 0 /\ g[l] \notin X[l]
    OBVIOUS
  <2>2. l \in 1..n /\ l - 1 \in 0..n /\ ~(l <= l - 1)
    BY <2>1
  <2>3. g[l - 1] \in X[l - 1]
    BY <1>1, <2>2
  <2> QED BY <2>1, <2>2, <2>3
<1>2. Bad \in SUBSET Nat
  OBVIOUS
<1>3. Bad = {}
  <2> HIDE DEF Bad
  <2> QED BY <1>1, <1>2, LeastNumber
<1> QED BY <1>3

StaysIn(X, F, n) == \A k \in 1..n : \A x \in X[k - 1] : F[k][x] \in X[k]

Computes(g, a, X, F, n) ==
  /\ g[0] = a
  /\ \A k \in 1..n : g[k] = F[k][g[k - 1]]
  /\ \A k \in 0..n : g[k] \in X[k]

LEMMA StepwiseExists ==
  ASSUME NEW n \in Nat, NEW X, NEW F, NEW a \in X[0], StaysIn(X, F, n)
  PROVE  \E Y, g : g \in [0..n -> Y] /\ Computes(g, a, X, F, n)
<1> DEFINE Grows(g, l) == /\ g = [k \in 0..l |-> g[k]] /\ g[0] = a
                          /\ \A k \in 1..l : g[k] = F[k][g[k - 1]]
           Bad == {l \in Nat : \A g : ~Grows(g, l)}
<1>1. ASSUME NEW l \in Bad, \A k \in Bad : l <= k PROVE FALSE
  <2>0. l \in Nat /\ \A g : ~Grows(g, l)
    BY <1>1
  <2>1. l # 0
    <3> DEFINE z == [k \in 0..0 |-> a]
    <3>1. z = [k \in 0..0 |-> z[k]] /\ z[0] = a /\ 1..0 = {}
      OBVIOUS
    <3> HIDE DEF z
    <3>2. Grows(z, 0)
      BY <3>1
    <3> QED BY <3>2, <2>0
  <2>2. l - 1 \in Nat /\ l - 1 \notin Bad
    <3>1. l - 1 \in Nat /\ ~(l <= l - 1)
      BY <2>0, <2>1
    <3> QED BY <1>1, <3>1
  <2>3. PICK g : Grows(g, l - 1)
    BY <2>2
  <2> DEFINE h == [k \in 0..l |-> IF k = l THEN F[l][g[l - 1]] ELSE g[k]]
  <2>4. h = [k \in 0..l |-> h[k]]
    OBVIOUS
  <2>5. h[0] = a
    BY <2>0, <2>1, <2>3
  <2>6. ASSUME NEW k \in 1..l PROVE h[k] = F[k][h[k - 1]]
    <3>1. k - 1 \in 0..l /\ k - 1 # l /\ k \in 0..l
      BY <2>0
    <3>2. h[k - 1] = g[k - 1]
      BY <3>1
    <3>3. CASE k = l
      BY <3>1, <3>2, <3>3
    <3>4. CASE k # l
      <4>1. k \in 1..(l - 1)
        BY <3>4, <2>0
      <4> QED BY <3>1, <3>2, <3>4, <4>1, <2>3
    <3> QED BY <3>3, <3>4
  <2> HIDE DEF h
  <2>7. Grows(h, l)
    BY <2>4, <2>5, <2>6
  <2> QED BY <2>7, <2>0
<1>2. Bad \in SUBSET Nat
  OBVIOUS
<1>3. n \notin Bad
  <2> HIDE DEF Bad
  <2> QED BY <1>1, <1>2, LeastNumber
<1>4. PICK g : Grows(g, n)
  BY <1>3
<1> DEFINE Y == {g[k] : k \in 0..n}
<1>6. g \in [0..n -> Y]
  BY <1>4
<1>7. \A k \in 0..n : g[k] \in X[k]
  <2>1. g[0] \in X[0] /\ \A k \in 1..n : g[k - 1] \in X[k - 1] => g[k] \in X[k]
    BY <1>4 DEF StaysIn
  <2> QED BY <2>1, StepwiseStays
<1> HIDE DEF Y
<1>8. Computes(g, a, X, F, n)
  BY <1>4, <1>7 DEF Computes
<1> QED BY <1>6, <1>8

LEMMA ListIs ==
  ASSUME NEW S, NEW l \in Nat, NEW q \in [1..l -> S]
  PROVE  q \in Seq(S) /\ Len(q) = l
OBVIOUS

LEMMA RemoveAtIs ==
  ASSUME NEW S, NEW q \in Seq(S), NEW i \in 1..Len(q)
  PROVE  /\ RemoveAt(q, i) \in Seq(S)
         /\ Len(RemoveAt(q, i)) = Len(q) - 1
         /\ \A k \in 1..(Len(q) - 1) : RemoveAt(q, i)[k] = q[IF k < i THEN k ELSE k + 1]
<1> DEFINE a == SubSeq(q, 1, i - 1)
           b == SubSeq(q, i + 1, Len(q))
<1>0. Len(q) \in Nat /\ i \in Nat
  OBVIOUS
<1>1. a \in Seq(S) /\ Len(a) = i - 1 /\ \A k \in 1..(i - 1) : a[k] = q[k]
  BY <1>0
<1>2. b \in Seq(S) /\ Len(b) = Len(q) - i /\ \A k \in 1..(Len(q) - i) : b[k] = q[i + k]
  BY <1>0
<1> HIDE DEF a, b
<1>3. RemoveAt(q, i) = a \o b
  BY DEF RemoveAt, a, b
<1>4. ASSUME NEW k \in 1..(Len(q) - 1) PROVE (a \o b)[k] = q[IF k < i THEN k ELSE k + 1]
  <2>1. CASE k < i
    BY <1>0, <1>1, <1>2, <2>1
  <2>2. CASE ~(k < i)
    <3>1. k - (i - 1) \in 1..(Len(q) - i) /\ (a \o b)[k] = b[k - (i - 1)]
      BY <1>0, <1>1, <1>2, <2>2
    <3>2. i + (k - (i - 1)) = k + 1
      BY <1>0
    <3> QED BY <1>2, <2>2, <3>1, <3>2
  <2> QED BY <2>1, <2>2
<1> QED BY <1>0, <1>1, <1>2, <1>3, <1>4

(* The positions of a set in ascending order. *)
Ascends(o, P) ==
  /\ o \in [1..Cardinality(P) -> P]
  /\ \A i, j \in 1..Cardinality(P) : i < j => o[i] < o[j]

LEMMA AscentIsOnto ==
  ASSUME NEW P \in SUBSET Nat, IsFiniteSet(P), NEW o, Ascends(o, P)
  PROVE  /\ Cardinality(P) \in Nat
         /\ \A i, j \in 1..Cardinality(P) : o[i] = o[j] => i = j
         /\ \A x \in P : \E i \in 1..Cardinality(P) : o[i] = x
<1> DEFINE c == Cardinality(P)
<1>1. c \in Nat
  BY FS_CardinalityType
<1> HIDE DEF c
<1>2. o \in [1..c -> P] /\ \A i, j \in 1..c : i < j => o[i] < o[j]
  BY DEF Ascends, c
<1>3. ASSUME NEW i \in 1..c, NEW j \in 1..c, o[i] = o[j] PROVE i = j
  <2>1. o[i] \in Nat /\ o[j] \in Nat
    BY <1>2
  <2>2. ~(i < j) /\ ~(j < i)
    BY <2>1, <1>2, <1>3
  <2> QED BY <2>2, <1>1
<1>4. o \in Injection(1..c, P)
  BY <1>2, <1>3 DEF Injection, IsInjective
<1>5. Cardinality(1..c) = c
  BY <1>1, FS_Interval
<1>6. o \in Surjection(1..c, P)
  BY <1>4, <1>5, FS_Injection DEF c
<1>7. \A x \in P : \E i \in 1..c : o[i] = x
  BY <1>6 DEF Surjection
<1> QED BY <1>1, <1>3, <1>7 DEF c

LEMMA PlaceIsRank ==
  ASSUME NEW P \in SUBSET Nat, IsFiniteSet(P), NEW o, Ascends(o, P),
         NEW i \in 1..Cardinality(P)
  PROVE  Cardinality({y \in P : y <= o[i]}) = i
<1> DEFINE c == Cardinality(P)
           T == {y \in P : y <= o[i]}
<1>1. /\ c \in Nat /\ i \in 1..c /\ o \in [1..c -> P] /\ \A j, k \in 1..c : j < k => o[j] < o[k]
      /\ \A x \in P : \E j \in 1..c : o[j] = x
  BY AscentIsOnto DEF Ascends
<1> HIDE DEF c
<1>2. \A j \in 1..i : j \in 1..c /\ o[j] \in T
  <2> SUFFICES ASSUME NEW j \in 1..i PROVE j \in 1..c /\ o[j] \in T
    OBVIOUS
  <2>1. j \in 1..c
    BY <1>1
  <2>2. o[j] \in P /\ o[j] \in Nat /\ o[i] \in Nat /\ (j < i => o[j] < o[i])
    BY <1>1, <2>1
  <2> QED BY <2>1, <2>2
<1>3. ASSUME NEW y \in T PROVE \E j \in 1..i : o[j] = y
  <2>1. PICK j \in 1..c : o[j] = y
    BY <1>1
  <2>2. o[j] <= o[i] /\ o[j] \in Nat /\ o[i] \in Nat
    BY <1>1, <2>1
  <2>3. ~(i < j)
    BY <1>1, <2>1, <2>2
  <2> QED BY <1>1, <2>1, <2>3
<1> DEFINE b == [j \in 1..i |-> o[j]]
<1>4. b \in [1..i -> T]
  BY <1>2
<1>5. \A j, k \in 1..i : b[j] = b[k] => j = k
  <2> SUFFICES ASSUME NEW j \in 1..i, NEW k \in 1..i, o[j] = o[k] PROVE j = k
    OBVIOUS
  <2>1. j \in 1..c /\ k \in 1..c /\ o[j] \in Nat /\ o[k] \in Nat
    BY <1>1, <1>2
  <2>2. ~(j < k) /\ ~(k < j)
    BY <1>1, <2>1
  <2> QED BY <2>2
<1>6. b \in Bijection(1..i, T)
  <2>1. \A y \in T : \E j \in 1..i : b[j] = y
    BY <1>3
  <2> HIDE DEF b, T
  <2> QED BY <1>4, <1>5, <2>1 DEF Bijection, Injection, Surjection, IsInjective
<1>7. i \in Nat /\ ExistsBijection(1..i, T)
  <2> HIDE DEF b, T
  <2> QED BY <1>1, <1>6 DEF ExistsBijection
<1> HIDE DEF T
<1>8. Cardinality(T) = i
  BY <1>7, FS_CountingElements
<1> QED BY <1>8 DEF T

(* There is only one ascending order. *)
LEMMA AscentIsUnique ==
  ASSUME NEW P \in SUBSET Nat, IsFiniteSet(P), NEW o, NEW p, Ascends(o, P), Ascends(p, P)
  PROVE  \A i \in 1..Cardinality(P) : o[i] = p[i]
<1> SUFFICES ASSUME NEW i \in 1..Cardinality(P) PROVE o[i] = p[i]
  OBVIOUS
<1>1. o[i] \in P
  BY DEF Ascends
<1>2. PICK j \in 1..Cardinality(P) : p[j] = o[i]
  BY <1>1, AscentIsOnto
<1>3. /\ Cardinality({y \in P : y <= o[i]}) = i
      /\ Cardinality({y \in P : y <= p[j]}) = j
  BY PlaceIsRank
<1>4. i = j
  BY <1>2, <1>3
<1> QED BY <1>2, <1>4

LEMMA AscentExists ==
  ASSUME NEW P \in SUBSET Nat, IsFiniteSet(P)
  PROVE  \E o : Ascends(o, P)
<1> DEFINE w == [m \in Nat |-> m]
<1>1. PICK q : Sorts(q, P, w)
  BY SortExists
<1>2. Cardinality(P) \in Nat
  BY FS_CardinalityType
<1>3. ASSUME NEW i \in 1..Cardinality(P), NEW j \in 1..Cardinality(P), i < j PROVE q[i] < q[j]
  <2>1. q[i] \in Nat /\ q[j] \in Nat /\ q[i] # q[j]
    <3>1. q[i] \in P /\ q[j] \in P /\ (q[i] = q[j] => i = j)
      BY <1>1 DEF Sorts
    <3>2. i # j
      BY <1>2, <1>3
    <3> QED BY <3>1, <3>2
  <2>2. w[q[i]] <= w[q[j]]
    BY <1>1, <1>3 DEF Sorts
  <2>3. w[q[i]] = q[i] /\ w[q[j]] = q[j]
    BY <2>1
  <2> QED BY <2>1, <2>2, <2>3
<1> QED BY <1>1, <1>3 DEF Ascends, Sorts

-----------------------------------------------------------------------------
(* EXPUNGE lines: the k-th number, less the lines before it, is the place of
   the k-th position that goes among those that are left. *)

(* The first k of some positions, and what is left of 1..n without them. *)
FirstOf(gone, k) == {gone[j] : j \in 1..k}
Remain(n, gone, k) == (1..n) \ FirstOf(gone, k)

LEMMA FirstOfSize ==
  ASSUME NEW n \in Nat, NEW G \in SUBSET 1..n, NEW gone, Ascends(gone, G),
         NEW k \in 0..Cardinality(G)
  PROVE  /\ IsFiniteSet(G) /\ Cardinality(G) \in Nat /\ k \in Nat
         /\ FirstOf(gone, k) \subseteq G
         /\ IsFiniteSet(FirstOf(gone, k)) /\ Cardinality(FirstOf(gone, k)) = k
         /\ IsFiniteSet(Remain(n, gone, k)) /\ Cardinality(Remain(n, gone, k)) = n - k
<1>1. IsFiniteSet(1..n) /\ Cardinality(1..n) = n
  BY FS_Interval
<1>2. IsFiniteSet(G) /\ Cardinality(G) \in Nat /\ k \in Nat /\ G \in SUBSET Nat
  <2>1. IsFiniteSet(G) /\ Cardinality(G) \in Nat
    BY <1>1, FS_Subset, FS_CardinalityType
  <2> QED BY <2>1
<1>3. FirstOf(gone, k) \subseteq G
  <2>1. \A j \in 1..k : j \in 1..Cardinality(G)
    BY <1>2
  <2>2. \A j \in 1..Cardinality(G) : gone[j] \in G
    BY DEF Ascends
  <2> QED BY <2>1, <2>2 DEF FirstOf
<1>4. IsFiniteSet(FirstOf(gone, k)) /\ Cardinality(FirstOf(gone, k)) = k
  <2>1. CASE k = 0
    <3>1. FirstOf(gone, k) = {}
      BY <2>1 DEF FirstOf
    <3> QED BY <2>1, <3>1, FS_EmptySet
  <2>2. CASE k # 0
    <3>0. k \in 1..Cardinality(G) /\ \A x \in G : x \in Nat
      BY <2>2, <1>2
    <3>1. FirstOf(gone, k) = {y \in G : y <= gone[k]}
      <4>1. ASSUME NEW j \in 1..k PROVE gone[j] \in G /\ gone[j] <= gone[k]
        <5>1. j \in 1..Cardinality(G) /\ (j < k \/ j = k)
          BY <3>0, <1>2
        <5>2. gone[j] \in G /\ gone[k] \in G /\ (j < k => gone[j] < gone[k])
          BY <3>0, <5>1 DEF Ascends
        <5>3. gone[j] \in Nat /\ gone[k] \in Nat
          BY <5>2, <3>0
        <5> QED BY <5>1, <5>2, <5>3
      <4>2. ASSUME NEW y \in G, y <= gone[k] PROVE \E j \in 1..k : gone[j] = y
        <5>1. PICK j \in 1..Cardinality(G) : gone[j] = y
          BY <1>2, AscentIsOnto
        <5>2. gone[k] \in G /\ gone[j] \in G /\ (k < j => gone[k] < gone[j])
          BY <3>0 DEF Ascends
        <5>3. ~(k < j)
          <6>1. gone[k] \in Nat /\ gone[j] \in Nat
            BY <5>2, <3>0
          <6> QED BY <5>1, <5>2, <4>2, <6>1
        <5> QED BY <5>1, <5>3, <1>2
      <4> QED BY <4>1, <4>2 DEF FirstOf
    <3>2. Cardinality({y \in G : y <= gone[k]}) = k
      BY <3>0, <1>2, PlaceIsRank
    <3>3. IsFiniteSet(FirstOf(gone, k))
      BY <1>2, <1>3, FS_Subset
    <3> QED BY <3>1, <3>2, <3>3
  <2> QED BY <2>1, <2>2
<1>5. IsFiniteSet(Remain(n, gone, k)) /\ Cardinality(Remain(n, gone, k)) = n - k
  <2> DEFINE A == FirstOf(gone, k)
             B == Remain(n, gone, k)
  <2>1. A \cup B = 1..n /\ A \cap B = {} /\ B \in SUBSET (1..n)
    BY <1>3 DEF Remain
  <2>2. IsFiniteSet(B) /\ Cardinality(B) \in Nat
    BY <1>1, <2>1, FS_Subset, FS_CardinalityType
  <2> HIDE DEF A, B
  <2>3. IsFiniteSet(A) /\ Cardinality(A) = k
    BY <1>4 DEF A
  <2>4. Cardinality(A \cup B) = Cardinality(A) + Cardinality(B) - Cardinality(A \cap B)
    BY <2>2, <2>3, FS_Union
  <2>5. Cardinality(A \cap B) = 0
    BY <2>1, FS_EmptySet
  <2>6. n = k + Cardinality(B) - 0
    BY <1>1, <2>1, <2>3, <2>4, <2>5
  <2>7. Cardinality(B) = n - k
    BY <2>6, <2>2, <1>2
  <2> QED BY <2>2, <2>7 DEF B
<1> QED BY <1>2, <1>3, <1>4, <1>5

(* Where the next position to go stands among those that are left. *)
LEMMA NextPlace ==
  ASSUME NEW n \in Nat, NEW G \in SUBSET 1..n, NEW gone, Ascends(gone, G),
         NEW k \in 1..Cardinality(G), NEW o, Ascends(o, Remain(n, gone, k - 1))
  PROVE  /\ gone[k] - (k - 1) \in 1..(n - (k - 1))
         /\ o[gone[k] - (k - 1)] = gone[k]
<1> DEFINE P == Remain(n, gone, k - 1)
           A == FirstOf(gone, k - 1)
<1>1. Cardinality(G) \in Nat /\ k - 1 \in 0..Cardinality(G) /\ k \in 0..Cardinality(G) /\ k \in Nat
  <2>1. 0 \in 0..Cardinality(G)
    <3>1. IsFiniteSet(1..n)
      BY FS_Interval
    <3>2. Cardinality(G) \in Nat
      BY <3>1, FS_Subset, FS_CardinalityType
    <3> QED BY <3>2
  <2>2. Cardinality(G) \in Nat
    BY <2>1, FirstOfSize
  <2> QED BY <2>2
<1>2. /\ A \subseteq G /\ IsFiniteSet(A) /\ Cardinality(A) = k - 1
      /\ IsFiniteSet(P) /\ Cardinality(P) = n - (k - 1)
  BY <1>1, FirstOfSize
<1>3. gone[k] \in G /\ gone[k] \in 1..n /\ \A j \in 1..(k - 1) : gone[j] < gone[k]
  <2>1. \A j \in 1..(k - 1) : j \in 1..Cardinality(G) /\ j < k
    BY <1>1
  <2> QED BY <2>1 DEF Ascends
<1>4. gone[k] \in P /\ P \in SUBSET Nat
  <2>1. gone[k] \notin A
    BY <1>3 DEF FirstOf
  <2> QED BY <1>3, <2>1 DEF Remain
<1>5. PICK r \in 1..Cardinality(P) : o[r] = gone[k]
  BY <1>2, <1>4, AscentIsOnto
<1>6. Cardinality({y \in P : y <= o[r]}) = r
  BY <1>2, <1>4, <1>5, PlaceIsRank
<1>7. Cardinality({y \in P : y <= gone[k]}) = gone[k] - (k - 1)
  <2> DEFINE B == {y \in P : y <= gone[k]}
  <2>1. A \cup B = 1..gone[k] /\ A \cap B = {} /\ B \in SUBSET P
    <3>1. A \cup B = 1..gone[k]
      <4>1. ASSUME NEW y \in A PROVE y \in 1..gone[k]
        <5>1. PICK j \in 1..(k - 1) : y = gone[j]
          BY DEF FirstOf
        <5>2. y \in 1..n /\ y < gone[k]
          BY <5>1, <1>3, <1>2
        <5> QED BY <5>2, <1>3
      <4>2. ASSUME NEW y \in B PROVE y \in 1..gone[k]
        BY <1>3 DEF Remain
      <4>3. ASSUME NEW y \in 1..gone[k] PROVE y \in A \/ y \in B
        BY <1>3 DEF Remain
      <4> HIDE DEF A, B
      <4> QED BY <4>1, <4>2, <4>3
    <3> QED BY <3>1 DEF Remain
  <2>2. IsFiniteSet(B) /\ Cardinality(B) \in Nat
    BY <1>2, <2>1, FS_Subset, FS_CardinalityType
  <2>3. Cardinality(1..gone[k]) = gone[k]
    <3>1. gone[k] \in Nat /\ gone[k] >= 1
      BY <1>3
    <3> HIDE DEF A, B, P
    <3>2. \A x \in Nat : x >= 1 => Cardinality(1..x) = x
      BY FS_Interval
    <3> QED BY <3>1, <3>2
  <2> HIDE DEF A, B, P
  <2>4. Cardinality(A \cup B) = Cardinality(A) + Cardinality(B) - Cardinality(A \cap B)
    BY <1>2, <2>2, FS_Union
  <2>5. Cardinality(A \cap B) = 0
    BY <2>1, FS_EmptySet
  <2>6. gone[k] = (k - 1) + Cardinality(B) - 0
    BY <1>2, <2>1, <2>3, <2>4, <2>5
  <2>7. Cardinality(B) = gone[k] - (k - 1)
    BY <2>6, <2>2, <1>1
  <2> QED BY <2>7 DEF B
<1> HIDE DEF P
<1>8. r = gone[k] - (k - 1)
  BY <1>5, <1>6, <1>7
<1> QED BY <1>2, <1>5, <1>8

(* Without it, the rest still ascends. *)
LEMMA RemainsAscending ==
  ASSUME NEW n \in Nat, NEW G \in SUBSET 1..n, NEW gone, Ascends(gone, G),
         NEW k \in 1..Cardinality(G), NEW o, Ascends(o, Remain(n, gone, k - 1)),
         NEW p, p = gone[k] - (k - 1)
  PROVE  Ascends([i \in 1..(n - k) |-> o[IF i < p THEN i ELSE i + 1]], Remain(n, gone, k))
<1> DEFINE q == [i \in 1..(n - k) |-> o[IF i < p THEN i ELSE i + 1]]
           from(i) == IF i < p THEN i ELSE i + 1
           P == Remain(n, gone, k - 1)
<1>1. Cardinality(G) \in Nat /\ k - 1 \in 0..Cardinality(G) /\ k \in 0..Cardinality(G) /\ k \in Nat
  <2>1. IsFiniteSet(1..n)
    BY FS_Interval
  <2>2. Cardinality(G) \in Nat
    BY <2>1, FS_Subset, FS_CardinalityType
  <2> QED BY <2>2
<1>2. /\ IsFiniteSet(P) /\ Cardinality(P) = n - (k - 1) /\ P \in SUBSET Nat
      /\ IsFiniteSet(Remain(n, gone, k)) /\ Cardinality(Remain(n, gone, k)) = n - k
  <2>1. /\ IsFiniteSet(P) /\ Cardinality(P) = n - (k - 1)
        /\ IsFiniteSet(Remain(n, gone, k)) /\ Cardinality(Remain(n, gone, k)) = n - k
    BY <1>1, FirstOfSize
  <2>2. P \in SUBSET Nat
    BY DEF Remain
  <2> QED BY <2>1, <2>2
<1>3. p \in 1..(n - (k - 1)) /\ o[p] = gone[k]
  BY NextPlace
<1>4. P \ {gone[k]} = Remain(n, gone, k)
  <2>1. \A j : j \in 1..k <=> (j \in 1..(k - 1) \/ j = k)
    BY <1>1
  <2>2. FirstOf(gone, k) = FirstOf(gone, k - 1) \cup {gone[k]}
    BY <2>1 DEF FirstOf
  <2> QED BY <2>2 DEF Remain
<1>5. /\ o \in [1..(n - (k - 1)) -> P]
      /\ \A i, j \in 1..(n - (k - 1)) : i < j => o[i] < o[j]
      /\ \A i, j \in 1..(n - (k - 1)) : o[i] = o[j] => i = j
  <2>1. Ascends(o, P)
    OBVIOUS
  <2> HIDE DEF P
  <2>2. \A i, j \in 1..Cardinality(P) : o[i] = o[j] => i = j
    BY <1>2, <2>1, AscentIsOnto
  <2> QED BY <1>2, <2>1, <2>2 DEF Ascends
<1>6. \A i \in 1..(n - k) : from(i) \in 1..(n - (k - 1)) /\ from(i) # p
  BY <1>1, <1>3
<1>7. \A i, j \in 1..(n - k) : i < j => from(i) < from(j)
  BY <1>1, <1>3
<1>8. \A i \in 1..(n - k) : q[i] = o[from(i)]
  OBVIOUS
<1> HIDE DEF from, P
<1>9. q \in [1..(n - k) -> Remain(n, gone, k)]
  <2>1. ASSUME NEW i \in 1..(n - k) PROVE o[from(i)] \in Remain(n, gone, k)
    <3>1. o[from(i)] \in P /\ o[from(i)] # o[p]
      BY <1>3, <1>5, <1>6
    <3> QED BY <3>1, <1>3, <1>4
  <2> QED BY <2>1 DEF from
<1> HIDE DEF q
<1>10. \A i, j \in 1..(n - k) : i < j => q[i] < q[j]
  BY <1>5, <1>6, <1>7, <1>8
<1>11. Ascends(q, Remain(n, gone, k))
  BY <1>2, <1>9, <1>10 DEF Ascends
<1> QED BY <1>11 DEF q

-----------------------------------------------------------------------------
(* The operators of MailboxView: reports, dropped UIDs and assigned UIDs. *)

LEMMA InOrderIs ==
  ASSUME NEW P \in SUBSET Nat, IsFiniteSet(P)
  PROVE  Ascends(InOrder(P), P)
<1>1. PICK o : Ascends(o, P)
  BY AscentExists
<1>2. \E q \in [1..Cardinality(P) -> P] : \A i, j \in DOMAIN q : i < j => q[i] < q[j]
  BY <1>1 DEF Ascends
<1>3. /\ InOrder(P) \in [1..Cardinality(P) -> P]
      /\ \A i, j \in DOMAIN InOrder(P) : i < j => InOrder(P)[i] < InOrder(P)[j]
  BY <1>2 DEF InOrder
<1> HIDE DEF InOrder
<1> QED BY <1>3 DEF Ascends

(* What the client has after the lines it was sent. *)
LEMMA HeardStays ==
  ASSUME NEW list, NEW lines, NEW c \in Nat, Len(lines) = c, NEW X, list \in X[0],
         \A k \in 1..c : \A q \in X[k - 1] : RemoveAt(q, lines[k]) \in X[k]
  PROVE  Heard(list, lines) \in X[c]
<1> DEFINE F == [k \in 1..c |-> [q \in X[k - 1] |-> RemoveAt(q, lines[k])]]
           Is(h) == h = [k \in 0..c |-> IF k = 0 THEN list ELSE RemoveAt(h[k - 1], lines[k])]
           h == CHOOSE h : Is(h)
<1>1. Heard(list, lines) = h[c]
  BY DEF Heard
<1>2. \A k \in 1..c : \A q \in X[k - 1] : F[k][q] = RemoveAt(q, lines[k]) /\ F[k][q] \in X[k]
  OBVIOUS
<1> HIDE DEF F
<1>3. PICK Y, g : g \in [0..c -> Y] /\ Computes(g, list, X, F, c)
  <2>1. StaysIn(X, F, c)
    BY <1>2 DEF StaysIn
  <2> QED BY <2>1, StepwiseExists
<1>4. \A k \in 0..c : g[k] = IF k = 0 THEN list ELSE RemoveAt(g[k - 1], lines[k])
  <2>1. \A k \in 0..c : k # 0 => k \in 1..c /\ k - 1 \in 0..c
    OBVIOUS
  <2> QED BY <2>1, <1>2, <1>3 DEF Computes
<1>5. Is(g)
  BY <1>3, <1>4
<1>6. Is(h)
  BY <1>5
<1> HIDE DEF h
<1>7. h[0] = list /\ \A k \in 1..c : h[k] = RemoveAt(h[k - 1], lines[k])
  BY <1>6
<1>8. \A k \in 0..c : h[k] \in X[k]
  BY <1>7, StepwiseStays
<1> QED BY <1>1, <1>8

(* Two lists that went through the same removals: what stands at a place of
   both stood at a place of both before. *)
Together(us, ns, us0, ns0) ==
  /\ Len(us) = Len(ns)
  /\ \A i \in 1..Len(us) : \E j \in 1..Len(us0) : us[i] = us0[j] /\ ns[i] = ns0[j]

(* A client and a session with the lists list and known, after a report. *)
Reported(list, known, present, e, heard, kept) ==
  /\ heard = Heard(list, ExpungeLines(known, present))
  /\ kept = Kept(known, present, e)

(* The lines of a report leave the client with the messages whose UIDs the
   session keeps, each at the place of its UID. *)
LEMMA ReportedTogether ==
  ASSUME NEW list \in Seq(Msgs), NEW known \in Seq(Nat), Len(list) = Len(known),
         NEW present, NEW e \in BOOLEAN, e, NEW heard, NEW kept,
         Reported(list, known, present, e, heard, kept)
  PROVE  heard \in Seq(Msgs) /\ kept \in Seq(Nat) /\ Together(kept, heard, known, list)
<1> DEFINE n == Len(known)
           G == {i \in DOMAIN known : known[i] \notin present}
           P == {i \in DOMAIN known : known[i] \in present}
           gone == InOrder(G)
           stay == InOrder(P)
           c == Cardinality(G)
           X == [k \in 0..c |-> {q \in Seq(Msgs) : /\ Len(q) = n - k
                                  /\ \E o : /\ Ascends(o, Remain(n, gone, k))
                                            /\ \A i \in 1..(n - k) : q[i] = list[o[i]]}]
<1>1. n \in Nat /\ DOMAIN known = 1..n /\ G \in SUBSET 1..n /\ P \in SUBSET 1..n
  OBVIOUS
<1>2. IsFiniteSet(G) /\ IsFiniteSet(P) /\ c \in Nat /\ Cardinality(P) \in Nat
  <2>1. IsFiniteSet(1..n)
    BY <1>1, FS_Interval
  <2> HIDE DEF n, G, P
  <2> QED BY <1>1, <2>1, FS_Subset, FS_CardinalityType DEF c
<1>3. Ascends(gone, G) /\ Ascends(stay, P)
  <2>1. G \in SUBSET Nat /\ P \in SUBSET Nat
    BY <1>1
  <2> HIDE DEF G, P
  <2> QED BY <1>2, <2>1, InOrderIs
<1>4. Remain(n, gone, 0) = 1..n /\ Remain(n, gone, c) = P
  <2>1. FirstOf(gone, 0) = {}
    BY DEF FirstOf
  <2>2. FirstOf(gone, c) = G
    <3>1. G \in SUBSET Nat
      BY <1>1
    <3> HIDE DEF G
    <3>2. \A x \in G : \E i \in 1..c : gone[i] = x
      BY <1>2, <1>3, <3>1, AscentIsOnto
    <3>3. \A i \in 1..c : gone[i] \in G
      BY <1>3 DEF Ascends
    <3> QED BY <3>2, <3>3 DEF FirstOf
  <2>3. (1..n) \ G = P
    BY <1>1
  <2> QED BY <2>1, <2>2, <2>3 DEF Remain
<1>5. /\ Len(ExpungeLines(known, present)) = c
      /\ \A k \in 1..c : ExpungeLines(known, present)[k] = gone[k] - (k - 1)
  <2>1. ExpungeLines(known, present) = [k \in DOMAIN gone |-> gone[k] - (k - 1)]
    BY DEF ExpungeLines
  <2>2. DOMAIN gone = 1..c
    BY <1>3 DEF Ascends
  <2> HIDE DEF gone
  <2> QED BY <1>2, <2>1, <2>2
<1>0. heard = Heard(list, ExpungeLines(known, present))
  BY DEF Reported
<1>6. kept = [k \in DOMAIN stay |-> known[stay[k]]]
  BY DEF Kept, Reported
<1>7. DOMAIN list = 1..n /\ \A i \in 1..n : list[i] \in Msgs /\ known[i] \in Nat
  BY <1>1
<1> HIDE DEF n, G, P, gone, stay, c
<1>8. list \in X[0]
  <2> DEFINE o == [i \in 1..n |-> i]
  <2>1. Cardinality(1..n) = n
    BY <1>1, FS_Interval
  <2>2. Ascends(o, Remain(n, gone, 0))
    BY <1>1, <1>4, <2>1 DEF Ascends
  <2>3. \A i \in 1..(n - 0) : list[i] = list[o[i]]
    BY <1>1
  <2> HIDE DEF o
  <2>4. Len(list) = n - 0
    BY <1>1 DEF n
  <2> QED BY <1>2, <2>2, <2>3, <2>4
<1>9. ASSUME NEW k \in 1..c, NEW q \in X[k - 1]
      PROVE  RemoveAt(q, ExpungeLines(known, present)[k]) \in X[k]
  <2> DEFINE p == gone[k] - (k - 1)
             m == n - k
             r == RemoveAt(q, p)
  <2>0. k \in 0..c /\ k - 1 \in 0..c /\ k \in Nat /\ c \in Nat
    BY <1>2
  <2>1. q \in Seq(Msgs) /\ Len(q) = n - (k - 1)
    BY <2>0
  <2>2. PICK o : Ascends(o, Remain(n, gone, k - 1)) /\ \A i \in 1..(n - (k - 1)) : q[i] = list[o[i]]
    BY <2>0
  <2>3. p \in 1..Len(q)
    <3>1. k \in 1..Cardinality(G)
      BY DEF c
    <3>2. gone[k] - (k - 1) \in 1..(n - (k - 1))
      BY <1>1, <1>3, <2>2, <3>1, NextPlace
    <3> QED BY <2>1, <3>2
  <2>4. /\ r \in Seq(Msgs) /\ Len(r) = n - k
        /\ \A i \in 1..(n - k) : r[i] = q[IF i < p THEN i ELSE i + 1]
    <3> HIDE DEF p
    <3>1. Len(q) - 1 = n - k
      BY <2>0, <2>1, <1>1
    <3>2. /\ r \in Seq(Msgs) /\ Len(r) = Len(q) - 1
          /\ \A i \in 1..(Len(q) - 1) : r[i] = q[IF i < p THEN i ELSE i + 1]
      BY <2>1, <2>3, RemoveAtIs
    <3> QED BY <3>1, <3>2
  <2> DEFINE d == [i \in 1..(n - k) |-> o[IF i < p THEN i ELSE i + 1]]
  <2>5. Ascends(d, Remain(n, gone, k))
    BY <1>1, <1>2, <1>3, <2>2, RemainsAscending DEF c
  <2>6. \A i \in 1..(n - k) : r[i] = list[d[i]]
    <3>1. ASSUME NEW i \in 1..(n - k)
          PROVE  (IF i < p THEN i ELSE i + 1) \in 1..(n - (k - 1))
      <4> HIDE DEF p, X
      <4>1. n \in Nat /\ k \in Nat /\ p \in Nat
        BY <1>1, <2>0, <2>1, <2>3
      <4>2. i \in 1..(n - (k - 1)) /\ i + 1 \in 1..(n - (k - 1))
        BY <4>1
      <4> QED BY <4>2
    <3> QED BY <2>2, <2>4, <3>1
  <2>7. r \in X[k]
    <3> HIDE DEF r, d, p
    <3> QED BY <2>0, <2>4, <2>5, <2>6
  <2> QED BY <1>5, <2>7
<1>10. heard \in X[c]
  <2> HIDE DEF X
  <2> QED BY <1>0, <1>2, <1>5, <1>8, <1>9, HeardStays
<1>11. PICK o : Ascends(o, P) /\ \A i \in 1..(n - c) : heard[i] = list[o[i]]
  BY <1>2, <1>4, <1>10
<1>12. heard \in Seq(Msgs) /\ Len(heard) = n - c
  BY <1>2, <1>10
<1>13. Cardinality(P) = n - c
  <2>1. c \in 0..c
    BY <1>2
  <2> QED BY <1>1, <1>2, <1>3, <1>4, <2>1, FirstOfSize DEF c
<1>14. \A i \in 1..(n - c) : o[i] = stay[i] /\ stay[i] \in 1..n
  <2>1. P \in SUBSET Nat
    BY <1>1
  <2>2. \A i \in 1..(n - c) : stay[i] \in P
    BY <1>3, <1>13 DEF Ascends
  <2>3. \A i \in 1..Cardinality(P) : o[i] = stay[i]
    BY <1>2, <1>3, <1>11, <2>1, AscentIsUnique
  <2> QED BY <1>1, <1>13, <2>2, <2>3
<1>15. /\ kept \in Seq(Nat) /\ Len(kept) = n - c
       /\ \A i \in 1..(n - c) : kept[i] = known[stay[i]]
  <2>1. DOMAIN stay = 1..(n - c) /\ n - c \in Nat
    BY <1>2, <1>3, <1>13 DEF Ascends
  <2>2. kept = [k \in 1..(n - c) |-> known[stay[k]]]
    BY <1>6, <2>1
  <2>3. \A k \in 1..(n - c) : known[stay[k]] \in Nat
    BY <1>7, <1>14
  <2>4. kept \in [1..(n - c) -> Nat]
    BY <2>2, <2>3
  <2>5. kept \in Seq(Nat)
    BY <2>1, <2>4, ListIs
  <2>6. Len(kept) = n - c
    BY <2>1, <2>4, ListIs
  <2> QED BY <2>2, <2>5, <2>6
<1>16. \A i \in 1..Len(kept) : \E j \in 1..n : kept[i] = known[j] /\ heard[i] = list[j]
  BY <1>11, <1>14, <1>15
<1> QED BY <1>12, <1>15, <1>16 DEF n, Together

Views(us0, ns0) ==
  {v \in [uids : Seq(Nat), names : Seq(Msgs)] : Together(v.uids, v.names, us0, ns0)}

LEMMA DropKeepsTogether ==
  ASSUME NEW us0, NEW ns0, NEW v \in Views(us0, ns0), NEW u
  PROVE  Drop(v, u) \in Views(us0, ns0)
<1> USE DEF Views
<1> DEFINE at == {i \in DOMAIN v.uids : v.uids[i] = u}
<1>1. v.uids \in Seq(Nat) /\ v.names \in Seq(Msgs) /\ Len(v.uids) = Len(v.names) /\ Len(v.uids) \in Nat
  BY DEF Together
<1>2. CASE at = {}
  BY <1>2 DEF Drop
<1>3. CASE at # {}
  <2>1. at \in SUBSET (1..Len(v.uids)) /\ at \in SUBSET Nat
    BY <1>1
  <2>2. Min(at) \in 1..Len(v.uids)
    <3> HIDE DEF at
    <3> QED BY <1>3, <2>1, MinIs
  <2> DEFINE p == Min(at)
             l == Len(v.uids) - 1
             us == RemoveAt(v.uids, p)
             ns == RemoveAt(v.names, p)
  <2>3. Drop(v, u) = [uids |-> us, names |-> ns]
    BY <1>3 DEF Drop
  <2>4. p \in 1..Len(v.names)
    BY <1>1, <2>2
  <2> HIDE DEF p
  <2>5. /\ us \in Seq(Nat) /\ Len(us) = l
        /\ \A k \in 1..l : us[k] = v.uids[IF k < p THEN k ELSE k + 1]
    BY <1>1, <2>2, RemoveAtIs DEF p
  <2>6. /\ ns \in Seq(Msgs) /\ Len(ns) = Len(v.names) - 1
        /\ \A k \in 1..(Len(v.names) - 1) : ns[k] = v.names[IF k < p THEN k ELSE k + 1]
    BY <1>1, <2>4, RemoveAtIs
  <2>7. \A k \in 1..l : (IF k < p THEN k ELSE k + 1) \in 1..Len(v.uids)
    BY <1>1, <2>2 DEF p
  <2> HIDE DEF us, ns
  <2>8. ASSUME NEW k \in 1..l PROVE \E j \in 1..Len(us0) : us[k] = us0[j] /\ ns[k] = ns0[j]
    <3> DEFINE k0 == IF k < p THEN k ELSE k + 1
    <3>1. us[k] = v.uids[k0] /\ ns[k] = v.names[k0] /\ k0 \in 1..Len(v.uids)
      BY <1>1, <2>5, <2>6, <2>7
    <3> HIDE DEF k0
    <3> QED BY <3>1 DEF Together
  <2>9. Together(us, ns, us0, ns0)
    BY <1>1, <2>5, <2>6, <2>8 DEF Together
  <2> QED BY <2>3, <2>5, <2>6, <2>9
<1> QED BY <1>2, <1>3

(* EXPUNGE lines for UIDs: the session and the client lose the same places. *)
LEMMA DroppedTogether ==
  ASSUME NEW s, conn[s].uids \in Seq(Nat), names[s] \in Seq(Msgs),
         Len(names[s]) = Len(conn[s].uids),
         NEW uids, Len(uids) \in Nat, ExpungeUids(s, uids)
  PROVE  \E v \in [uids : Seq(Nat), names : Seq(Msgs)] :
           /\ Together(v.uids, v.names, conn[s].uids, names[s])
           /\ conn' = [conn EXCEPT ![s].uids = v.uids]
           /\ names' = [names EXCEPT ![s] = v.names]
<1> DEFINE c == Len(uids)
           a == [uids |-> conn[s].uids, names |-> names[s]]
           V == Views(conn[s].uids, names[s])
           X == [k \in 0..c |-> V]
           F == [k \in 1..c |-> [v \in V |-> Drop(v, uids[k])]]
           Is(h) == h = [k \in 0..c |-> IF k = 0 THEN a ELSE Drop(h[k - 1], uids[k])]
           h == CHOOSE h : Is(h)
<1>1. /\ conn' = [conn EXCEPT ![s].uids = h[c].uids]
      /\ names' = [names EXCEPT ![s] = h[c].names]
  BY DEF ExpungeUids
<1>2. c \in Nat
  OBVIOUS
<1>3. a \in V
  BY DEF Together, Views
<1>4. \A k \in 1..c : \A v \in V : Drop(v, uids[k]) \in V
  BY DropKeepsTogether
<1> HIDE DEF a, V, c
<1>5. \A k \in 1..c : \A v \in V : F[k][v] = Drop(v, uids[k])
  OBVIOUS
<1>6. \A k \in 0..c : X[k] = V
  OBVIOUS
<1> HIDE DEF F, X
<1>7. 0 \in 0..c /\ \A k \in 1..c : k \in 0..c /\ k - 1 \in 0..c
  BY <1>2
<1>8. PICK Y, g : g \in [0..c -> Y] /\ Computes(g, a, X, F, c)
  <2>1. StaysIn(X, F, c)
    BY <1>4, <1>5, <1>6, <1>7 DEF StaysIn
  <2>2. a \in X[0]
    BY <1>3, <1>6, <1>7
  <2> QED BY <1>2, <2>1, <2>2, StepwiseExists
<1>9. \A k \in 0..c : g[k] = IF k = 0 THEN a ELSE Drop(g[k - 1], uids[k])
  <2>1. \A k \in 0..c : k # 0 => k \in 1..c
    BY <1>2
  <2> QED BY <1>5, <1>6, <1>7, <1>8, <2>1 DEF Computes
<1>10. Is(h)
  <2>1. Is(g)
    BY <1>8, <1>9
  <2> QED BY <2>1
<1> HIDE DEF h
<1>11. h[0] = a /\ \A k \in 1..c : h[k] = Drop(h[k - 1], uids[k])
  BY <1>2, <1>10
<1>12. \A k \in 0..c : h[k] \in X[k]
  <2>1. h[0] \in X[0] /\ \A k \in 1..c : h[k - 1] \in X[k - 1] => h[k] \in X[k]
    BY <1>3, <1>4, <1>6, <1>7, <1>11
  <2> QED BY <1>2, <2>1, StepwiseStays
<1>13. h[c] \in V
  BY <1>2, <1>6, <1>12
<1> QED BY <1>1, <1>13 DEF V, Views

(* Numbers that are not shared and lie below the next. *)
Tables == [uid : [Msgs -> [Folders -> Nat]], next : [Folders -> Nat]]

Distinct(t) ==
  \A f \in Folders, m, n \in Msgs :
    t.uid[m][f] # 0 => t.uid[m][f] < t.next[f] /\ (m # n => t.uid[m][f] # t.uid[n][f])

(* Tables that come from t0 by numbering messages of ms in f. *)
Numbered(t, t0, f, ms) ==
  /\ \A g \in Folders : t0.next[g] <= t.next[g]
  /\ \A m \in Msgs, g \in Folders :
       t.uid[m][g] # t0.uid[m][g] => g = f /\ m \in ms /\ t0.next[g] <= t.uid[m][g]

LEMMA NumberStep ==
  ASSUME NEW f \in Folders, NEW ms \in SUBSET Msgs, NEW m \in ms,
         NEW t0 \in Tables, NEW t \in Tables, Distinct(t), Numbered(t, t0, f, ms)
  PROVE  Number(t, f, m) \in Tables /\ Distinct(Number(t, f, m)) /\ Numbered(Number(t, f, m), t0, f, ms)
<1>1. CASE t.uid[m][f] # 0
  BY <1>1 DEF Number
<1>2. CASE t.uid[m][f] = 0
  <2> DEFINE used == {t.uid[x][f] : x \in Msgs}
             next == NextUid(t.next[f], Max(used))
             t2 == [uid |-> [t.uid EXCEPT ![m][f] = next], next |-> [t.next EXCEPT ![f] = next + 1]]
  <2>1. /\ m \in Msgs /\ t.uid \in [Msgs -> [Folders -> Nat]] /\ t.next \in [Folders -> Nat]
        /\ t0.uid \in [Msgs -> [Folders -> Nat]] /\ t0.next \in [Folders -> Nat]
        /\ \A x \in Msgs, g \in Folders : t.uid[x][g] \in Nat /\ t0.uid[x][g] \in Nat
        /\ \A g \in Folders : t.next[g] \in Nat /\ t0.next[g] \in Nat
    BY DEF Tables
  <2>2. \A x \in Msgs : t.uid[x][f] \in 0..t.next[f]
    <3>1. \A x \in Msgs : t.uid[x][f] = 0 \/ t.uid[x][f] < t.next[f]
      BY DEF Distinct
    <3> QED BY <2>1, <3>1
  <2>3. Max(used) \in used /\ \A u \in used : u <= Max(used)
    <3>1. used \in SUBSET (0..t.next[f]) /\ used # {}
      BY <2>1, <2>2
    <3> HIDE DEF used
    <3> QED BY <2>1, <3>1, MaxIs
  <2>4. Max(used) \in Nat /\ \A x \in Msgs : t.uid[x][f] <= Max(used)
    BY <2>1, <2>3
  <2>5. next \in Nat /\ next >= t.next[f] /\ next > Max(used)
    <3> DEFINE h == Max(used)
               both == {t.next[f], h + 1}
    <3>1. both # {} /\ both \in SUBSET (0..(t.next[f] + h + 1)) /\ t.next[f] + h + 1 \in Nat
      BY <2>1, <2>4
    <3>2. next = Max(both)
      BY DEF NextUid
    <3>3. t.next[f] \in both /\ h + 1 \in both
      OBVIOUS
    <3>4. h \in Nat
      BY <2>4
    <3> HIDE DEF both, next, h
    <3>5. Max(both) \in both /\ \A x \in both : x <= Max(both)
      BY <3>1, MaxIs
    <3>6. t.next[f] <= next /\ h + 1 <= next
      BY <3>2, <3>3, <3>5
    <3>7. next \in both
      BY <3>2, <3>5
    <3>8. next \in Nat
      BY <3>1, <3>7
    <3> QED BY <2>1, <3>4, <3>6, <3>8 DEF h
  <2>6. Number(t, f, m) = t2
    BY <1>2 DEF Number
  <2> HIDE DEF next, used
  <2>7. t2 \in Tables
    BY <2>1, <2>5 DEF Tables
  <2>8. /\ \A x \in Msgs, g \in Folders : t2.uid[x][g] = IF x = m /\ g = f THEN next ELSE t.uid[x][g]
        /\ \A g \in Folders : t2.next[g] = IF g = f THEN next + 1 ELSE t.next[g]
    BY <2>1
  <2> HIDE DEF t2
  <2>9. Distinct(t2)
    <3> SUFFICES ASSUME NEW g \in Folders, NEW x \in Msgs, NEW y \in Msgs, t2.uid[x][g] # 0
                 PROVE  t2.uid[x][g] < t2.next[g] /\ (x # y => t2.uid[x][g] # t2.uid[y][g])
      BY DEF Distinct
    <3>1. CASE g # f
      BY <2>8, <3>1 DEF Distinct
    <3>2. CASE g = f /\ x = m
      <4>1. t2.uid[x][g] = next /\ t2.next[g] = next + 1
        BY <2>8, <3>2
      <4>2. x # y => t2.uid[y][g] = t.uid[y][f] /\ t.uid[y][f] <= Max(used)
        BY <2>4, <2>8, <3>2
      <4> QED BY <2>1, <2>4, <2>5, <4>1, <4>2
    <3>3. CASE g = f /\ x # m
      <4>1. t2.uid[x][g] = t.uid[x][f] /\ t2.next[g] = next + 1
        BY <2>8, <3>3
      <4>2. t.uid[x][f] < t.next[f] /\ (x # y => t.uid[x][f] # t.uid[y][f])
        BY <4>1 DEF Distinct
      <4>3. y = m => t2.uid[y][g] = next
        BY <2>8, <3>3
      <4>4. y # m => t2.uid[y][g] = t.uid[y][f]
        BY <2>8, <3>3
      <4>5. t.uid[x][f] <= Max(used)
        BY <2>4
      <4> QED BY <2>1, <2>4, <2>5, <4>1, <4>2, <4>3, <4>4, <4>5
    <3> QED BY <3>1, <3>2, <3>3
  <2>10. Numbered(t2, t0, f, ms)
    <3>1. ASSUME NEW g \in Folders PROVE t0.next[g] <= t2.next[g]
      <4>1. t0.next[g] <= t.next[g]
        BY DEF Numbered
      <4> QED BY <2>1, <2>5, <2>8, <4>1
    <3>2. ASSUME NEW x \in Msgs, NEW g \in Folders, t2.uid[x][g] # t0.uid[x][g]
          PROVE  g = f /\ x \in ms /\ t0.next[g] <= t2.uid[x][g]
      <4>1. CASE x = m /\ g = f
        <5>1. t0.next[f] <= t.next[f] /\ t2.uid[x][g] = next
          BY <2>8, <4>1 DEF Numbered
        <5> QED BY <2>1, <2>5, <4>1, <5>1
      <4>2. CASE ~(x = m /\ g = f)
        BY <2>8, <3>2, <4>2 DEF Numbered
      <4> QED BY <4>1, <4>2
    <3> QED BY <3>1, <3>2 DEF Numbered
  <2> QED BY <2>6, <2>7, <2>9, <2>10
<1>3. t.uid[m][f] \in Nat
  BY DEF Tables
<1> QED BY <1>1, <1>2

LEMMA AssignsFresh ==
  ASSUME NEW f \in Folders, NEW ms, NEW c \in Nat, Len(ms) = c, \A k \in 1..c : ms[k] \in Msgs,
         NEW cleared \in [Msgs -> [Folders -> Nat]], uidnext \in [Folders -> Nat],
         NEW t0, t0 = [uid |-> cleared, next |-> uidnext], Distinct(t0),
         NEW M, M = {ms[k] : k \in 1..c}, AssignUids(f, ms, cleared)
  PROVE  \E t \in Tables : /\ uid' = t.uid /\ uidnext' = t.next
                           /\ Distinct(t) /\ Numbered(t, t0, f, M)
<1> DEFINE V == {t \in Tables : Distinct(t) /\ Numbered(t, t0, f, M)}
           X == [k \in 0..c |-> V]
           F == [k \in 1..c |-> [t \in V |-> Number(t, f, ms[k])]]
           Is(h) == h = [k \in 0..c |-> IF k = 0 THEN t0 ELSE Number(h[k - 1], f, ms[k])]
           h == CHOOSE h : Is(h)
<1>1. uid' = h[c].uid /\ uidnext' = h[c].next
  BY DEF AssignUids
<1>2. M \in SUBSET Msgs /\ \A k \in 1..c : ms[k] \in M
  OBVIOUS
<1>3. t0 \in V
  <2>1. t0 \in Tables
    BY DEF Tables
  <2>2. Numbered(t0, t0, f, M)
    BY DEF Numbered
  <2> QED BY <2>1, <2>2
<1>4. \A k \in 1..c : \A t \in V : Number(t, f, ms[k]) \in V
  <2> SUFFICES ASSUME NEW k \in 1..c, NEW t \in V PROVE Number(t, f, ms[k]) \in V
    OBVIOUS
  <2>1. t \in Tables /\ Distinct(t) /\ Numbered(t, t0, f, M) /\ t0 \in Tables
    BY <1>3
  <2> DEFINE w == Number(t, f, ms[k])
  <2>2. w \in Tables /\ Distinct(w) /\ Numbered(w, t0, f, M)
    BY <1>2, <2>1, NumberStep
  <2> HIDE DEF w
  <2>3. w \in V
    BY <2>2
  <2> QED BY <2>3 DEF w
<1> HIDE DEF V
<1>5. \A k \in 1..c : \A t \in V : F[k][t] = Number(t, f, ms[k])
  OBVIOUS
<1>6. \A k \in 0..c : X[k] = V
  OBVIOUS
<1> HIDE DEF F, X
<1>7. 0 \in 0..c /\ \A k \in 1..c : k \in 0..c /\ k - 1 \in 0..c
  OBVIOUS
<1>8. PICK Y, g : g \in [0..c -> Y] /\ Computes(g, t0, X, F, c)
  <2>1. StaysIn(X, F, c)
    BY <1>4, <1>5, <1>6, <1>7 DEF StaysIn
  <2>2. t0 \in X[0]
    BY <1>3, <1>6, <1>7
  <2> QED BY <2>1, <2>2, StepwiseExists
<1>9. \A k \in 0..c : g[k] = IF k = 0 THEN t0 ELSE Number(g[k - 1], f, ms[k])
  <2>1. \A k \in 0..c : k # 0 => k \in 1..c
    OBVIOUS
  <2> QED BY <1>5, <1>6, <1>7, <1>8, <2>1 DEF Computes
<1>10. Is(h)
  <2>1. Is(g)
    BY <1>8, <1>9
  <2> QED BY <2>1
<1> HIDE DEF h
<1>11. h[0] = t0 /\ \A k \in 1..c : h[k] = Number(h[k - 1], f, ms[k])
  BY <1>10
<1>12. \A k \in 0..c : h[k] \in X[k]
  <2>1. h[0] \in X[0]
    BY <1>3, <1>6, <1>7, <1>11
  <2>2. ASSUME NEW k \in 1..c, h[k - 1] \in X[k - 1] PROVE h[k] \in X[k]
    <3>1. h[k - 1] \in V /\ X[k] = V
      BY <2>2, <1>6, <1>7
    <3> QED BY <3>1, <1>4, <1>11
  <2> QED BY <2>1, <2>2, StepwiseStays
<1>13. h[c] \in V
  <2>1. c \in 0..c
    OBVIOUS
  <2> QED BY <2>1, <1>6, <1>12
<1> QED BY <1>1, <1>13 DEF V

-----------------------------------------------------------------------------
(* IMAP: the inductive invariant, and what a step may do to the numbers, to
   a session's list and to the targets of a command. *)

Conns == [folder : Folders \cup {None}, ro : BOOLEAN, uids : Seq(Nat),
          valid : Nat, copied : SUBSET Msgs]
Commands == [op : Ops, dest : Folders \cup {None}, targets : Seq(Target),
             done : Seq(Target), flag : BOOLEAN]
Waiting == {"store", "expunge", "close", "move", "moved"}
Importing == {"append", "upserted", "assigned"}

(* The parts of TypeOK that go together. *)
RowsOK ==
  /\ srv \in [Msgs -> Folders \cup {"unborn", "gone"}]
  /\ folder \in [Msgs -> Folders \cup {None}]
  /\ body \in [Msgs -> BOOLEAN] /\ deleted \in [Msgs -> BOOLEAN]
  /\ dirty \in BOOLEAN /\ bell \in [Sessions -> BOOLEAN] /\ left \in 0..MaxOps
NumbersOK ==
  /\ uid \in [Msgs -> [Folders -> Nat]]
  /\ uidnext \in [Folders -> Nat] /\ validity \in Nat
ViewsOK == conn \in [Sessions -> Conns] /\ names \in [Sessions -> Seq(Msgs)]

WorkOK ==
  /\ sync \in [msg : Msgs \cup {None}, into : Folders \cup {None}]
  /\ cmd \in [Sessions -> Commands]

LEMMA TypeParts ==
  /\ TypeOK <=> RowsOK /\ NumbersOK /\ ViewsOK /\ WorkOK
  /\ TypeOK' <=> RowsOK' /\ NumbersOK' /\ ViewsOK' /\ WorkOK'
BY DEF TypeOK, WorkOK, RowsOK, NumbersOK, ViewsOK, Conns, Commands

(* What the pass and a command hold while they wait. *)
PassInHand == sync = NoSync \/ (sync.msg \in Msgs /\ sync.into \in Folders)
WorkOf(s) ==
  /\ cmd[s].op \in Waiting => conn[s].folder \in Folders /\ cmd[s].dest \in Folders
  /\ cmd[s].op \in {"store", "expunge", "close"} => cmd[s].dest = conn[s].folder
  /\ cmd[s].op = "store" => Len(cmd[s].targets) = 1
  /\ cmd[s].op \in Importing => cmd[s].dest \in Folders /\ Len(cmd[s].targets) = 1
WorkInHand == PassInHand /\ \A s \in Sessions : WorkOf(s)

(* Numbers only go up: the next UIDs, and the UIDVALIDITY sessions hold. *)
NumbersGoUp ==
  /\ \A f \in Folders : uidnext[f] # 0
  /\ \A s \in Sessions : conn[s].valid <= validity

(* Nothing is announced outside a mailbox. *)
ClosedIsEmpty == \A s \in Sessions : conn[s].folder = None => conn[s].uids = <<>>

(* What a command has read still holds when it writes: no other message has
   come to hold the UID of a target. *)
Pending(s) == Range(cmd[s].targets) \cup Range(cmd[s].done)
Stands(t, f) == t.uid < uidnext[f] /\ Holders(t.uid, f) \subseteq {t.msg}
TargetsStand ==
  \A s \in Sessions :
    cmd[s].op \in Waiting /\ conn[s].valid = validity =>
      \A t \in Pending(s) : Stands(t, conn[s].folder)

MailInv ==
  /\ TypeOK /\ WorkInHand /\ NumbersGoUp /\ ClosedIsEmpty
  /\ NumberingSound /\ SeqNamesMessage /\ TargetsStand

(* A step of the numbers: next UIDs grow, and a message keeps its UID, loses
   it, or gets one that nobody had. *)
UidsGoOn ==
  /\ validity' = validity
  /\ uid' \in [Msgs -> [Folders -> Nat]] /\ uidnext' \in [Folders -> Nat]
  /\ \A f \in Folders : uidnext[f] <= uidnext'[f]
  /\ \A f \in Folders, m, n \in Msgs :
       uid'[m][f] # 0 => uid'[m][f] < uidnext'[f] /\ (m # n => uid'[m][f] # uid'[n][f])
  /\ \A m \in Msgs, f \in Folders :
       uid'[m][f] # 0 /\ uid'[m][f] # uid[m][f] => uidnext[f] <= uid'[m][f]

(* A step of a session's list: each place was one before, or is that of a
   message with its UID. *)
PlacesGoOn(s) ==
  /\ Len(names'[s]) = Len(conn'[s].uids) /\ conn'[s].valid <= validity
  /\ conn'[s].folder = None => conn'[s].uids = <<>>
  /\ conn'[s].folder # None /\ conn'[s].valid = validity =>
       \A i \in 1..Len(conn'[s].uids) :
         \/ /\ conn'[s].folder = conn[s].folder /\ conn'[s].valid = conn[s].valid
            /\ \E j \in 1..Len(conn[s].uids) :
                 conn'[s].uids[i] = conn[s].uids[j] /\ names'[s][i] = names[s][j]
         \/ names'[s][i] \in Msgs /\ conn'[s].uids[i] = uid'[names'[s][i]][conn'[s].folder]

(* A step of what a session waits with: the targets are old ones of the same
   mailbox, or new ones that stand. *)
TargetsGoOn(s) ==
  cmd'[s].op \in Waiting =>
    /\ conn'[s].folder = conn[s].folder /\ conn'[s].valid = conn[s].valid
    /\ \A t \in Pending(s)' :
         \/ cmd[s].op \in Waiting /\ t \in Pending(s)
         \/ conn[s].valid = validity => Stands(t, conn[s].folder)

LEMMA PlacesKept ==
  ASSUME MailInv, TypeOK', UidsGoOn, \A s \in Sessions : PlacesGoOn(s)
  PROVE  NumberingSound' /\ SeqNamesMessage' /\ NumbersGoUp' /\ ClosedIsEmpty'
<1>a. NumbersOK /\ NumbersOK' /\ ViewsOK /\ ViewsOK'
  BY TypeParts DEF MailInv
<1>0. /\ ViewsOK /\ ViewsOK'
      /\ \A f \in Folders : uidnext[f] \in Nat /\ uidnext'[f] \in Nat /\ uidnext[f] # 0
      /\ \A m \in Msgs, f \in Folders : uid[m][f] \in Nat /\ uid'[m][f] \in Nat
  BY <1>a DEF MailInv, NumbersOK, NumbersGoUp
<1>1. ASSUME NEW s \in Sessions, conn'[s].folder # None, conn'[s].valid = validity',
             NEW i \in 1..Len(conn'[s].uids)
      PROVE  /\ conn'[s].uids[i] < uidnext'[conn'[s].folder]
             /\ \A m \in Msgs : uid'[m][conn'[s].folder] = conn'[s].uids[i] /\ conn'[s].uids[i] # 0
                                 => names'[s][i] = m
  <2> DEFINE f == conn'[s].folder
             u == conn'[s].uids[i]
  <2>1. f \in Folders /\ u \in Nat /\ validity' = validity
    BY <1>0, <1>1 DEF ViewsOK, Conns, UidsGoOn
  <2>2. CASE /\ conn'[s].folder = conn[s].folder /\ conn'[s].valid = conn[s].valid
             /\ \E j \in 1..Len(conn[s].uids) :
                  conn'[s].uids[i] = conn[s].uids[j] /\ names'[s][i] = names[s][j]
    <3>1. PICK j \in 1..Len(conn[s].uids) : u = conn[s].uids[j] /\ names'[s][i] = names[s][j]
      BY <2>2
    <3>2. DOMAIN conn[s].uids = 1..Len(conn[s].uids)
      BY <1>0 DEF ViewsOK, Conns
    <3>3. conn[s].folder = f /\ conn[s].valid = validity /\ f # None
      BY <1>1, <2>1, <2>2
    <3>4. u < uidnext[f]
      BY <3>1, <3>2, <3>3 DEF MailInv, NumberingSound
    <3>5. \A m \in Holders(u, f) : names[s][j] = m
      BY <3>1, <3>2, <3>3 DEF MailInv, SeqNamesMessage
    <3>6. u < uidnext'[f]
      BY <1>0, <2>1, <3>4 DEF UidsGoOn
    <3>7. ASSUME NEW m \in Msgs, uid'[m][f] = u, u # 0 PROVE names'[s][i] = m
      <4>1. uid[m][f] = u
        BY <1>0, <2>1, <3>4, <3>7 DEF UidsGoOn
      <4> QED BY <3>1, <3>5, <3>7, <4>1 DEF Holders
    <3> QED BY <3>6, <3>7
  <2>3. CASE names'[s][i] \in Msgs /\ conn'[s].uids[i] = uid'[names'[s][i]][conn'[s].folder]
    <3>1. u # 0 => u < uidnext'[f]
      BY <2>1, <2>3 DEF UidsGoOn
    <3>2. uidnext'[f] # 0 /\ uidnext'[f] \in Nat
      <4>1. uidnext[f] <= uidnext'[f]
        BY <2>1 DEF UidsGoOn
      <4> QED BY <1>0, <2>1, <4>1
    <3>3. u < uidnext'[f]
      BY <2>1, <3>1, <3>2
    <3>4. ASSUME NEW m \in Msgs, uid'[m][f] = u, u # 0 PROVE names'[s][i] = m
      BY <2>1, <2>3, <3>4 DEF UidsGoOn
    <3> QED BY <3>3, <3>4
  <2> QED BY <1>1, <2>1, <2>2, <2>3 DEF PlacesGoOn
<1>2. \A s \in Sessions : DOMAIN conn'[s].uids = 1..Len(conn'[s].uids)
  BY <1>0 DEF ViewsOK, Conns
<1>3. NumberingSound'
  BY <1>1, <1>2 DEF NumberingSound, UidsGoOn
<1>4. SeqNamesMessage'
  <2>1. \A s \in Sessions : Len(names'[s]) = Len(conn'[s].uids)
    BY DEF PlacesGoOn
  <2>2. ASSUME NEW s \in Sessions, conn'[s].folder # None, conn'[s].valid = validity',
               NEW i \in DOMAIN conn'[s].uids,
               NEW m \in Holders(conn[s].uids[i], conn[s].folder)'
        PROVE  names'[s][i] = m
    BY <1>1, <1>2, <2>2 DEF Holders
  <2> QED BY <2>1, <2>2 DEF SeqNamesMessage
<1>5. NumbersGoUp'
  <2>1. \A f \in Folders : uidnext'[f] # 0
    BY <1>0 DEF UidsGoOn
  <2>2. \A s \in Sessions : conn'[s].valid <= validity'
    BY DEF PlacesGoOn, UidsGoOn
  <2> QED BY <2>1, <2>2 DEF NumbersGoUp
<1>6. ClosedIsEmpty'
  BY DEF PlacesGoOn, ClosedIsEmpty
<1> QED BY <1>3, <1>4, <1>5, <1>6

LEMMA TargetsKept ==
  ASSUME MailInv, TypeOK', UidsGoOn, \A s \in Sessions : WorkOf(s)' /\ TargetsGoOn(s)
  PROVE  TargetsStand'
<1>a. NumbersOK /\ NumbersOK' /\ ViewsOK /\ WorkOK /\ WorkOK'
  BY TypeParts DEF MailInv
<1>0. /\ ViewsOK /\ cmd \in [Sessions -> Commands] /\ cmd' \in [Sessions -> Commands]
      /\ \A f \in Folders : uidnext[f] \in Nat /\ uidnext'[f] \in Nat
      /\ \A m \in Msgs, f \in Folders : uid[m][f] \in Nat /\ uid'[m][f] \in Nat
  BY <1>a DEF NumbersOK, WorkOK
<1> SUFFICES ASSUME NEW s \in Sessions, cmd'[s].op \in Waiting, conn'[s].valid = validity',
                    NEW t \in Pending(s)'
             PROVE  Stands(t, conn[s].folder)'
  BY DEF TargetsStand
<1> DEFINE f == conn[s].folder
<1>1. conn'[s].folder = f /\ conn[s].valid = validity /\ f \in Folders
  BY DEF TargetsGoOn, UidsGoOn, WorkOf
<1>2. Stands(t, f)
  BY <1>1 DEF TargetsGoOn, MailInv, TargetsStand
<1>3. t \in Target
  <2>1. cmd'[s].targets \in Seq(Target) /\ cmd'[s].done \in Seq(Target)
    BY <1>0 DEF Commands
  <2> QED BY <2>1 DEF Pending, Range
<1>4. t.uid \in Nat /\ t.uid < uidnext[f] /\ t.uid < uidnext'[f]
  <2>1. t.uid \in Nat /\ t.uid < uidnext[f] /\ uidnext[f] <= uidnext'[f]
    BY <1>1, <1>2, <1>3 DEF Stands, UidsGoOn, Target
  <2> QED BY <1>0, <1>1, <2>1
<1>5. ASSUME NEW m \in Msgs, t.uid # 0, uid'[m][f] = t.uid PROVE m = t.msg
  <2>1. uid[m][f] = t.uid
    BY <1>0, <1>1, <1>4, <1>5 DEF UidsGoOn
  <2> QED BY <1>2, <1>5, <2>1 DEF Stands, Holders
<1> QED BY <1>1, <1>4, <1>5 DEF Stands, Holders

-----------------------------------------------------------------------------
(* Steps of one session and of none; the numbers; the lists that are read. *)

LEMMA InvParts ==
  ASSUME MailInv
  PROVE  /\ RowsOK /\ NumbersOK /\ ViewsOK /\ WorkOK
         /\ \A s \in Sessions : /\ conn[s] \in Conns /\ names[s] \in Seq(Msgs)
                                /\ conn[s].uids \in Seq(Nat) /\ cmd[s] \in Commands
                                /\ Len(names[s]) = Len(conn[s].uids)
                                /\ conn[s].valid <= validity
<1>1. RowsOK /\ NumbersOK /\ ViewsOK /\ WorkOK
  BY TypeParts DEF MailInv
<1>2. \A s \in Sessions : conn[s] \in Conns /\ names[s] \in Seq(Msgs) /\ cmd[s] \in Commands
  BY <1>1 DEF ViewsOK, WorkOK
<1>3. \A s \in Sessions : conn[s].uids \in Seq(Nat)
  BY <1>2 DEF Conns
<1> QED BY <1>1, <1>2, <1>3 DEF MailInv, SeqNamesMessage, NumbersGoUp

LEMMA StepKeeps ==
  ASSUME MailInv, RowsOK', ViewsOK', WorkOK', PassInHand', UidsGoOn,
         \A s \in Sessions : PlacesGoOn(s) /\ TargetsGoOn(s) /\ WorkOf(s)'
  PROVE  MailInv'
<1>1. NumbersOK'
  BY InvParts DEF UidsGoOn, NumbersOK
<1>2. TypeOK'
  BY <1>1, TypeParts
<1>3. NumberingSound' /\ SeqNamesMessage' /\ NumbersGoUp' /\ ClosedIsEmpty'
  BY <1>2, PlacesKept
<1>4. TargetsStand'
  BY <1>2, TargetsKept
<1>5. WorkInHand'
  BY DEF WorkInHand
<1> QED BY <1>2, <1>3, <1>4, <1>5 DEF MailInv

LEMMA PlaceRests ==
  ASSUME MailInv, NEW s \in Sessions, conn'[s] = conn[s], names'[s] = names[s]
  PROVE  PlacesGoOn(s)
BY InvParts DEF PlacesGoOn, MailInv, ClosedIsEmpty

LEMMA WorkRests ==
  ASSUME MailInv, NEW s \in Sessions, conn'[s] = conn[s], cmd'[s] = cmd[s]
  PROVE  TargetsGoOn(s) /\ WorkOf(s)'
<1>1. WorkOf(s)
  BY DEF MailInv, WorkInHand
<1>2. Pending(s)' = Pending(s)
  BY DEF Pending
<1> QED BY <1>1, <1>2 DEF TargetsGoOn, WorkOf

(* A step in which no session takes part. *)
LEMMA OutsideStep ==
  ASSUME MailInv, RowsOK', UNCHANGED <<conn, names, cmd>>, UidsGoOn,
         sync' \in [msg : Msgs \cup {None}, into : Folders \cup {None}], PassInHand'
  PROVE  MailInv'
<1>1. ViewsOK' /\ WorkOK'
  BY InvParts DEF ViewsOK, WorkOK
<1>2. \A s \in Sessions : PlacesGoOn(s) /\ TargetsGoOn(s) /\ WorkOf(s)'
  BY PlaceRests, WorkRests
<1> QED BY <1>1, <1>2, StepKeeps

(* A step of one session. *)
ViewMoves(s) ==
  /\ conn' \in [Sessions -> Conns] /\ names' \in [Sessions -> Seq(Msgs)]
  /\ \A r \in Sessions : r # s => conn'[r] = conn[r] /\ names'[r] = names[r]
  /\ PlacesGoOn(s)
SameMailbox(s) == conn'[s].folder = conn[s].folder /\ conn'[s].valid = conn[s].valid

LEMMA SessionStep ==
  ASSUME MailInv, NEW s \in Sessions, RowsOK', UNCHANGED sync, UidsGoOn, ViewMoves(s),
         NEW c \in Commands, cmd' = [cmd EXCEPT ![s] = c], WorkOf(s)', TargetsGoOn(s)
  PROVE  MailInv'
<1>1. ViewsOK'
  BY DEF ViewMoves, ViewsOK
<1>2. WorkOK' /\ PassInHand'
  BY InvParts DEF WorkOK, PassInHand, MailInv, WorkInHand
<1>3. \A r \in Sessions : r # s => cmd'[r] = cmd[r]
  BY InvParts DEF WorkOK
<1>4. \A r \in Sessions : PlacesGoOn(r) /\ TargetsGoOn(r) /\ WorkOf(r)'
  BY <1>3, PlaceRests, WorkRests DEF ViewMoves
<1> QED BY <1>1, <1>2, <1>4, StepKeeps

LEMMA ViewRests ==
  ASSUME MailInv, NEW s \in Sessions, UNCHANGED <<conn, names>>
  PROVE  ViewMoves(s) /\ SameMailbox(s)
<1>1. PlacesGoOn(s)
  BY PlaceRests
<1> QED BY <1>1, InvParts DEF ViewMoves, ViewsOK, SameMailbox

(* The numbers. *)
LEMMA InvNumbers ==
  ASSUME MailInv
  PROVE  /\ uid \in [Msgs -> [Folders -> Nat]] /\ uidnext \in [Folders -> Nat] /\ validity \in Nat
         /\ \A f \in Folders : uidnext[f] \in Nat
         /\ \A m \in Msgs, f \in Folders : uid[m][f] \in Nat
         /\ \A f \in Folders, m, n \in Msgs :
              uid[m][f] # 0 => uid[m][f] < uidnext[f] /\ (m # n => uid[m][f] # uid[n][f])
BY InvParts DEF NumbersOK, MailInv, NumberingSound

LEMMA UidsDrop ==
  ASSUME MailInv, uid' \in [Msgs -> [Folders -> Nat]], UNCHANGED <<uidnext, validity>>,
         \A m \in Msgs, f \in Folders : uid'[m][f] = 0 \/ uid'[m][f] = uid[m][f]
  PROVE  UidsGoOn
BY InvNumbers DEF UidsGoOn

LEMMA UidsRest ==
  ASSUME MailInv, UNCHANGED numbers
  PROVE  UidsGoOn
BY InvNumbers, UidsDrop DEF numbers

(* The messages that are none of ms keep the UIDs they had in cleared. *)
OthersKeep(ms, c, cleared) ==
  \A m \in Msgs : (\A k \in 1..c : ms[k] # m) => \A g \in Folders : uid'[m][g] = cleared[m][g]

LEMMA UidsAssign ==
  ASSUME MailInv, NEW f \in Folders, NEW ms, NEW c \in Nat, Len(ms) = c,
         \A k \in 1..c : ms[k] \in Msgs,
         NEW cleared \in [Msgs -> [Folders -> Nat]],
         \A m \in Msgs, g \in Folders : cleared[m][g] = 0 \/ cleared[m][g] = uid[m][g],
         AssignUids(f, ms, cleared), UNCHANGED validity
  PROVE  UidsGoOn /\ OthersKeep(ms, c, cleared)
<1> DEFINE t0 == [uid |-> cleared, next |-> uidnext]
           M == {ms[k] : k \in 1..c}
<1>1. t0.uid = cleared /\ t0.next = uidnext
  OBVIOUS
<1>2. Distinct(t0)
  BY <1>1, InvNumbers DEF Distinct
<1> HIDE DEF t0
<1>3. PICK t \in Tables : /\ uid' = t.uid /\ uidnext' = t.next
                          /\ Distinct(t) /\ Numbered(t, t0, f, M)
  <2>1. t0 = [uid |-> cleared, next |-> uidnext] /\ uidnext \in [Folders -> Nat]
    BY InvNumbers DEF t0
  <2> HIDE DEF M
  <2>2. M = {ms[k] : k \in 1..c}
    BY DEF M
  <2> QED BY <1>2, <2>1, <2>2, AssignsFresh
<1>4. uid' \in [Msgs -> [Folders -> Nat]] /\ uidnext' \in [Folders -> Nat]
  BY <1>3 DEF Tables
<1>5. \A m \in Msgs, g \in Folders :
        uid'[m][g] # cleared[m][g] => m \in {ms[k] : k \in 1..c} /\ uidnext[g] <= uid'[m][g]
  BY <1>1, <1>3 DEF Numbered
<1>6. \A m \in Msgs, g \in Folders :
        uid'[m][g] # 0 /\ uid'[m][g] # uid[m][g] => uidnext[g] <= uid'[m][g]
  BY <1>5
<1>7. \A g \in Folders : uidnext[g] <= uidnext'[g]
  BY <1>1, <1>3 DEF Numbered
<1>8. \A g \in Folders, m, n \in Msgs :
        uid'[m][g] # 0 => uid'[m][g] < uidnext'[g] /\ (m # n => uid'[m][g] # uid'[n][g])
  BY <1>3 DEF Distinct
<1>9. UidsGoOn
  BY <1>4, <1>6, <1>7, <1>8 DEF UidsGoOn
<1> QED BY <1>5, <1>9 DEF OthersKeep

(* The lists. *)
LEMMA ByUidIs ==
  ASSUME MailInv, NEW ms \in SUBSET Msgs, NEW f \in Folders
  PROVE  /\ ByUid(ms, f) \in Seq(Msgs)
         /\ DOMAIN ByUid(ms, f) = 1..Len(ByUid(ms, f)) /\ Len(ByUid(ms, f)) \in Nat
         /\ \A i \in 1..Len(ByUid(ms, f)) : ByUid(ms, f)[i] \in ms
<1> DEFINE w == [m \in Msgs |-> uid[m][f]]
           c == Cardinality(ms)
           q == ByUid(ms, f)
<1>1. IsFiniteSet(ms) /\ c \in Nat
  BY StoredAssumption, FS_Subset, FS_CardinalityType
<1>2. w \in [Msgs -> Nat] /\ \A m \in Msgs : w[m] = uid[m][f]
  BY InvNumbers
<1> HIDE DEF w
<1>3. PICK p : Sorts(p, ms, w)
  BY <1>1, <1>2, SortExists
<1>4. /\ p \in [1..c -> ms]
      /\ \A i, j \in DOMAIN p : i < j => p[i] # p[j] /\ uid[p[i]][f] <= uid[p[j]][f]
  <2>1. p \in [1..c -> ms]
    BY <1>3 DEF Sorts
  <2>2. ASSUME NEW i \in 1..c, NEW j \in 1..c, i < j
        PROVE  p[i] # p[j] /\ uid[p[i]][f] <= uid[p[j]][f]
    <3>1. i # j /\ p[i] \in Msgs /\ p[j] \in Msgs
      BY <1>1, <2>1, <2>2
    <3>2. p[i] # p[j] /\ w[p[i]] <= w[p[j]]
      BY <1>3, <2>2, <3>1 DEF Sorts
    <3> QED BY <1>2, <3>1, <3>2
  <2> QED BY <2>1, <2>2
<1>5. q \in [1..c -> ms]
  BY <1>4 DEF ByUid
<1> HIDE DEF q, c
<1>6. q \in Seq(ms) /\ Len(q) = c
  BY <1>1, <1>5, ListIs
<1> QED BY <1>1, <1>5, <1>6 DEF q

LEMMA UidsOfIs ==
  ASSUME MailInv, NEW ms \in Seq(Msgs), NEW f \in Folders
  PROVE  /\ UidsOf(ms, f) \in Seq(Nat) /\ Len(UidsOf(ms, f)) = Len(ms)
         /\ \A i \in 1..Len(ms) : UidsOf(ms, f)[i] = uid[ms[i]][f] /\ ms[i] \in Msgs
<1>1. DOMAIN ms = 1..Len(ms) /\ Len(ms) \in Nat /\ \A i \in 1..Len(ms) : ms[i] \in Msgs
  OBVIOUS
<1>2. UidsOf(ms, f) = [i \in 1..Len(ms) |-> uid[ms[i]][f]]
  BY <1>1 DEF UidsOf
<1>3. UidsOf(ms, f) \in [1..Len(ms) -> Nat]
  BY <1>1, <1>2, InvNumbers
<1>4. UidsOf(ms, f) \in Seq(Nat) /\ Len(UidsOf(ms, f)) = Len(ms)
  BY <1>1, <1>3, ListIs
<1> QED BY <1>1, <1>2, <1>4

-----------------------------------------------------------------------------
(* How a session's list moves. *)

(* A list after another: what holds of the elements of both. *)
LEMMA Joined ==
  ASSUME NEW S, NEW a \in Seq(S), NEW b \in Seq(S), NEW c, c = a \o b
  PROVE  /\ c \in Seq(S) /\ Len(c) = Len(a) + Len(b) /\ Len(a) \in Nat
         /\ \A i \in 1..Len(a) : c[i] = a[i]
         /\ \A i \in 1..Len(c) : i > Len(a) =>
              i - Len(a) \in 1..Len(b) /\ c[i] = b[i - Len(a)]
OBVIOUS

LEMMA HeardNothing ==
  ASSUME NEW list
  PROVE  Heard(list, <<>>) = list
<1> DEFINE X == [k \in 0..0 |-> {list}]
<1>1. list \in X[0] /\ \A k \in 1..0 : \A q \in X[k - 1] : RemoveAt(q, <<>>[k]) \in X[k]
  OBVIOUS
<1>2. Len(<<>>) = 0
  OBVIOUS
<1> HIDE DEF X
<1>3. Heard(list, <<>>) \in X[0]
  BY <1>1, <1>2, HeardStays
<1> QED BY <1>3 DEF X

(* A step that gives a session another list. *)
LEMMA ListMoves ==
  ASSUME MailInv, NEW s \in Sessions, conn[s].folder \in Folders, UNCHANGED validity,
         NEW us \in Seq(Nat), NEW ns \in Seq(Msgs), Len(ns) = Len(us),
         NEW copied \in SUBSET Msgs,
         conn' = [conn EXCEPT ![s].uids = us, ![s].copied = copied],
         names' = [names EXCEPT ![s] = ns],
         \A i \in 1..Len(us) :
           \/ \E j \in 1..Len(conn[s].uids) : us[i] = conn[s].uids[j] /\ ns[i] = names[s][j]
           \/ ns[i] \in Msgs /\ us[i] = uid'[ns[i]][conn[s].folder]
  PROVE  ViewMoves(s) /\ SameMailbox(s)
<1>0. ViewsOK /\ conn[s] \in Conns
  BY InvParts
<1>1. conn' \in [Sessions -> Conns]
  BY <1>0 DEF ViewsOK, Conns
<1>2. /\ conn'[s].folder = conn[s].folder /\ conn'[s].valid = conn[s].valid /\ conn'[s].uids = us
      /\ \A r \in Sessions : r # s => conn'[r] = conn[r]
  BY <1>0 DEF ViewsOK, Conns
<1>5. names' \in [Sessions -> Seq(Msgs)] /\ names'[s] = ns /\ \A r \in Sessions : r # s => names'[r] = names[r]
  BY <1>0 DEF ViewsOK
<1>6. PlacesGoOn(s)
  <2>1. Len(names'[s]) = Len(conn'[s].uids)
    BY <1>2, <1>5
  <2>2. conn'[s].valid <= validity
    BY <1>2, InvParts
  <2>3. \A i \in 1..Len(conn'[s].uids) :
          \/ \E j \in 1..Len(conn[s].uids) :
               conn'[s].uids[i] = conn[s].uids[j] /\ names'[s][i] = names[s][j]
          \/ names'[s][i] \in Msgs /\ conn'[s].uids[i] = uid'[names'[s][i]][conn'[s].folder]
    BY <1>2, <1>5
  <2>4. conn'[s].folder # None
    BY <1>2, FoldersAssumption
  <2> QED BY <1>2, <2>1, <2>2, <2>3, <2>4 DEF PlacesGoOn
<1> QED BY <1>1, <1>2, <1>5, <1>6 DEF ViewMoves, SameMailbox

LEMMA ReportMoves ==
  ASSUME MailInv, NEW s \in Sessions, conn[s].folder \in Folders, NEW e \in BOOLEAN,
         NEW copied \in SUBSET Msgs, ReportAfter(s, e, copied), UNCHANGED numbers
  PROVE  ViewMoves(s) /\ SameMailbox(s)
<1> DEFINE f == conn[s].folder
           known == conn[s].uids
           present == {uid[m][f] : m \in Rows(f)}
           lines == IF e THEN ExpungeLines(known, present) ELSE <<>>
           kept == Kept(known, present, e)
           fresh == {m \in Rows(f) : uid[m][f] \notin Range(kept)}
           new == ByUid(fresh, f)
           heard == Heard(names[s], lines)
           us == kept \o UidsOf(new, f)
           ns == heard \o new
<1>1. /\ conn' = [conn EXCEPT ![s].uids = us, ![s].copied = conn[s].copied \cup copied]
      /\ names' = [names EXCEPT ![s] = ns]
  BY DEF ReportAfter
<1>2. known \in Seq(Nat) /\ names[s] \in Seq(Msgs) /\ Len(names[s]) = Len(known)
  BY InvParts
<1>3. fresh \in SUBSET Msgs
  BY DEF Rows
<1> HIDE DEF fresh
<1>4. new \in Seq(Msgs) /\ Len(new) \in Nat
  BY <1>3, ByUidIs
<1> HIDE DEF new
<1>5. /\ UidsOf(new, f) \in Seq(Nat) /\ Len(UidsOf(new, f)) = Len(new)
      /\ \A i \in 1..Len(new) : UidsOf(new, f)[i] = uid[new[i]][f] /\ new[i] \in Msgs
  BY <1>4, UidsOfIs
<1> HIDE DEF known, present
<1>6. /\ heard \in Seq(Msgs) /\ kept \in Seq(Nat) /\ Len(heard) = Len(kept)
      /\ \A i \in 1..Len(kept) : \E j \in 1..Len(known) : kept[i] = known[j] /\ heard[i] = names[s][j]
  <2>1. CASE e
    <3>1. Reported(names[s], known, present, e, heard, kept)
      BY <2>1 DEF Reported
    <3> HIDE DEF heard, kept
    <3>2. heard \in Seq(Msgs) /\ kept \in Seq(Nat) /\ Together(kept, heard, known, names[s])
      BY <1>2, <2>1, <3>1, ReportedTogether
    <3> QED BY <3>2 DEF Together
  <2>2. CASE ~e
    <3>1. heard = names[s]
      BY <2>2, HeardNothing
    <3>2. kept = known
      BY <2>2 DEF Kept
    <3> QED BY <1>2, <3>1, <3>2
  <2> QED BY <2>1, <2>2
<1> HIDE DEF heard, kept
<1> DEFINE nu == UidsOf(new, f)
<1>7. /\ us \in Seq(Nat) /\ Len(us) = Len(kept) + Len(new) /\ Len(kept) \in Nat
      /\ \A i \in 1..Len(kept) : us[i] = kept[i]
      /\ \A i \in 1..Len(us) : i > Len(kept) =>
           i - Len(kept) \in 1..Len(new) /\ us[i] = nu[i - Len(kept)]
  <2>1. nu \in Seq(Nat) /\ Len(nu) = Len(new) /\ us = kept \o nu
    BY <1>5
  <2> HIDE DEF nu, us
  <2> QED BY <2>1, <1>6, Joined
<1>8. /\ ns \in Seq(Msgs) /\ Len(ns) = Len(heard) + Len(new)
      /\ \A i \in 1..Len(heard) : ns[i] = heard[i]
      /\ \A i \in 1..Len(ns) : i > Len(heard) =>
           i - Len(heard) \in 1..Len(new) /\ ns[i] = new[i - Len(heard)]
  <2>1. ns = heard \o new
    OBVIOUS
  <2> HIDE DEF ns
  <2>2. heard \in Seq(Msgs) /\ new \in Seq(Msgs)
    BY <1>4, <1>6
  <2> QED BY <2>1, <2>2, Joined
<1> HIDE DEF us, ns
<1>9. ASSUME NEW i \in 1..Len(us)
      PROVE  \/ \E j \in 1..Len(known) : us[i] = known[j] /\ ns[i] = names[s][j]
             \/ ns[i] \in Msgs /\ us[i] = uid'[ns[i]][f]
  <2>1. CASE i <= Len(kept)
    <3>1. i \in 1..Len(kept)
      BY <2>1, <1>7
    <3>2. us[i] = kept[i] /\ ns[i] = heard[i]
      BY <1>6, <1>7, <1>8, <3>1
    <3> QED BY <1>6, <3>1, <3>2
  <2>2. CASE ~(i <= Len(kept))
    <3>1. i > Len(kept)
      BY <2>2, <1>7
    <3>2. us[i] = UidsOf(new, f)[i - Len(kept)] /\ i - Len(kept) \in 1..Len(new)
      BY <1>7, <3>1
    <3>3. ns[i] = new[i - Len(kept)]
      BY <1>6, <1>7, <1>8, <3>1
    <3> QED BY <1>5, <3>2, <3>3 DEF numbers
  <2> QED BY <2>1, <2>2
<1>10. Len(ns) = Len(us) /\ validity' = validity
  BY <1>6, <1>7, <1>8 DEF numbers
<1>11. conn[s].copied \cup copied \in SUBSET Msgs
  BY InvParts DEF Conns
<1> QED BY <1>1, <1>7, <1>8, <1>9, <1>10, <1>11, ListMoves DEF known

LEMMA ExpungeMoves ==
  ASSUME MailInv, NEW s \in Sessions, conn[s].folder \in Folders, NEW uids, Len(uids) \in Nat, ExpungeUids(s, uids),
         UNCHANGED validity
  PROVE  ViewMoves(s) /\ SameMailbox(s)
<1>1. PICK v \in [uids : Seq(Nat), names : Seq(Msgs)] :
           /\ Together(v.uids, v.names, conn[s].uids, names[s])
           /\ conn' = [conn EXCEPT ![s].uids = v.uids]
           /\ names' = [names EXCEPT ![s] = v.names]
  BY InvParts, DroppedTogether
<1>2. ViewsOK /\ conn[s] \in Conns
  BY InvParts
<1>3. conn' = [conn EXCEPT ![s].uids = v.uids, ![s].copied = conn[s].copied]
  BY <1>1, <1>2 DEF ViewsOK, Conns
<1>4. conn[s].copied \in SUBSET Msgs
  BY <1>2 DEF Conns
<1>5. v.uids \in Seq(Nat) /\ v.names \in Seq(Msgs)
  BY <1>1
<1>6. \A i \in 1..Len(v.uids) :
        \/ \E j \in 1..Len(conn[s].uids) : v.uids[i] = conn[s].uids[j] /\ v.names[i] = names[s][j]
        \/ v.names[i] \in Msgs /\ v.uids[i] = uid'[v.names[i]][conn[s].folder]
  BY <1>1 DEF Together
<1>7. Len(v.names) = Len(v.uids)
  BY <1>1 DEF Together
<1> QED BY <1>1, <1>3, <1>4, <1>5, <1>6, <1>7, ListMoves

(* A step that gives a session another mailbox, or none. *)
LEMMA MailboxMoves ==
  ASSUME MailInv, NEW s \in Sessions, UNCHANGED validity, NEW ns \in Seq(Msgs),
         conn' \in [Sessions -> Conns], names' = [names EXCEPT ![s] = ns],
         \A r \in Sessions : r # s => conn'[r] = conn[r],
         Len(ns) = Len(conn'[s].uids), conn'[s].valid <= validity,
         conn'[s].folder = None => conn'[s].uids = <<>>,
         \A i \in 1..Len(ns) : ns[i] \in Msgs /\ conn'[s].uids[i] = uid'[ns[i]][conn'[s].folder]
  PROVE  ViewMoves(s)
<1>0. ViewsOK
  BY InvParts
<1>2. names' \in [Sessions -> Seq(Msgs)] /\ names'[s] = ns /\ \A r \in Sessions : r # s => names'[r] = names[r]
  BY <1>0 DEF ViewsOK
<1>3. PlacesGoOn(s)
  BY <1>2 DEF PlacesGoOn
<1> QED BY <1>2, <1>3 DEF ViewMoves

LEMMA LeaveMoves ==
  ASSUME MailInv, NEW s \in Sessions, NEW ro \in BOOLEAN, Leave(s, ro), UNCHANGED validity
  PROVE  ViewMoves(s)
<1>1. ViewsOK /\ conn[s] \in Conns /\ conn[s].valid <= validity
  BY InvParts
<1>2. conn' = [conn EXCEPT ![s].folder = None, ![s].uids = <<>>, ![s].ro = ro]
  BY DEF Leave
<1>3. names' = [names EXCEPT ![s] = <<>>]
  BY DEF Leave
<1>4. conn' \in [Sessions -> Conns]
  <2>1. <<>> \in Seq(Nat) /\ None \in Folders \cup {None}
    OBVIOUS
  <2> QED BY <1>1, <1>2, <2>1 DEF ViewsOK, Conns
<1>5. /\ conn'[s].uids = <<>> /\ conn'[s].valid = conn[s].valid
      /\ \A r \in Sessions : r # s => conn'[r] = conn[r]
  BY <1>1, <1>2 DEF ViewsOK, Conns
<1>6. <<>> \in Seq(Msgs) /\ Len(<<>>) = 0 /\ 1..0 = {}
  OBVIOUS
<1> QED BY <1>1, <1>3, <1>4, <1>5, <1>6, MailboxMoves

-----------------------------------------------------------------------------
(* What a command reads. *)

(* Selecting a mailbox. *)
LEMMA SelectMoves ==
  ASSUME MailInv, NEW s \in Sessions, NEW f \in Folders, NEW ro \in BOOLEAN, UNCHANGED numbers,
         conn' = [conn EXCEPT ![s].folder = f, ![s].ro = ro, ![s].valid = validity,
                              ![s].uids = UidsOf(Listing(f), f)],
         names' = [names EXCEPT ![s] = Listing(f)]
  PROVE  ViewMoves(s)
<1> DEFINE ns == Listing(f)
           us == UidsOf(ns, f)
<1>1. Rows(f) \in SUBSET Msgs
  BY DEF Rows
<1>2. ns \in Seq(Msgs)
  BY <1>1, ByUidIs DEF Listing
<1>3. /\ us \in Seq(Nat) /\ Len(us) = Len(ns)
      /\ \A i \in 1..Len(ns) : us[i] = uid[ns[i]][f] /\ ns[i] \in Msgs
  BY <1>2, UidsOfIs
<1>4. ViewsOK /\ conn[s] \in Conns /\ validity \in Nat /\ f # None
  BY InvParts, InvNumbers, FoldersAssumption
<1> HIDE DEF ns, us
<1>5. /\ conn' = [conn EXCEPT ![s].folder = f, ![s].ro = ro, ![s].valid = validity, ![s].uids = us]
      /\ names' = [names EXCEPT ![s] = ns]
  BY DEF ns, us
<1>6. conn' \in [Sessions -> Conns]
  <2> DEFINE c == [conn[s] EXCEPT !.folder = f, !.ro = ro, !.valid = validity, !.uids = us]
  <2>1. c \in Conns
    BY <1>3, <1>4 DEF Conns
  <2>2. conn' = [conn EXCEPT ![s] = c]
    BY <1>4, <1>5 DEF ViewsOK, Conns
  <2> HIDE DEF c
  <2> QED BY <1>4, <2>1, <2>2 DEF ViewsOK
<1>7. /\ conn'[s].folder = f /\ conn'[s].uids = us /\ conn'[s].valid = validity
      /\ \A r \in Sessions : r # s => conn'[r] = conn[r]
  BY <1>4, <1>5 DEF ViewsOK, Conns
<1>8. validity' = validity /\ uid' = uid
  BY DEF numbers
<1>9. \A i \in 1..Len(ns) : ns[i] \in Msgs /\ conn'[s].uids[i] = uid'[ns[i]][conn'[s].folder]
  BY <1>3, <1>7, <1>8
<1>10. Len(ns) = Len(conn'[s].uids) /\ conn'[s].valid <= validity /\ conn'[s].folder # None
  BY <1>3, <1>4, <1>7
<1> QED BY <1>2, <1>5, <1>6, <1>7, <1>8, <1>9, <1>10, MailboxMoves

(* What a command reads of the rows stands. *)
LEMMA HeldStands ==
  ASSUME MailInv, NEW m \in Msgs, NEW f \in Folders, NEW t, t = [uid |-> uid[m][f], msg |-> m]
  PROVE  t \in Target /\ Stands(t, f)
<1>1. uid[m][f] \in Nat /\ uidnext[f] \in Nat /\ uidnext[f] # 0
  BY InvNumbers DEF MailInv, NumbersGoUp
<1>2. t \in Target /\ t.uid = uid[m][f] /\ t.msg = m
  BY <1>1 DEF Target
<1>3. t.uid < uidnext[f]
  BY <1>1, <1>2, InvNumbers
<1>4. \A n \in Holders(t.uid, f) : n = m
  BY <1>2, InvNumbers DEF Holders
<1> QED BY <1>2, <1>3, <1>4 DEF Stands

LEMMA MsgAtIs ==
  ASSUME MailInv, NEW s \in Sessions, NEW i \in Visible(s)
  PROVE  /\ conn[s].folder \in Folders /\ i \in 1..Len(conn[s].uids) /\ MsgAt(s, i) \in Msgs
         /\ uid[MsgAt(s, i)][conn[s].folder] = conn[s].uids[i]
<1> DEFINE f == conn[s].folder
           rows == Listing(f)
           hits == {k \in DOMAIN rows : uid[rows[k]][f] = conn[s].uids[i]}
<1>1. conn[s] \in Conns /\ conn[s].uids \in Seq(Nat)
  BY InvParts
<1>2. i \in 1..Len(conn[s].uids) /\ MsgAt(s, i) # None
  BY <1>1 DEF Visible
<1>3. f \in Folders
  BY <1>1, <1>2 DEF Conns, MailInv, ClosedIsEmpty
<1>4. Rows(f) \in SUBSET Msgs
  BY DEF Rows
<1>5. DOMAIN rows = 1..Len(rows) /\ Len(rows) \in Nat /\ \A k \in 1..Len(rows) : rows[k] \in Rows(f)
  BY <1>3, <1>4, ByUidIs DEF Listing
<1>6. hits # {} /\ MsgAt(s, i) = rows[Max(hits)]
  BY <1>2 DEF MsgAt
<1>7. hits \in SUBSET (1..Len(rows))
  BY <1>5
<1>8. Max(hits) \in hits
  <2>1. Len(rows) \in Nat /\ hits \in SUBSET (0..Len(rows)) /\ hits # {}
    BY <1>5, <1>6, <1>7
  <2> HIDE DEF hits, rows
  <2> QED BY <2>1, MaxIs
<1>9. rows[Max(hits)] \in Msgs /\ uid[rows[Max(hits)]][f] = conn[s].uids[i]
  BY <1>4, <1>5, <1>8
<1> QED BY <1>2, <1>3, <1>6, <1>9

LEMMA TargetsAtAre ==
  ASSUME MailInv, NEW s \in Sessions, NEW is \in SUBSET Visible(s)
  PROVE  /\ TargetsAt(s, is) \in Seq(Target) /\ Len(TargetsAt(s, is)) = Cardinality(is)
         /\ \A t \in Range(TargetsAt(s, is)) : t.msg \in Msgs /\ Stands(t, conn[s].folder)
<1> DEFINE o == InOrder(is)
           c == Cardinality(is)
           e(k) == [uid |-> conn[s].uids[o[k]], msg |-> MsgAt(s, o[k])]
           q == TargetsAt(s, is)
<1>1. is \in SUBSET (1..Len(conn[s].uids)) /\ is \in SUBSET Nat
  <2>1. conn[s].uids \in Seq(Nat)
    BY InvParts
  <2> QED BY <2>1, MsgAtIs
<1>2. IsFiniteSet(is) /\ c \in Nat
  <2>1. Len(conn[s].uids) \in Nat
    BY InvParts
  <2>2. IsFiniteSet(1..Len(conn[s].uids))
    BY <2>1, FS_Interval
  <2> QED BY <1>1, <2>2, FS_Subset, FS_CardinalityType
<1>3. DOMAIN o = 1..c /\ \A k \in 1..c : o[k] \in is
  BY <1>1, <1>2, InOrderIs DEF Ascends
<1>4. q = [k \in 1..c |-> e(k)]
  BY <1>3 DEF TargetsAt
<1> HIDE DEF o, c, q
<1>5. ASSUME NEW k \in 1..c
      PROVE  e(k) \in Target /\ Stands(e(k), conn[s].folder)
  <2>1. o[k] \in Visible(s)
    BY <1>3
  <2>2. /\ conn[s].folder \in Folders /\ MsgAt(s, o[k]) \in Msgs
        /\ uid[MsgAt(s, o[k])][conn[s].folder] = conn[s].uids[o[k]]
    BY <2>1, MsgAtIs
  <2> QED BY <2>2, HeldStands
<1>6. q \in [1..c -> Target]
  BY <1>4, <1>5
<1>7. q \in Seq(Target) /\ Len(q) = c
  BY <1>2, <1>6, ListIs
<1>8. \A t \in Range(q) : t \in Target /\ Stands(t, conn[s].folder)
  BY <1>4, <1>5 DEF Range
<1> QED BY <1>7, <1>8 DEF q, c, Target

LEMMA TargetsInAre ==
  ASSUME MailInv, NEW f \in Folders, NEW ms \in SUBSET Msgs
  PROVE  /\ TargetsIn(ms, f) \in Seq(Target)
         /\ \A t \in Range(TargetsIn(ms, f)) : t.msg \in Msgs /\ Stands(t, f)
<1> DEFINE o == ByUid(ms, f)
           c == Len(o)
           e(k) == [uid |-> uid[o[k]][f], msg |-> o[k]]
           q == TargetsIn(ms, f)
<1>1. DOMAIN o = 1..c /\ c \in Nat /\ \A k \in 1..c : o[k] \in Msgs
  BY ByUidIs
<1>2. q = [k \in 1..c |-> e(k)]
  BY <1>1 DEF TargetsIn
<1> HIDE DEF o, c, q
<1>3. \A k \in 1..c : e(k) \in Target /\ Stands(e(k), f)
  BY <1>1, HeldStands
<1>4. q \in [1..c -> Target]
  BY <1>2, <1>3
<1>5. q \in Seq(Target)
  BY <1>1, <1>4, ListIs
<1>6. \A t \in Range(q) : t \in Target /\ Stands(t, f)
  BY <1>2, <1>3 DEF Range
<1> QED BY <1>5, <1>6 DEF q, Target

(* A command that begins, goes on, or ends. *)
LEMMA CommandRests ==
  ASSUME MailInv, NEW s \in Sessions, NEW c \in Commands, cmd' = [cmd EXCEPT ![s] = c],
         c.op \notin Waiting, c.op \in Importing => c.dest \in Folders /\ Len(c.targets) = 1
  PROVE  WorkOf(s)' /\ TargetsGoOn(s)
<1>1. cmd'[s] = c
  BY InvParts DEF WorkOK
<1> QED BY <1>1 DEF WorkOf, TargetsGoOn, Waiting

LEMMA CommandWaits ==
  ASSUME MailInv, NEW s \in Sessions, NEW c \in Commands, cmd' = [cmd EXCEPT ![s] = c],
         SameMailbox(s), c.op \in Waiting, conn[s].folder \in Folders, c.dest \in Folders,
         c.op \in {"store", "expunge", "close"} => c.dest = conn[s].folder,
         c.op = "store" => Len(c.targets) = 1,
         \A t \in Range(c.targets) \cup Range(c.done) :
           \/ cmd[s].op \in Waiting /\ t \in Pending(s)
           \/ conn[s].valid = validity => Stands(t, conn[s].folder)
  PROVE  WorkOf(s)' /\ TargetsGoOn(s)
<1>1. cmd'[s] = c
  BY InvParts DEF WorkOK
<1>2. Pending(s)' = Range(c.targets) \cup Range(c.done)
  BY <1>1 DEF Pending
<1>3. c.op \notin Importing
  BY DEF Waiting, Importing
<1> QED BY <1>1, <1>2, <1>3 DEF WorkOf, TargetsGoOn, SameMailbox

-----------------------------------------------------------------------------
(* The account's server, the sync pass and the repair keep the invariant. *)

LEMMA SpendIs ==
  ASSUME MailInv, Spend
  PROVE  left' \in 0..MaxOps
BY InvParts, MaxOpsAssumption DEF RowsOK, Spend

(* The account's server and the sync pass. *)
LEMMA ElsewhereKeeps ==
  ASSUME MailInv, NEW m \in Msgs, Elsewhere(m)
  PROVE  MailInv'
<1>1. /\ UNCHANGED <<cache, numbers, sync, dirty, conn, names, cmd, bell>>
      /\ srv' \in [Msgs -> Folders \cup {"unborn", "gone"}] /\ left' \in 0..MaxOps
  BY InvParts, SpendIs DEF Elsewhere, Arrive, MovedElsewhere, DeletedElsewhere, RowsOK, Folders
<1>2. RowsOK'
  BY <1>1, InvParts DEF RowsOK, cache
<1>3. UidsGoOn
  BY <1>1, UidsRest
<1>4. sync' \in [msg : Msgs \cup {None}, into : Folders \cup {None}] /\ PassInHand'
  BY <1>1, InvParts DEF WorkOK, MailInv, WorkInHand, PassInHand
<1> QED BY <1>1, <1>2, <1>3, <1>4, OutsideStep

LEMMA CacheItemIs ==
  ASSUME MailInv, NEW m \in Msgs, NEW f \in Folders, CacheItem(m, f), UNCHANGED <<uidnext, validity>>
  PROVE  /\ folder' \in [Msgs -> Folders \cup {None}] /\ body' \in [Msgs -> BOOLEAN]
         /\ UidsGoOn
<1>1. RowsOK
  BY InvParts
<1>2. uid \in [Msgs -> [Folders -> Nat]] /\ 0 \in Nat
  BY InvNumbers
<1>3. /\ uid' \in [Msgs -> [Folders -> Nat]]
      /\ \A n \in Msgs, g \in Folders : uid'[n][g] = 0 \/ uid'[n][g] = uid[n][g]
  <2>1. CASE body[m] /\ folder[m] # f
    <3> DEFINE row == [g \in Folders |-> IF g = f THEN uid[m][g] ELSE 0]
    <3>1. uid' = [uid EXCEPT ![m] = row]
      BY <2>1 DEF CacheItem
    <3>2. row \in [Folders -> Nat] /\ \A g \in Folders : row[g] = 0 \/ row[g] = uid[m][g]
      BY <1>2
    <3> HIDE DEF row
    <3> QED BY <1>2, <3>1, <3>2
  <2>2. CASE ~(body[m] /\ folder[m] # f)
    BY <1>2, <2>2 DEF CacheItem
  <2> QED BY <2>1, <2>2
<1>4. UidsGoOn
  BY <1>3, UidsDrop
<1> QED BY <1>1, <1>4 DEF CacheItem, RowsOK

LEMMA SyncItemKeeps ==
  ASSUME MailInv, NEW m \in Msgs, SyncFolder(m) \/ SyncUpsert(m)
  PROVE  MailInv'
<1>1. /\ srv[m] \in Folders /\ CacheItem(m, srv[m]) /\ sync' = [msg |-> m, into |-> srv[m]]
      /\ UNCHANGED <<srv, deleted, uidnext, validity, conn, names, cmd, bell, left>>
      /\ dirty' \in BOOLEAN
  BY InvParts DEF SyncFolder, SyncUpsert, RowsOK
<1>2. /\ folder' \in [Msgs -> Folders \cup {None}] /\ body' \in [Msgs -> BOOLEAN]
      /\ UidsGoOn
  BY <1>1, CacheItemIs
<1>3. RowsOK'
  BY <1>1, <1>2, InvParts DEF RowsOK
<1>4. sync' \in [msg : Msgs \cup {None}, into : Folders \cup {None}] /\ PassInHand'
  BY <1>1 DEF PassInHand
<1> QED BY <1>1, <1>2, <1>3, <1>4, OutsideStep

LEMMA SyncRenumberKeeps ==
  ASSUME MailInv, NEW m \in Msgs, SyncRenumber(m)
  PROVE  MailInv'
<1>1. /\ folder[m] \in Folders /\ uid' = [uid EXCEPT ![m][folder[m]] = 0]
      /\ sync' = [msg |-> m, into |-> folder[m]] /\ dirty' = TRUE /\ left' \in 0..MaxOps
      /\ UNCHANGED <<srv, cache, uidnext, validity, conn, names, cmd, bell>>
  BY SpendIs DEF SyncRenumber, Unchanged
<1>2. uid \in [Msgs -> [Folders -> Nat]] /\ 0 \in Nat
  BY InvNumbers
<1>3. /\ uid' \in [Msgs -> [Folders -> Nat]]
      /\ \A n \in Msgs, g \in Folders : uid'[n][g] = 0 \/ uid'[n][g] = uid[n][g]
  BY <1>1, <1>2
<1>4. UidsGoOn
  BY <1>1, <1>3, UidsDrop
<1>5. RowsOK'
  BY <1>1, InvParts DEF RowsOK, cache
<1>6. sync' \in [msg : Msgs \cup {None}, into : Folders \cup {None}] /\ PassInHand'
  BY <1>1 DEF PassInHand
<1> QED BY <1>1, <1>4, <1>5, <1>6, OutsideStep

LEMMA SyncAssignKeeps ==
  ASSUME MailInv, SyncAssign
  PROVE  MailInv'
<1>1. sync.msg \in Msgs /\ sync.into \in Folders
  BY DEF SyncAssign, MailInv, WorkInHand, PassInHand
<1>2. UidsGoOn
  <2> DEFINE ms == <<sync.msg>>
  <2>1. Len(ms) = 1 /\ \A k \in 1..1 : ms[k] \in Msgs
    BY <1>1
  <2>2. AssignUids(sync.into, ms, uid) /\ UNCHANGED validity
    BY DEF SyncAssign
  <2>3. uid \in [Msgs -> [Folders -> Nat]] /\ 1 \in Nat
    BY InvNumbers
  <2> HIDE DEF ms
  <2> QED BY <1>1, <2>1, <2>2, <2>3, UidsAssign
<1>3. /\ sync' = NoSync
      /\ UNCHANGED <<srv, cache, validity, dirty, conn, names, cmd, bell, left>>
  BY DEF SyncAssign
<1>4. RowsOK'
  BY <1>3, InvParts DEF RowsOK, cache
<1>5. sync' \in [msg : Msgs \cup {None}, into : Folders \cup {None}] /\ PassInHand'
  BY <1>3 DEF PassInHand, NoSync
<1> QED BY <1>2, <1>3, <1>4, <1>5, OutsideStep

LEMMA ForgetIs ==
  ASSUME MailInv, NEW ms, Forget(ms)
  PROVE  /\ folder' \in [Msgs -> Folders \cup {None}]
         /\ body' \in [Msgs -> BOOLEAN] /\ deleted' \in [Msgs -> BOOLEAN]
<1>1. RowsOK
  BY InvParts
<1>2. folder' \in [Msgs -> Folders \cup {None}]
  BY <1>1 DEF Forget, RowsOK
<1>3. \A m \in Msgs : (m \notin ms /\ body[m]) \in BOOLEAN /\ (m \notin ms /\ deleted[m]) \in BOOLEAN
  OBVIOUS
<1>4. body' = [m \in Msgs |-> m \notin ms /\ body[m]] /\ deleted' = [m \in Msgs |-> m \notin ms /\ deleted[m]]
  BY DEF Forget
<1>5. body' \in [Msgs -> BOOLEAN] /\ deleted' \in [Msgs -> BOOLEAN]
  BY <1>3, <1>4, Zenon
<1> QED BY <1>2, <1>5

LEMMA SyncPruneKeeps ==
  ASSUME MailInv, NEW m \in Msgs, SyncPrune(m)
  PROVE  MailInv'
<1>1. /\ Forget({m}) /\ uid' = [uid EXCEPT ![m] = NoMapping] /\ dirty' = TRUE
      /\ UNCHANGED <<srv, uidnext, validity, sync, conn, names, cmd, bell, left>>
  BY DEF SyncPrune
<1>2. NoMapping \in [Folders -> Nat] /\ \A g \in Folders : NoMapping[g] = 0
  BY DEF NoMapping
<1>3. uid \in [Msgs -> [Folders -> Nat]]
  BY InvNumbers
<1>4. /\ uid' \in [Msgs -> [Folders -> Nat]]
      /\ \A n \in Msgs, g \in Folders : uid'[n][g] = 0 \/ uid'[n][g] = uid[n][g]
  BY <1>1, <1>2, <1>3
<1>5. UidsGoOn
  BY <1>1, <1>4, UidsDrop
<1>6. RowsOK'
  BY <1>1, InvParts, ForgetIs DEF RowsOK
<1>7. sync' \in [msg : Msgs \cup {None}, into : Folders \cup {None}] /\ PassInHand'
  BY <1>1, InvParts DEF WorkOK, MailInv, WorkInHand, PassInHand
<1> QED BY <1>1, <1>5, <1>6, <1>7, OutsideStep

LEMMA SyncAnnounceKeeps ==
  ASSUME MailInv, SyncAnnounce
  PROVE  MailInv'
<1>1. /\ dirty' = FALSE /\ bell' = [s \in Sessions |-> bell[s] \/ cmd[s].op = "idle"]
      /\ UNCHANGED <<srv, cache, numbers, sync, conn, names, cmd, left>>
  BY DEF SyncAnnounce, Ring
<1>2. bell' \in [Sessions -> BOOLEAN]
  <2>1. \A s \in Sessions : (bell[s] \/ cmd[s].op = "idle") \in BOOLEAN
    OBVIOUS
  <2> QED BY <1>1, <2>1, Zenon
<1>3. RowsOK'
  BY <1>1, <1>2, InvParts DEF RowsOK, cache
<1>4. UidsGoOn
  BY <1>1, UidsRest
<1>5. sync' \in [msg : Msgs \cup {None}, into : Folders \cup {None}] /\ PassInHand'
  BY <1>1, InvParts DEF WorkOK, MailInv, WorkInHand, PassInHand
<1> QED BY <1>1, <1>3, <1>4, <1>5, OutsideStep

LEMMA RecacheKeeps ==
  ASSUME MailInv, NEW m \in Msgs, Recache(m)
  PROVE  MailInv'
<1>1. /\ body' = [body EXCEPT ![m] = FALSE] /\ left' \in 0..MaxOps
      /\ UNCHANGED <<srv, folder, deleted, numbers, sync, dirty, conn, names, cmd, bell>>
  BY SpendIs DEF Recache
<1>2. RowsOK'
  BY <1>1, InvParts DEF RowsOK
<1>3. UidsGoOn
  BY <1>1, UidsRest
<1>4. sync' \in [msg : Msgs \cup {None}, into : Folders \cup {None}] /\ PassInHand'
  BY <1>1, InvParts DEF WorkOK, MailInv, WorkInHand, PassInHand
<1> QED BY <1>1, <1>2, <1>3, <1>4, OutsideStep

(* After a repair no session holds UIDs that count. *)
LEMMA RepairKeeps ==
  ASSUME MailInv, Repair
  PROVE  MailInv'
<1>1. /\ Forget(Msgs) /\ left' \in 0..MaxOps
      /\ uid' = [m \in Msgs |-> NoMapping] /\ uidnext' = [f \in Folders |-> 1]
      /\ validity' = validity + 1
      /\ UNCHANGED <<srv, sync, dirty, conn, names, cmd, bell>>
  BY SpendIs DEF Repair, NewValidity
<1>2. validity \in Nat /\ validity' \in Nat
  BY <1>1, InvNumbers
<1>3. NumbersOK' /\ \A m \in Msgs, f \in Folders : uid'[m][f] = 0
  BY <1>1, <1>2 DEF NumbersOK, NoMapping
<1>4. RowsOK'
  BY <1>1, InvParts, ForgetIs DEF RowsOK
<1>5. ViewsOK' /\ WorkOK'
  BY <1>1, InvParts DEF ViewsOK, WorkOK
<1>6. TypeOK'
  BY <1>3, <1>4, <1>5, TypeParts
<1>7. WorkInHand' /\ ClosedIsEmpty'
  BY <1>1 DEF MailInv, WorkInHand, WorkOf, PassInHand, ClosedIsEmpty
<1>8. \A s \in Sessions : conn[s].valid \in Nat /\ conn[s].valid <= validity
  BY InvParts DEF Conns
<1>9. \A s \in Sessions : conn'[s].valid # validity' /\ conn'[s].valid <= validity'
  BY <1>1, <1>2, <1>8
<1>10. NumbersGoUp'
  BY <1>1, <1>9 DEF NumbersGoUp
<1>11. NumberingSound' /\ TargetsStand'
  BY <1>3, <1>9 DEF NumberingSound, TargetsStand
<1>12. SeqNamesMessage'
  BY <1>1, <1>9, InvParts DEF SeqNamesMessage
<1> QED BY <1>6, <1>7, <1>10, <1>11, <1>12 DEF MailInv

-----------------------------------------------------------------------------
(* Commands that begin keep it. *)

LEMMA HeadAndTail ==
  ASSUME NEW S, NEW q \in Seq(S), q # <<>>
  PROVE  /\ Head(q) \in S /\ Head(q) \in Range(q)
         /\ Tail(q) \in Seq(S) /\ Range(Tail(q)) \subseteq Range(q)
<1>1. Len(q) \in Nat /\ Len(q) # 0 /\ DOMAIN q = 1..Len(q) /\ \A i \in 1..Len(q) : q[i] \in S
  OBVIOUS
<1>2. Head(q) = q[1] /\ 1 \in 1..Len(q)
  BY <1>1
<1>3. /\ Tail(q) \in Seq(S) /\ DOMAIN Tail(q) = 1..(Len(q) - 1)
      /\ \A i \in 1..(Len(q) - 1) : Tail(q)[i] = q[i + 1] /\ i + 1 \in 1..Len(q)
  BY <1>1
<1> QED BY <1>1, <1>2, <1>3 DEF Range

LEMMA AppendAdds ==
  ASSUME NEW S, NEW q \in Seq(S), NEW e \in S
  PROVE  Append(q, e) \in Seq(S) /\ Range(Append(q, e)) \subseteq Range(q) \cup {e}
<1>1. Len(q) \in Nat /\ DOMAIN q = 1..Len(q)
  OBVIOUS
<1>2. /\ Append(q, e) \in Seq(S) /\ DOMAIN Append(q, e) = 1..(Len(q) + 1)
      /\ \A i \in 1..Len(q) : Append(q, e)[i] = q[i]
      /\ Append(q, e)[Len(q) + 1] = e
  BY <1>1
<1>3. \A i \in 1..(Len(q) + 1) : i \in 1..Len(q) \/ i = Len(q) + 1
  BY <1>1
<1> QED BY <1>1, <1>2, <1>3 DEF Range

LEMMA RestingIs == Resting \in Commands /\ Resting.op \notin Waiting /\ Resting.op \notin Importing
<1>1. <<>> \in Seq(Target)
  OBVIOUS
<1> QED BY <1>1 DEF Resting, Commands, Waiting, Importing, Ops

(* A session changes what it shows, and is not waiting. *)
LEMMA ShowingStep ==
  ASSUME MailInv, NEW s \in Sessions, RowsOK', UNCHANGED <<numbers, sync, cmd>>,
         cmd[s].op \notin Waiting, ViewMoves(s)
  PROVE  MailInv'
<1>1. cmd[s] \in Commands /\ cmd' = [cmd EXCEPT ![s] = cmd[s]]
  BY InvParts DEF WorkOK
<1>2. WorkOf(s)' /\ TargetsGoOn(s)
  <2>1. cmd[s].op \in Importing => cmd[s].dest \in Folders /\ Len(cmd[s].targets) = 1
    BY DEF MailInv, WorkInHand, WorkOf
  <2> QED BY <1>1, <2>1, CommandRests
<1>3. UidsGoOn
  BY UidsRest
<1> QED BY <1>1, <1>2, <1>3, SessionStep

LEMMA ReportShows ==
  ASSUME MailInv, NEW s \in Sessions, Report(s, TRUE), UNCHANGED numbers
  PROVE  ViewMoves(s) /\ SameMailbox(s)
<1>1. CASE conn[s].folder = None
  BY <1>1, ViewRests DEF Report
<1>2. CASE conn[s].folder # None
  <2>1. conn[s].folder \in Folders
    BY <1>2, InvParts DEF Conns
  <2>2. ReportAfter(s, TRUE, {}) /\ {} \in SUBSET Msgs /\ TRUE \in BOOLEAN
    BY <1>2 DEF Report
  <2> QED BY <2>1, <2>2, ReportMoves
<1> QED BY <1>1, <1>2

LEMMA RowsRest ==
  ASSUME MailInv, UNCHANGED <<srv, cache, dirty, bell, left>>
  PROVE  RowsOK'
BY InvParts DEF RowsOK, cache

LEMMA SelectKeeps ==
  ASSUME MailInv, NEW s \in Sessions, NEW f \in Folders, NEW ro \in BOOLEAN, Select(s, f, ro)
  PROVE  MailInv'
<1>1. ViewMoves(s)
  BY SelectMoves DEF Select
<1>2. /\ UNCHANGED <<srv, cache, dirty, bell, left>> /\ UNCHANGED <<numbers, sync, cmd>>
      /\ cmd[s].op \notin Waiting
  BY DEF Select, Rests, Waiting
<1> QED BY <1>1, <1>2, RowsRest, ShowingStep

LEMMA UnselectKeeps ==
  ASSUME MailInv, NEW s \in Sessions, Unselect(s)
  PROVE  MailInv'
<1>1. ViewMoves(s)
  <2>1. conn[s].ro \in BOOLEAN /\ UNCHANGED validity
    BY InvParts DEF Conns, Unselect, numbers
  <2> QED BY <2>1, LeaveMoves DEF Unselect
<1>2. /\ UNCHANGED <<srv, cache, dirty, bell, left>> /\ UNCHANGED <<numbers, sync, cmd>>
      /\ cmd[s].op \notin Waiting
  BY DEF Unselect, Selected, Rests, Waiting
<1> QED BY <1>1, <1>2, RowsRest, ShowingStep

LEMMA NoopKeeps ==
  ASSUME MailInv, NEW s \in Sessions, Noop(s)
  PROVE  MailInv'
<1>1. /\ UNCHANGED <<srv, cache, dirty, bell, left>> /\ UNCHANGED <<numbers, sync, cmd>>
      /\ cmd[s].op \notin Waiting /\ Report(s, TRUE)
  BY DEF Noop, Selected, Rests, Waiting
<1> QED BY <1>1, ReportShows, RowsRest, ShowingStep

(* A command that reads what it is about. *)
LEMMA StoreKeeps ==
  ASSUME MailInv, NEW s \in Sessions, Store(s)
  PROVE  MailInv'
<1>1. PICK i \in Visible(s), set \in BOOLEAN :
        Begins(s, [op |-> "store", dest |-> conn[s].folder, targets |-> TargetsAt(s, {i}),
                   done |-> <<>>, flag |-> set])
  BY DEF Store
<1> DEFINE ts == TargetsAt(s, {i})
           c == [op |-> "store", dest |-> conn[s].folder, targets |-> ts, done |-> <<>>, flag |-> set]
<1>2. /\ UNCHANGED <<srv, cache, dirty, bell, left>> /\ UNCHANGED <<numbers, sync>>
      /\ UNCHANGED <<conn, names>>
  BY DEF Store
<1>3. conn[s].folder \in Folders
  BY MsgAtIs
<1>4. ts \in Seq(Target) /\ Len(ts) = 1 /\ \A t \in Range(ts) : Stands(t, conn[s].folder)
  <2>1. Cardinality({i}) = 1
    BY FS_Singleton
  <2> QED BY <2>1, TargetsAtAre
<1> HIDE DEF ts
<1>5. c \in Commands /\ c.op = "store" /\ c.dest = conn[s].folder /\ c.targets = ts /\ c.done = <<>>
  <2>1. <<>> \in Seq(Target)
    OBVIOUS
  <2> QED BY <1>3, <1>4, <2>1 DEF Commands, Ops
<1>6. Range(<<>>) = {}
  BY DEF Range
<1>7. cmd' = [cmd EXCEPT ![s] = c]
  BY <1>1 DEF Begins, ts
<1> HIDE DEF c
<1>8. ViewMoves(s) /\ SameMailbox(s)
  BY <1>2, ViewRests
<1>9. WorkOf(s)' /\ TargetsGoOn(s)
  BY <1>3, <1>4, <1>5, <1>6, <1>7, <1>8, CommandWaits DEF Waiting
<1>10. RowsOK' /\ UidsGoOn
  BY <1>2, RowsRest, UidsRest
<1> QED BY <1>2, <1>5, <1>7, <1>8, <1>9, <1>10, SessionStep

LEMMA ReadingKeeps ==
  ASSUME MailInv, NEW s \in Sessions, conn[s].folder \in Folders,
         NEW op \in {"expunge", "close"}, NEW ms \in SUBSET Msgs,
         Begins(s, [op |-> op, dest |-> conn[s].folder, targets |-> TargetsIn(ms, conn[s].folder),
                    done |-> <<>>, flag |-> FALSE]),
         UNCHANGED <<srv, cache, numbers, sync, dirty, bell, left>>, ViewMoves(s), SameMailbox(s)
  PROVE  MailInv'
<1> DEFINE f == conn[s].folder
           ts == TargetsIn(ms, f)
           c == [op |-> op, dest |-> f, targets |-> ts, done |-> <<>>, flag |-> FALSE]
<1>1. ts \in Seq(Target) /\ \A t \in Range(ts) : Stands(t, f)
  BY TargetsInAre
<1> HIDE DEF ts
<1>2. c \in Commands /\ c.op = op /\ c.dest = f /\ c.targets = ts /\ c.done = <<>>
  <2>1. <<>> \in Seq(Target)
    OBVIOUS
  <2> QED BY <1>1, <2>1 DEF Commands, Ops
<1>3. Range(<<>>) = {}
  BY DEF Range
<1>4. cmd' = [cmd EXCEPT ![s] = c]
  BY DEF Begins, ts
<1> HIDE DEF c
<1>5. WorkOf(s)' /\ TargetsGoOn(s)
  BY <1>1, <1>2, <1>3, <1>4, CommandWaits DEF Waiting
<1>6. RowsOK' /\ UidsGoOn
  BY RowsRest, UidsRest
<1> QED BY <1>2, <1>4, <1>5, <1>6, SessionStep

LEMMA ExpungeKeeps ==
  ASSUME MailInv, NEW s \in Sessions, Expunge(s)
  PROVE  MailInv'
<1>1. conn[s].folder \in Folders
  BY InvParts DEF Expunge, Writable, Selected, Conns
<1>2. PICK named \in SUBSET {m \in Rows(conn[s].folder) : deleted[m]} :
        Begins(s, [op |-> "expunge", dest |-> conn[s].folder,
                   targets |-> TargetsIn(named, conn[s].folder), done |-> <<>>, flag |-> FALSE])
  BY DEF Expunge
<1>3. named \in SUBSET Msgs
  BY DEF Rows
<1>4. UNCHANGED <<srv, cache, numbers, sync, dirty, bell, left>> /\ Report(s, TRUE)
  BY DEF Expunge
<1>5. ViewMoves(s) /\ SameMailbox(s)
  BY <1>4, ReportShows
<1> QED BY <1>1, <1>2, <1>3, <1>4, <1>5, ReadingKeeps

LEMMA CloseKeeps ==
  ASSUME MailInv, NEW s \in Sessions, Close(s)
  PROVE  MailInv'
<1> DEFINE ms == IF conn[s].ro THEN {} ELSE {m \in Rows(conn[s].folder) : deleted[m]}
<1>1. conn[s].folder \in Folders
  BY InvParts DEF Close, Selected, Conns
<1>2. Begins(s, [op |-> "close", dest |-> conn[s].folder,
                 targets |-> TargetsIn(ms, conn[s].folder), done |-> <<>>, flag |-> FALSE])
  BY DEF Close
<1>3. ms \in SUBSET Msgs
  BY DEF Rows
<1>4. /\ UNCHANGED <<srv, cache, numbers, sync, dirty, bell, left>>
      /\ UNCHANGED <<conn, names>>
  BY DEF Close
<1>5. ViewMoves(s) /\ SameMailbox(s)
  BY <1>4, ViewRests
<1> HIDE DEF ms
<1> QED BY <1>1, <1>2, <1>3, <1>4, <1>5, ReadingKeeps

LEMMA MoveKeeps ==
  ASSUME MailInv, NEW s \in Sessions, Move(s)
  PROVE  MailInv'
<1>1. PICK is \in SUBSET Visible(s), f \in Folders :
        Begins(s, [op |-> "move", dest |-> f, targets |-> TargetsAt(s, is),
                   done |-> <<>>, flag |-> FALSE])
  BY DEF Move
<1> DEFINE ts == TargetsAt(s, is)
           c == [op |-> "move", dest |-> f, targets |-> ts, done |-> <<>>, flag |-> FALSE]
<1>2. /\ UNCHANGED <<srv, cache, dirty, bell>> /\ UNCHANGED <<numbers, sync>>
      /\ UNCHANGED <<conn, names>> /\ Spend
  BY DEF Move
<1>3. conn[s].folder \in Folders
  BY InvParts DEF Move, Writable, Selected, Conns
<1>4. ts \in Seq(Target) /\ \A t \in Range(ts) : Stands(t, conn[s].folder)
  BY TargetsAtAre
<1> HIDE DEF ts
<1>5. c \in Commands /\ c.op = "move" /\ c.dest = f /\ c.targets = ts /\ c.done = <<>>
  <2>1. <<>> \in Seq(Target)
    OBVIOUS
  <2> QED BY <1>4, <2>1 DEF Commands, Ops
<1>6. Range(<<>>) = {}
  BY DEF Range
<1>7. cmd' = [cmd EXCEPT ![s] = c]
  BY <1>1 DEF Begins, ts
<1> HIDE DEF c
<1>8. ViewMoves(s) /\ SameMailbox(s)
  BY <1>2, ViewRests
<1>9. WorkOf(s)' /\ TargetsGoOn(s)
  BY <1>3, <1>4, <1>5, <1>6, <1>7, <1>8, CommandWaits DEF Waiting
<1>10. RowsOK' /\ UidsGoOn
  BY <1>2, InvParts, SpendIs, UidsRest DEF RowsOK, cache
<1> QED BY <1>2, <1>5, <1>7, <1>8, <1>9, <1>10, SessionStep

-----------------------------------------------------------------------------
(* Commands that finish keep it: STORE, EXPUNGE, CLOSE and MOVE ... *)

(* What a command does once it has begun. *)
LEMMA EndsIs ==
  ASSUME MailInv, NEW s \in Sessions, Ends(s)
  PROVE  cmd' = [cmd EXCEPT ![s] = Resting] /\ WorkOf(s)' /\ TargetsGoOn(s)
<1>1. cmd' = [cmd EXCEPT ![s] = Resting]
  BY DEF Ends, Begins
<1> QED BY <1>1, RestingIs, CommandRests

LEMMA EndingStep ==
  ASSUME MailInv, NEW s \in Sessions, RowsOK', UNCHANGED sync, UidsGoOn, ViewMoves(s), Ends(s)
  PROVE  MailInv'
BY EndsIs, RestingIs, SessionStep

LEMMA StoreWriteKeeps ==
  ASSUME MailInv, NEW s \in Sessions, StoreWrite(s)
  PROVE  MailInv'
<1>1. RowsOK
  BY InvParts
<1>2. cmd[s].flag \in BOOLEAN
  BY InvParts DEF Commands
<1> DEFINE hit == Holders(Head(cmd[s].targets).uid, cmd[s].dest)
           value(m) == IF m \in hit /\ folder[m] # None THEN cmd[s].flag ELSE deleted[m]
<1>3. deleted' = [m \in Msgs |-> value(m)]
  BY DEF StoreWrite
<1>4. \A m \in Msgs : value(m) \in BOOLEAN
  BY <1>1, <1>2 DEF RowsOK
<1> HIDE DEF value
<1>5. deleted' \in [Msgs -> BOOLEAN]
  BY <1>3, <1>4, Zenon
<1>6. /\ UNCHANGED <<srv, folder, body, dirty, bell, left>> /\ UNCHANGED <<conn, names>>
      /\ UNCHANGED numbers /\ UNCHANGED sync /\ Ends(s)
  BY DEF StoreWrite
<1>7. RowsOK'
  BY <1>1, <1>5, <1>6 DEF RowsOK
<1> QED BY <1>6, <1>7, ViewRests, UidsRest, EndingStep

LEMMA ExpungeServerKeeps ==
  ASSUME MailInv, NEW s \in Sessions, ExpungeServer(s)
  PROVE  MailInv'
<1> DEFINE c0 == cmd[s]
           t == Head(c0.targets)
           rest == [c0 EXCEPT !.targets = Tail(c0.targets)]
           add == [rest EXCEPT !.done = Append(rest.done, t)]
<1>1. c0 \in Commands /\ c0.op \in {"expunge", "close"} /\ c0.targets \in Seq(Target)
      /\ c0.targets # <<>> /\ c0.done \in Seq(Target)
  BY InvParts DEF ExpungeServer, Commands
<1>2. t \in Target /\ t \in Range(c0.targets) /\ Tail(c0.targets) \in Seq(Target)
      /\ Range(Tail(c0.targets)) \subseteq Range(c0.targets)
  BY <1>1, HeadAndTail
<1>3. Append(c0.done, t) \in Seq(Target) /\ Range(Append(c0.done, t)) \subseteq Range(c0.done) \cup {t}
  BY <1>1, <1>2, AppendAdds
<1>4. /\ UNCHANGED <<cache, dirty, bell, left>> /\ UNCHANGED <<conn, names>>
      /\ UNCHANGED numbers /\ UNCHANGED sync
  BY DEF ExpungeServer
<1>5. /\ srv' \in [Msgs -> Folders \cup {"unborn", "gone"}]
      /\ cmd' = [cmd EXCEPT ![s] = add] \/ cmd' = [cmd EXCEPT ![s] = rest]
  BY InvParts DEF ExpungeServer, Begins, RowsOK, Folders
<1> HIDE DEF t
<1>6. /\ rest \in Commands /\ rest.op = c0.op /\ rest.dest = c0.dest
      /\ rest.targets = Tail(c0.targets) /\ rest.done = c0.done
  BY <1>1, <1>2 DEF Commands
<1> HIDE DEF rest
<1>7. /\ add \in Commands /\ add.op = c0.op /\ add.dest = c0.dest
      /\ add.targets = Tail(c0.targets) /\ add.done = Append(c0.done, t)
  BY <1>1, <1>3, <1>6 DEF Commands
<1> HIDE DEF add
<1>8. PICK c \in {add, rest} : cmd' = [cmd EXCEPT ![s] = c]
  BY <1>5
<1>9. /\ c \in Commands /\ c.op = c0.op /\ c.dest = c0.dest
      /\ Range(c.targets) \cup Range(c.done) \subseteq Pending(s)
  BY <1>2, <1>3, <1>6, <1>7 DEF Pending
<1>10. ViewMoves(s) /\ SameMailbox(s)
  BY <1>4, ViewRests
<1>11. WorkOf(s)' /\ TargetsGoOn(s)
  <2>1. conn[s].folder \in Folders /\ c0.dest = conn[s].folder /\ c0.op \in Waiting /\ c0.op # "store"
    BY <1>1 DEF MailInv, WorkInHand, WorkOf, Waiting
  <2> QED BY <1>8, <1>9, <1>10, <2>1, CommandWaits
<1>12. RowsOK' /\ UidsGoOn
  BY <1>4, <1>5, InvParts, UidsRest DEF RowsOK, cache
<1> QED BY <1>4, <1>8, <1>9, <1>10, <1>11, <1>12, SessionStep

LEMMA UidsIn ==
  ASSUME NEW q \in Seq(Target)
  PROVE  /\ Len([k \in DOMAIN q |-> q[k].uid]) \in Nat
         /\ Len([k \in DOMAIN q |-> q[k].msg]) = Len(q) /\ Len(q) \in Nat
         /\ \A k \in 1..Len(q) : [i \in DOMAIN q |-> q[i].msg][k] = q[k].msg /\ q[k].msg \in Msgs
<1>1. DOMAIN q = 1..Len(q) /\ Len(q) \in Nat /\ \A k \in 1..Len(q) : q[k].uid \in Nat /\ q[k].msg \in Msgs
  <2>1. DOMAIN q = 1..Len(q) /\ Len(q) \in Nat /\ \A k \in 1..Len(q) : q[k] \in Target
    OBVIOUS
  <2> QED BY <2>1 DEF Target
<1>2. [k \in DOMAIN q |-> q[k].uid] \in [1..Len(q) -> Nat]
  BY <1>1
<1>3. [k \in DOMAIN q |-> q[k].msg] \in [1..Len(q) -> Msgs]
  BY <1>1
<1>4. Len([k \in DOMAIN q |-> q[k].uid]) = Len(q) /\ Len([k \in DOMAIN q |-> q[k].msg]) = Len(q)
  BY <1>1, <1>2, <1>3, ListIs
<1> QED BY <1>1, <1>4

LEMMA ExpungeCommitKeeps ==
  ASSUME MailInv, NEW s \in Sessions, ExpungeCommit(s)
  PROVE  MailInv'
<1> DEFINE f == cmd[s].dest
           uids == [k \in DOMAIN cmd[s].done |-> cmd[s].done[k].uid]
           hit == Removed(s)
<1>1. conn[s].folder \in Folders /\ f \in Folders
  BY DEF ExpungeCommit, MailInv, WorkInHand, WorkOf, Waiting
<1>2. /\ Forget(hit) /\ Ends(s)
      /\ uid' = [m \in Msgs |-> IF m \in hit THEN [uid[m] EXCEPT ![f] = 0] ELSE uid[m]]
      /\ UNCHANGED <<srv, dirty, bell, left>> /\ UNCHANGED <<uidnext, validity>> /\ UNCHANGED sync
      /\ Leave(s, FALSE) \/ ExpungeUids(s, uids)
  BY DEF ExpungeCommit
<1>3. Len(uids) \in Nat
  BY InvParts, UidsIn DEF Commands
<1> HIDE DEF uids, hit, f
<1>4. ViewMoves(s)
  BY <1>1, <1>2, <1>3, LeaveMoves, ExpungeMoves
<1>5. UidsGoOn
  <2>1. uid \in [Msgs -> [Folders -> Nat]] /\ 0 \in Nat
    BY InvNumbers
  <2>2. /\ uid' \in [Msgs -> [Folders -> Nat]]
        /\ \A n \in Msgs, g \in Folders : uid'[n][g] = 0 \/ uid'[n][g] = uid[n][g]
    BY <1>1, <1>2, <2>1
  <2> QED BY <1>2, <2>2, UidsDrop
<1>6. RowsOK'
  BY <1>2, InvParts, ForgetIs DEF RowsOK
<1> QED BY <1>2, <1>4, <1>5, <1>6, EndingStep

LEMMA MoveServerKeeps ==
  ASSUME MailInv, NEW s \in Sessions, MoveServer(s)
  PROVE  MailInv'
<1>1. /\ cmd[s].op = "move" /\ cmd[s] \in Commands
      /\ conn[s].folder \in Folders /\ cmd[s].dest \in Folders
  BY InvParts DEF MoveServer, MailInv, WorkInHand, WorkOf, Waiting
<1>2. /\ UNCHANGED <<cache, dirty, bell, left>> /\ UNCHANGED <<conn, names>>
      /\ UNCHANGED numbers /\ UNCHANGED sync
      /\ Begins(s, [cmd[s] EXCEPT !.op = "moved"]) \/ Ends(s)
  BY DEF MoveServer
<1>3. srv' \in [Msgs -> Folders \cup {"unborn", "gone"}]
  <2>1. PICK ms : srv' = [m \in Msgs |-> IF m \in ms THEN cmd[s].dest ELSE srv[m]]
    BY DEF MoveServer
  <2> QED BY <1>1, <2>1, InvParts DEF RowsOK
<1>4. ViewMoves(s) /\ SameMailbox(s)
  BY <1>2, ViewRests
<1>5. RowsOK' /\ UidsGoOn
  BY <1>2, <1>3, InvParts, UidsRest DEF RowsOK, cache
<1>6. CASE Ends(s)
  BY <1>2, <1>4, <1>5, <1>6, EndingStep
<1>7. CASE Begins(s, [cmd[s] EXCEPT !.op = "moved"])
  <2> DEFINE c == [cmd[s] EXCEPT !.op = "moved"]
  <2>1. /\ c \in Commands /\ c.op = "moved" /\ c.dest = cmd[s].dest
        /\ c.targets = cmd[s].targets /\ c.done = cmd[s].done
    BY <1>1 DEF Commands, Ops
  <2>2. cmd' = [cmd EXCEPT ![s] = c]
    BY <1>7 DEF Begins
  <2> HIDE DEF c
  <2>3. \A t \in Range(c.targets) \cup Range(c.done) : cmd[s].op \in Waiting /\ t \in Pending(s)
    BY <1>1, <2>1 DEF Pending, Waiting
  <2>4. WorkOf(s)' /\ TargetsGoOn(s)
    BY <1>1, <1>4, <2>1, <2>2, <2>3, CommandWaits DEF Waiting
  <2> QED BY <1>2, <1>4, <1>5, <2>1, <2>2, <2>4, SessionStep
<1> QED BY <1>2, <1>6, <1>7

LEMMA MoveCommitKeeps ==
  ASSUME MailInv, NEW s \in Sessions, MoveCommit(s)
  PROVE  MailInv'
<1> DEFINE f == conn[s].folder
           ts == cmd[s].targets
           ms == [k \in DOMAIN ts |-> ts[k].msg]
           uids == [k \in DOMAIN ts |-> ts[k].uid]
           row(m) == [uid[m] EXCEPT ![f] = IF @ \in Range(uids) THEN 0 ELSE @]
           cleared == [m \in Msgs |-> row(m)]
<1>1. conn[s].folder \in Folders /\ cmd[s].dest \in Folders /\ ts \in Seq(Target)
  BY InvParts DEF MoveCommit, MailInv, WorkInHand, WorkOf, Waiting, Commands
<1>2. /\ folder' = [m \in Msgs |-> IF m \in Range(ms) THEN cmd[s].dest ELSE folder[m]]
      /\ AssignUids(cmd[s].dest, ms, cleared) /\ ExpungeUids(s, uids) /\ Ends(s)
      /\ UNCHANGED <<srv, body, deleted, dirty, bell, left>> /\ UNCHANGED validity /\ UNCHANGED sync
  BY DEF MoveCommit
<1>3. /\ Len(uids) \in Nat /\ Len(ms) = Len(ts) /\ Len(ts) \in Nat
      /\ \A k \in 1..Len(ts) : ms[k] \in Msgs
  BY <1>1, UidsIn
<1>4. /\ cleared \in [Msgs -> [Folders -> Nat]]
      /\ \A m \in Msgs, g \in Folders : cleared[m][g] = 0 \/ cleared[m][g] = uid[m][g]
  <2>1. uid \in [Msgs -> [Folders -> Nat]] /\ 0 \in Nat
    BY InvNumbers
  <2> HIDE DEF uids
  <2>2. ASSUME NEW m \in Msgs
        PROVE  row(m) \in [Folders -> Nat] /\ \A g \in Folders : row(m)[g] = 0 \/ row(m)[g] = uid[m][g]
    BY <1>1, <2>1
  <2> HIDE DEF row
  <2> QED BY <2>2
<1> HIDE DEF ms, uids, cleared, ts
<1>5. UidsGoOn
  BY <1>1, <1>2, <1>3, <1>4, UidsAssign
<1>6. ViewMoves(s)
  BY <1>1, <1>2, <1>3, ExpungeMoves
<1>7. RowsOK'
  <2>1. folder' \in [Msgs -> Folders \cup {None}]
    BY <1>1, <1>2, InvParts DEF RowsOK
  <2> QED BY <1>2, <2>1, InvParts DEF RowsOK
<1> QED BY <1>2, <1>5, <1>6, <1>7, EndingStep

-----------------------------------------------------------------------------
(* ... and APPEND, COPY and IDLE. *)

LEMMA OneTarget ==
  ASSUME NEW m \in Msgs, NEW q, q = <<[uid |-> 0, msg |-> m]>>
  PROVE  q \in Seq(Target) /\ Len(q) = 1
<1>1. [uid |-> 0, msg |-> m] \in Target
  BY DEF Target
<1> HIDE DEF Target
<1> QED BY <1>1

LEMMA AppendServerKeeps ==
  ASSUME MailInv, NEW s \in Sessions, NEW m \in Msgs, NEW f \in Folders, AppendServer(s, m, f)
  PROVE  MailInv'
<1> DEFINE ts == <<[uid |-> 0, msg |-> m]>>
           c(done, flag) == [op |-> "append", dest |-> f, targets |-> ts, done |-> done, flag |-> flag]
<1>1. ts \in Seq(Target) /\ Len(ts) = 1
  BY OneTarget
<1>2. /\ srv' = [srv EXCEPT ![m] = f] /\ Spend
      /\ UNCHANGED <<cache, dirty, bell>> /\ UNCHANGED <<conn, names>>
      /\ UNCHANGED numbers /\ UNCHANGED sync
      /\ \/ cmd' = [cmd EXCEPT ![s] = c(<<>>, TRUE)]
         \/ \E i \in Visible(s), is_uid \in BOOLEAN : cmd' = [cmd EXCEPT ![s] = c(TargetsAt(s, {i}), is_uid)]
  BY DEF AppendServer, Begins
<1> HIDE DEF ts
<1>3. PICK done \in Seq(Target), flag \in BOOLEAN : cmd' = [cmd EXCEPT ![s] = c(done, flag)]
  <2>1. CASE cmd' = [cmd EXCEPT ![s] = c(<<>>, TRUE)]
    <3>1. <<>> \in Seq(Target)
      OBVIOUS
    <3> QED BY <2>1, <3>1
  <2>2. CASE \E i \in Visible(s), is_uid \in BOOLEAN :
               cmd' = [cmd EXCEPT ![s] = c(TargetsAt(s, {i}), is_uid)]
    <3>1. PICK i \in Visible(s), is_uid \in BOOLEAN :
            cmd' = [cmd EXCEPT ![s] = c(TargetsAt(s, {i}), is_uid)]
      BY <2>2
    <3>2. TargetsAt(s, {i}) \in Seq(Target)
      BY TargetsAtAre
    <3> QED BY <3>1, <3>2
  <2> QED BY <1>2, <2>1, <2>2
<1> DEFINE d == c(done, flag)
<1>4. d \in Commands /\ d.op = "append" /\ d.dest = f /\ d.targets = ts
  BY <1>1 DEF Commands, Ops
<1>5. cmd' = [cmd EXCEPT ![s] = d]
  BY <1>3
<1> HIDE DEF d
<1>6. WorkOf(s)' /\ TargetsGoOn(s)
  BY <1>1, <1>4, <1>5, CommandRests DEF Waiting
<1>7. RowsOK'
  BY <1>2, InvParts, SpendIs DEF RowsOK, cache
<1>8. ViewMoves(s) /\ UidsGoOn
  BY <1>2, ViewRests, UidsRest
<1> QED BY <1>2, <1>4, <1>5, <1>6, <1>7, <1>8, SessionStep

LEMMA ImportingGoesOn ==
  ASSUME MailInv, NEW s \in Sessions, cmd[s].op \in Importing, NEW op \in {"upserted", "assigned"},
         Begins(s, [cmd[s] EXCEPT !.op = op]),
         RowsOK', UNCHANGED <<sync, conn, names>>, UidsGoOn
  PROVE  MailInv'
<1> DEFINE c == [cmd[s] EXCEPT !.op = op]
<1>1. cmd[s] \in Commands /\ cmd[s].dest \in Folders /\ Len(cmd[s].targets) = 1
  BY InvParts DEF MailInv, WorkInHand, WorkOf
<1>2. c \in Commands /\ c.op = op /\ c.dest = cmd[s].dest /\ c.targets = cmd[s].targets
  BY <1>1 DEF Commands, Ops
<1>3. cmd' = [cmd EXCEPT ![s] = c]
  BY DEF Begins
<1> HIDE DEF c
<1>4. WorkOf(s)' /\ TargetsGoOn(s)
  BY <1>1, <1>2, <1>3, CommandRests DEF Waiting
<1>5. ViewMoves(s)
  BY ViewRests
<1> QED BY <1>2, <1>3, <1>4, <1>5, SessionStep

LEMMA ImportedIs ==
  ASSUME MailInv, NEW s \in Sessions, cmd[s].op \in Importing
  PROVE  cmd[s].dest \in Folders /\ cmd[s].targets[1].msg \in Msgs
<1>1. cmd[s].targets \in Seq(Target) /\ cmd[s].dest \in Folders /\ Len(cmd[s].targets) = 1
  BY InvParts DEF Commands, MailInv, WorkInHand, WorkOf
<1>2. cmd[s].targets[1] \in Target
  BY <1>1
<1> QED BY <1>1, <1>2 DEF Target

LEMMA AppendUpsertKeeps ==
  ASSUME MailInv, NEW s \in Sessions, AppendUpsert(s)
  PROVE  MailInv'
<1>1. /\ cmd[s].op \in Importing /\ Begins(s, [cmd[s] EXCEPT !.op = "upserted"])
      /\ CacheItem(cmd[s].targets[1].msg, cmd[s].dest) /\ UNCHANGED <<uidnext, validity>>
      /\ UNCHANGED <<srv, deleted, dirty, bell, left>> /\ UNCHANGED <<sync, conn, names>>
  BY DEF AppendUpsert, Importing
<1>2. /\ folder' \in [Msgs -> Folders \cup {None}] /\ body' \in [Msgs -> BOOLEAN] /\ UidsGoOn
  BY <1>1, ImportedIs, CacheItemIs
<1>3. RowsOK'
  BY <1>1, <1>2, InvParts DEF RowsOK
<1> QED BY <1>1, <1>2, <1>3, ImportingGoesOn

LEMMA AppendAssignKeeps ==
  ASSUME MailInv, NEW s \in Sessions, AppendAssign(s)
  PROVE  MailInv'
<1> DEFINE ms == <<cmd[s].targets[1].msg>>
<1>1. /\ cmd[s].op \in Importing /\ Begins(s, [cmd[s] EXCEPT !.op = "assigned"])
      /\ AssignUids(cmd[s].dest, ms, uid) /\ UNCHANGED validity
      /\ UNCHANGED <<srv, cache, dirty, bell, left>> /\ UNCHANGED <<sync, conn, names>>
  BY DEF AppendAssign, Importing
<1>2. cmd[s].dest \in Folders /\ Len(ms) = 1 /\ 1 \in Nat /\ \A k \in 1..1 : ms[k] \in Msgs
  BY <1>1, ImportedIs
<1>3. uid \in [Msgs -> [Folders -> Nat]]
  BY InvNumbers
<1> HIDE DEF ms
<1>4. UidsGoOn
  BY <1>1, <1>2, <1>3, UidsAssign
<1>5. RowsOK'
  BY <1>1, RowsRest
<1> QED BY <1>1, <1>4, <1>5, ImportingGoesOn

LEMMA RingIs ==
  ASSUME MailInv, Ring
  PROVE  bell' \in [Sessions -> BOOLEAN]
<1>1. bell' = [s \in Sessions |-> bell[s] \/ cmd[s].op = "idle"]
  BY DEF Ring
<1>2. \A s \in Sessions : (bell[s] \/ cmd[s].op = "idle") \in BOOLEAN
  OBVIOUS
<1> QED BY <1>1, <1>2, Zenon

LEMMA CopiedMoves ==
  ASSUME MailInv, NEW s \in Sessions, NEW copied \in SUBSET Msgs, UNCHANGED names,
         conn' = [conn EXCEPT ![s].copied = conn[s].copied \cup copied]
  PROVE  ViewMoves(s)
<1>1. ViewsOK /\ conn[s] \in Conns
  BY InvParts
<1>2. conn[s].copied \cup copied \in SUBSET Msgs
  BY <1>1 DEF Conns
<1>3. conn' \in [Sessions -> Conns]
  BY <1>1, <1>2 DEF ViewsOK, Conns
<1>4. /\ conn'[s].folder = conn[s].folder /\ conn'[s].valid = conn[s].valid
      /\ conn'[s].uids = conn[s].uids /\ \A r \in Sessions : r # s => conn'[r] = conn[r]
  BY <1>1 DEF ViewsOK, Conns
<1>5. PlacesGoOn(s)
  <2>1. Len(names'[s]) = Len(conn'[s].uids) /\ conn'[s].valid <= validity
    BY <1>4, InvParts
  <2>2. conn'[s].folder = None => conn'[s].uids = <<>>
    BY <1>4 DEF MailInv, ClosedIsEmpty
  <2>3. \A i \in 1..Len(conn'[s].uids) : \E j \in 1..Len(conn[s].uids) :
          conn'[s].uids[i] = conn[s].uids[j] /\ names'[s][i] = names[s][j]
    BY <1>4
  <2> QED BY <1>4, <2>1, <2>2, <2>3 DEF PlacesGoOn
<1> QED BY <1>1, <1>3, <1>4, <1>5 DEF ViewMoves, ViewsOK

LEMMA AppendFinishKeeps ==
  ASSUME MailInv, NEW s \in Sessions, AppendFinish(s)
  PROVE  MailInv'
<1> DEFINE copied == {t.msg : t \in Range(cmd[s].done)}
<1>1. copied \in SUBSET Msgs
  <2>1. cmd[s].done \in Seq(Target)
    BY InvParts DEF Commands
  <2>2. Range(cmd[s].done) \subseteq Target
    BY <2>1 DEF Range
  <2>3. \A t \in Target : t.msg \in Msgs
    BY DEF Target
  <2> QED BY <2>2, <2>3
<1>2. /\ cmd[s].op = "assigned" /\ Ring /\ Ends(s)
      /\ IF conn[s].folder = cmd[s].dest
         THEN ReportAfter(s, cmd[s].flag, copied)
         ELSE conn' = [conn EXCEPT ![s].copied = conn[s].copied \cup copied] /\ UNCHANGED names
      /\ UNCHANGED <<srv, cache, dirty, left>> /\ UNCHANGED numbers /\ UNCHANGED sync
  BY DEF AppendFinish
<1> HIDE DEF copied
<1>3. cmd[s].dest \in Folders /\ cmd[s].flag \in BOOLEAN
  BY <1>2, ImportedIs, InvParts DEF Importing, Commands
<1>4. ViewMoves(s)
  BY <1>1, <1>2, <1>3, CopiedMoves, ReportMoves
<1>5. RowsOK'
  BY <1>2, InvParts, RingIs DEF RowsOK, cache
<1>6. UidsGoOn
  BY <1>2, UidsRest
<1> QED BY <1>2, <1>4, <1>5, <1>6, EndingStep

LEMMA IdlingIs ==
  ASSUME MailInv, NEW s \in Sessions, NEW op \in {"subscribe", "idle"},
         Begins(s, [Resting EXCEPT !.op = op])
  PROVE  /\ [Resting EXCEPT !.op = op] \in Commands
         /\ cmd' = [cmd EXCEPT ![s] = [Resting EXCEPT !.op = op]]
         /\ WorkOf(s)' /\ TargetsGoOn(s)
<1> DEFINE c == [Resting EXCEPT !.op = op]
<1>1. c \in Commands /\ c.op = op
  BY RestingIs DEF Commands, Resting, Ops
<1>2. cmd' = [cmd EXCEPT ![s] = c]
  BY DEF Begins
<1> HIDE DEF c
<1>3. WorkOf(s)' /\ TargetsGoOn(s)
  BY <1>1, <1>2, CommandRests DEF Waiting, Importing
<1> QED BY <1>1, <1>2, <1>3 DEF c

LEMMA IdleKeeps ==
  ASSUME MailInv, NEW s \in Sessions, Idle(s)
  PROVE  MailInv'
<1>1. /\ Report(s, TRUE) /\ Begins(s, [Resting EXCEPT !.op = "subscribe"])
      /\ UNCHANGED <<srv, cache, dirty, bell, left>> /\ UNCHANGED numbers /\ UNCHANGED sync
  BY DEF Idle
<1>2. ViewMoves(s) /\ RowsOK' /\ UidsGoOn
  BY <1>1, ReportShows, RowsRest, UidsRest
<1> QED BY <1>1, <1>2, IdlingIs, SessionStep

LEMMA BellRows ==
  ASSUME MailInv, NEW s \in Sessions, bell' = [bell EXCEPT ![s] = FALSE],
         UNCHANGED <<srv, cache, dirty, left>>
  PROVE  RowsOK'
BY InvParts DEF RowsOK, cache

LEMMA IdleSubscribeKeeps ==
  ASSUME MailInv, NEW s \in Sessions, IdleSubscribe(s)
  PROVE  MailInv'
<1>1. /\ bell' = [bell EXCEPT ![s] = FALSE] /\ Begins(s, [Resting EXCEPT !.op = "idle"])
      /\ UNCHANGED <<srv, cache, dirty, left>> /\ UNCHANGED numbers /\ UNCHANGED sync
      /\ UNCHANGED <<conn, names>>
  BY DEF IdleSubscribe
<1>2. ViewMoves(s) /\ RowsOK' /\ UidsGoOn
  BY <1>1, ViewRests, BellRows, UidsRest
<1> QED BY <1>1, <1>2, IdlingIs, SessionStep

LEMMA IdleWakeKeeps ==
  ASSUME MailInv, NEW s \in Sessions, IdleWake(s)
  PROVE  MailInv'
<1>1. /\ bell' = [bell EXCEPT ![s] = FALSE] /\ Report(s, TRUE) /\ cmd[s].op \notin Waiting
      /\ UNCHANGED <<srv, cache, dirty, left>> /\ UNCHANGED <<numbers, sync, cmd>>
  BY DEF IdleWake, Waiting
<1>2. ViewMoves(s) /\ RowsOK'
  <2>1. UNCHANGED numbers
    BY <1>1
  <2> QED BY <1>1, <2>1, ReportShows, BellRows
<1> QED BY <1>1, <1>2, ShowingStep

LEMMA IdleDoneKeeps ==
  ASSUME MailInv, NEW s \in Sessions, IdleDone(s)
  PROVE  MailInv'
<1>1. /\ bell' = [bell EXCEPT ![s] = FALSE] /\ Ends(s)
      /\ UNCHANGED <<srv, cache, dirty, left>> /\ UNCHANGED numbers /\ UNCHANGED sync
      /\ UNCHANGED <<conn, names>>
  BY DEF IdleDone
<1>2. ViewMoves(s) /\ RowsOK' /\ UidsGoOn
  BY <1>1, ViewRests, BellRows, UidsRest
<1> QED BY <1>1, <1>2, EndingStep

-----------------------------------------------------------------------------
(* The invariant holds, and so do the properties. *)

(* The messages of a set, in some order. *)
LEMMA OrderIs ==
  ASSUME NEW S, IsFiniteSet(S), NEW o, o = SetToSeq(S), NEW c, c = Cardinality(S)
  PROVE  /\ c \in Nat /\ DOMAIN o = 1..c
         /\ \A m \in S : \E i \in 1..c : o[i] = m
<1>1. c \in Nat /\ ExistsBijection(1..c, S)
  BY FS_CardinalityType
<1>2. \E g \in [1..c -> S] : IsInjective(g)
  BY <1>1 DEF ExistsBijection, Bijection, Injection
<1>3. o \in [1..c -> S] /\ IsInjective(o)
  BY <1>2 DEF SetToSeq
<1>4. o \in Injection(1..c, S)
  BY <1>3 DEF Injection
<1>5. Cardinality(1..c) = c
  BY <1>1, FS_Interval
<1>6. o \in Surjection(1..c, S)
  BY <1>4, <1>5, FS_Injection
<1> QED BY <1>1, <1>3, <1>6 DEF Surjection

(* The start: the stored messages are numbered 1, 2, ... and nobody is connected. *)
LEMMA MailInit == Init => MailInv
<1> SUFFICES ASSUME Init PROVE MailInv
  OBVIOUS
<1> DEFINE order == SetToSeq(Stored)
           c == Cardinality(Stored)
           number == [m \in Stored |-> CHOOSE i \in DOMAIN order : order[i] = m]
<1>1. Stored \subseteq Msgs /\ IsFiniteSet(Stored)
  BY StoredAssumption, FS_Subset
<1>2. c \in Nat /\ DOMAIN order = 1..c /\ \A m \in Stored : \E i \in 1..c : order[i] = m
  BY <1>1, OrderIs
<1>3. uid = [m \in Msgs |-> [f \in Folders |-> IF m \in Stored /\ f = Inbox THEN number[m] ELSE 0]]
  BY DEF Init, InitWith
<1>4. uidnext = [f \in Folders |-> IF f = Inbox THEN c + 1 ELSE 1] /\ validity = 1
  BY DEF Init, InitWith
<1>5. /\ sync = NoSync
      /\ conn = [s \in Sessions |-> [folder |-> None, ro |-> FALSE, uids |-> <<>>,
                                     valid |-> 0, copied |-> {}]]
      /\ names = [s \in Sessions |-> <<>>] /\ cmd = [s \in Sessions |-> Resting]
  BY DEF Init, InitWith
<1> HIDE DEF order, c
<1>6. \A m \in Stored : number[m] \in 1..c /\ order[number[m]] = m
  BY <1>2
<1> HIDE DEF number
<1>7. /\ \A m \in Msgs, f \in Folders : uid[m][f] \in Nat /\ uid[m][f] < uidnext[f]
      /\ \A m, n \in Msgs, f \in Folders : uid[m][f] # 0 /\ uid[m][f] = uid[n][f] => m = n
      /\ \A f \in Folders : uidnext[f] \in Nat /\ uidnext[f] # 0
  <2>1. ASSUME NEW m \in Msgs, NEW f \in Folders, m \in Stored /\ f = Inbox
        PROVE  /\ uid[m][f] = number[m] /\ number[m] \in Nat /\ number[m] <= c
               /\ uidnext[f] = c + 1
    BY <1>2, <1>3, <1>4, <1>6, <2>1
  <2>2. ASSUME NEW m \in Msgs, NEW f \in Folders, ~(m \in Stored /\ f = Inbox)
        PROVE  uid[m][f] = 0
    BY <1>3, <2>2
  <2>3. \A f \in Folders : uidnext[f] \in Nat /\ uidnext[f] # 0
    BY <1>2, <1>4
  <2>4. ASSUME NEW m \in Msgs, NEW f \in Folders
        PROVE  uid[m][f] \in Nat /\ uid[m][f] < uidnext[f]
    <3>1. CASE m \in Stored /\ f = Inbox
      BY <1>2, <2>1, <3>1
    <3>2. CASE ~(m \in Stored /\ f = Inbox)
      BY <2>2, <2>3, <3>2
    <3> QED BY <3>1, <3>2
  <2>5. ASSUME NEW m \in Msgs, NEW n \in Msgs, NEW f \in Folders, uid[m][f] # 0, uid[m][f] = uid[n][f]
        PROVE  m = n
    <3>1. m \in Stored /\ n \in Stored /\ f = Inbox
      BY <2>2, <2>5
    <3>2. uid[m][f] = number[m] /\ uid[n][f] = number[n]
      BY <2>1, <3>1
    <3> QED BY <1>6, <2>5, <3>1, <3>2
  <2> QED BY <2>3, <2>4, <2>5
<1>8. NumbersOK
  <2>1. uid \in [Msgs -> [Folders -> Nat]]
    BY <1>3, <1>7
  <2>2. uidnext \in [Folders -> Nat] /\ validity \in Nat
    BY <1>2, <1>4
  <2> QED BY <2>1, <2>2 DEF NumbersOK
<1>9. RowsOK
  <2>1. \A m \in Msgs : (m \in Stored) \in BOOLEAN
    OBVIOUS
  <2>2. body = [m \in Msgs |-> m \in Stored]
    BY DEF Init, InitWith
  <2>3. body \in [Msgs -> BOOLEAN]
    BY <2>1, <2>2, Zenon
  <2>4. srv \in [Msgs -> Folders \cup {"unborn", "gone"}] /\ folder \in [Msgs -> Folders \cup {None}]
    BY DEF Init, InitWith, Folders
  <2>5. deleted \in [Msgs -> BOOLEAN] /\ dirty \in BOOLEAN /\ bell \in [Sessions -> BOOLEAN]
    BY DEF Init, InitWith
  <2>6. left \in 0..MaxOps
    BY MaxOpsAssumption DEF Init, InitWith
  <2> QED BY <2>3, <2>4, <2>5, <2>6 DEF RowsOK
<1>10. ViewsOK
  <2>1. <<>> \in Seq(Nat) /\ <<>> \in Seq(Msgs)
    OBVIOUS
  <2> QED BY <1>5, <2>1 DEF ViewsOK, Conns
<1>11. WorkOK
  BY <1>5, RestingIs DEF WorkOK, NoSync
<1>12. WorkInHand
  BY <1>5 DEF WorkInHand, PassInHand, WorkOf, Resting, Waiting, Importing
<1>13. \A s \in Sessions : /\ conn[s].folder = None /\ conn[s].valid = 0 /\ conn[s].uids = <<>>
                           /\ names[s] = <<>> /\ cmd[s].op \notin Waiting
  BY <1>5, RestingIs
<1>14. NumbersGoUp /\ ClosedIsEmpty /\ TargetsStand /\ SeqNamesMessage
  <2>1. \A s \in Sessions : conn[s].valid <= validity
    BY <1>4, <1>13
  <2>2. NumbersGoUp
    BY <1>7, <2>1 DEF NumbersGoUp
  <2>3. ClosedIsEmpty /\ TargetsStand /\ SeqNamesMessage
    BY <1>13 DEF ClosedIsEmpty, TargetsStand, SeqNamesMessage
  <2> QED BY <2>2, <2>3
<1>15. NumberingSound
  BY <1>7, <1>13 DEF NumberingSound
<1>16. TypeOK
  BY <1>8, <1>9, <1>10, <1>11, TypeParts
<1> QED BY <1>12, <1>14, <1>15, <1>16 DEF MailInv

LEMMA MailNext == MailInv /\ [Next]_vars => MailInv'
<1> SUFFICES ASSUME MailInv, [Next]_vars PROVE MailInv'
  OBVIOUS
<1>1. CASE UNCHANGED vars
  BY <1>1 DEF vars, MailInv, TypeOK, WorkInHand, PassInHand, WorkOf, NumbersGoUp, ClosedIsEmpty,
              NumberingSound, SeqNamesMessage, TargetsStand, Pending, Stands, Holders
<1>2. ASSUME NEW m \in Msgs, Elsewhere(m) \/ SyncPass(m) \/ SyncRenumber(m) \/ Recache(m)
      PROVE  MailInv'
  BY <1>2, ElsewhereKeeps, SyncItemKeeps, SyncPruneKeeps, SyncRenumberKeeps, RecacheKeeps DEF SyncPass
<1>3. CASE SyncAssign \/ SyncAnnounce \/ Repair
  BY <1>3, SyncAssignKeeps, SyncAnnounceKeeps, RepairKeeps
<1>4. ASSUME NEW s \in Sessions, Session(s)
      PROVE  MailInv'
  BY <1>4, SelectKeeps, UnselectKeeps, NoopKeeps, StoreKeeps, ExpungeKeeps, CloseKeeps, MoveKeeps,
     AppendServerKeeps, IdleKeeps, IdleDoneKeeps DEF Session
<1>5. ASSUME NEW s \in Sessions, Proceed(s)
      PROVE  MailInv'
  BY <1>5, StoreWriteKeeps, ExpungeServerKeeps, ExpungeCommitKeeps, MoveServerKeeps, MoveCommitKeeps,
     AppendUpsertKeeps, AppendAssignKeeps, AppendFinishKeeps, IdleSubscribeKeeps, IdleWakeKeeps DEF Proceed
<1> QED BY <1>1, <1>2, <1>3, <1>4, <1>5 DEF Next, NextOf

LEMMA MailAlways == Spec => []MailInv
BY MailInit, MailNext, PTL DEF Spec

(* Rows, UIDs, connections and commands keep their types; so each target of a
   command is a message, and a number that STORE, MOVE or COPY resolved was
   found in the rows (MsgAt of a visible number is never None). *)
THEOREM MailboxTypesHold == Spec => []TypeOK
<1>1. MailInv => TypeOK
  BY DEF MailInv
<1> QED BY <1>1, MailAlways, PTL

(* assign_uid_if_missing, fed by the pass, by APPEND and by MOVE while UIDs are
   dropped by an expunge, a renumbering or a row that moves, never gives a UID
   twice, and never one that a connection of this UIDVALIDITY was told. *)
THEOREM UidsAreSound == Spec => []NumberingSound
<1>1. MailInv => NumberingSound
  BY DEF MailInv
<1> QED BY <1>1, MailAlways, PTL

(* The EXPUNGE lines of report_mailbox_changes, and those an expunge or a move
   sends itself, keep the client's numbers on the messages that have the UIDs
   of the connection, whatever other sessions and the pass do to the rows. *)
THEOREM NumbersNameMessages == Spec => []SeqNamesMessage
<1>1. MailInv => SeqNamesMessage
  BY DEF MailInv
<1> QED BY <1>1, MailAlways, PTL

-----------------------------------------------------------------------------
(* Commands write where they read. *)

(* What a command is about. *)
LEMMA RangesJoin ==
  ASSUME NEW S, NEW a \in Seq(S), NEW b \in Seq(S)
  PROVE  Range(a) \cup Range(b) \subseteq Range(a \o b)
<1>1. /\ Len(a) \in Nat /\ Len(b) \in Nat /\ DOMAIN a = 1..Len(a) /\ DOMAIN b = 1..Len(b)
      /\ DOMAIN (a \o b) = 1..(Len(a) + Len(b))
      /\ \A i \in 1..(Len(a) + Len(b)) : (a \o b)[i] = IF i <= Len(a) THEN a[i] ELSE b[i - Len(a)]
  OBVIOUS
<1>2. ASSUME NEW i \in 1..Len(a) PROVE i \in DOMAIN (a \o b) /\ (a \o b)[i] = a[i]
  BY <1>1
<1>3. ASSUME NEW i \in 1..Len(b)
      PROVE  Len(a) + i \in DOMAIN (a \o b) /\ (a \o b)[Len(a) + i] = b[i]
  <2>1. /\ Len(a) + i \in 1..(Len(a) + Len(b)) /\ ~(Len(a) + i <= Len(a))
        /\ (Len(a) + i) - Len(a) = i
    BY <1>1
  <2> QED BY <1>1, <2>1
<1> DEFINE c == a \o b
<1> HIDE DEF c
<1>4. ASSUME NEW x \in Range(a) PROVE x \in Range(c)
  <2>1. PICK i \in 1..Len(a) : x = a[i]
    BY <1>1 DEF Range
  <2> QED BY <1>2, <2>1 DEF Range, c
<1>5. ASSUME NEW x \in Range(b) PROVE x \in Range(c)
  <2>1. PICK i \in 1..Len(b) : x = b[i]
    BY <1>1 DEF Range
  <2>2. Len(a) + i \in DOMAIN c /\ c[Len(a) + i] = x
    BY <1>3, <2>1 DEF c
  <2> QED BY <2>2 DEF Range
<1> QED BY <1>4, <1>5 DEF c

LEMMA ConcernedAre ==
  ASSUME MailInv, NEW s \in Sessions, NEW t \in Pending(s)
  PROVE  t.msg \in Concerned(s)
<1>1. cmd[s].targets \in Seq(Target) /\ cmd[s].done \in Seq(Target)
  BY InvParts DEF Commands
<1> DEFINE both == cmd[s].targets \o cmd[s].done
<1>2. t \in Range(both)
  BY <1>1, RangesJoin DEF Pending
<1>3. Concerned(s) = {x.msg : x \in Range(both)}
  BY DEF Concerned
<1> QED BY <1>2, <1>3

(* Only the step of a session itself ends its command. *)
LEMMA OthersCommandsRest ==
  ASSUME MailInv, NEW r \in Sessions, Session(r) \/ Proceed(r), NEW s \in Sessions, s # r
  PROVE  cmd'[s] = cmd[s]
<1>0. cmd \in [Sessions -> Commands]
  BY InvParts DEF WorkOK
<1>1. UNCHANGED cmd \/ \E c : cmd' = [cmd EXCEPT ![r] = c]
  <2>1. CASE Session(r)
    <3>1. CASE \/ \E f \in Folders, ro \in BOOLEAN : Select(r, f, ro)
               \/ Unselect(r) \/ Noop(r)
      BY <3>1 DEF Select, Unselect, Noop
    <3>2. CASE Store(r) \/ Expunge(r) \/ Close(r) \/ Move(r)
      BY <3>2 DEF Store, Expunge, Close, Move, Begins
    <3>3. CASE \/ \E m \in Msgs, f \in Folders : AppendServer(r, m, f)
               \/ Idle(r) \/ IdleDone(r)
      BY <3>3 DEF AppendServer, Idle, IdleDone, Begins, Ends
    <3> QED BY <2>1, <3>1, <3>2, <3>3 DEF Session
  <2>2. CASE Proceed(r)
    <3>1. CASE StoreWrite(r) \/ ExpungeServer(r) \/ ExpungeCommit(r)
      BY <3>1 DEF StoreWrite, ExpungeServer, ExpungeCommit, Begins, Ends
    <3>2. CASE MoveServer(r) \/ MoveCommit(r)
      BY <3>2 DEF MoveServer, MoveCommit, Begins, Ends
    <3>3. CASE AppendUpsert(r) \/ AppendAssign(r) \/ AppendFinish(r)
      BY <3>3 DEF AppendUpsert, AppendAssign, AppendFinish, Begins, Ends
    <3>4. CASE IdleSubscribe(r) \/ IdleWake(r)
      BY <3>4 DEF IdleSubscribe, IdleWake, Begins
    <3> QED BY <2>2, <3>1, <3>2, <3>3, <3>4 DEF Proceed
  <2> QED BY <2>1, <2>2
<1> QED BY <1>0, <1>1

(* The commands that end by writing what they read before. *)
Ending == {"store", "expunge", "close", "moved"}

LEMMA EndsByCommit ==
  ASSUME MailInv, [Next]_vars, NEW s \in Sessions, cmd[s].op \in Ending, cmd'[s].op = "none"
  PROVE  StoreWrite(s) \/ ExpungeCommit(s) \/ MoveCommit(s)
<1>0. cmd \in [Sessions -> Commands] /\ cmd[s] \in Commands
  BY InvParts DEF WorkOK
<1>1. cmd'[s] # cmd[s]
  BY DEF Ending
<1>2. ~UNCHANGED cmd
  BY <1>1
<1>3. \E r \in Sessions : Session(r) \/ Proceed(r)
  <2>1. \A m \in Msgs : ~(Elsewhere(m) \/ SyncPass(m) \/ SyncRenumber(m) \/ Recache(m))
    BY <1>2 DEF Elsewhere, Arrive, MovedElsewhere, DeletedElsewhere, SyncPass, SyncFolder, SyncUpsert,
                SyncPrune, SyncRenumber, Recache
  <2>2. ~(SyncAssign \/ SyncAnnounce \/ Repair)
    BY <1>2 DEF SyncAssign, SyncAnnounce, Repair
  <2>3. ~UNCHANGED vars
    BY <1>2 DEF vars
  <2> QED BY <2>1, <2>2, <2>3 DEF Next, NextOf
<1>4. Session(s) \/ Proceed(s)
  BY <1>1, <1>3, OthersCommandsRest
<1>5. ~Session(s)
  BY DEF Ending, Session, Select, Unselect, Noop, Store, Expunge, Close, Move, AppendServer, Idle,
         IdleDone, Writable, Selected, Rests
<1>6. ~ExpungeServer(s)
  <2> SUFFICES ASSUME ExpungeServer(s) PROVE FALSE
    OBVIOUS
  <2> DEFINE t == Head(cmd[s].targets)
             rest == [cmd[s] EXCEPT !.targets = Tail(cmd[s].targets)]
             add == [rest EXCEPT !.done = Append(rest.done, t)]
  <2>1. cmd' = [cmd EXCEPT ![s] = add] \/ cmd' = [cmd EXCEPT ![s] = rest]
    BY DEF ExpungeServer, Begins
  <2>2. rest.op = cmd[s].op /\ add.op = cmd[s].op
    BY <1>0 DEF Commands
  <2> HIDE DEF rest, add
  <2>3. cmd'[s].op = cmd[s].op
    BY <1>0, <2>1, <2>2
  <2> QED BY <2>3 DEF Ending
<1>7. ~(\/ MoveServer(s) \/ AppendUpsert(s) \/ AppendAssign(s) \/ AppendFinish(s)
        \/ IdleSubscribe(s) \/ IdleWake(s))
  BY DEF Ending, MoveServer, AppendUpsert, AppendAssign, AppendFinish, IdleSubscribe, IdleWake
<1> QED BY <1>4, <1>5, <1>6, <1>7 DEF Proceed

LEMMA PendingStands ==
  ASSUME MailInv, NEW s \in Sessions, cmd[s].op \in Ending, conn[s].valid = validity,
         NEW t \in Pending(s)
  PROVE  /\ conn[s].folder \in Folders /\ t.uid \in Nat
         /\ Holders(t.uid, conn[s].folder) \subseteq {t.msg} /\ t.msg \in Concerned(s)
<1>1. cmd[s].op \in Waiting
  BY DEF Ending, Waiting
<1>2. conn[s].folder \in Folders
  BY <1>1 DEF MailInv, WorkInHand, WorkOf
<1>3. Stands(t, conn[s].folder)
  BY <1>1 DEF MailInv, TargetsStand
<1>4. t \in Target
  <2>1. cmd[s].targets \in Seq(Target) /\ cmd[s].done \in Seq(Target)
    BY InvParts DEF Commands
  <2> QED BY <2>1 DEF Pending, Range
<1> QED BY <1>2, <1>3, <1>4, ConcernedAre DEF Stands, Target

(* Nothing of a message's row or UIDs changes. *)
Untouched(m) == folder'[m] = folder[m] /\ deleted'[m] = deleted[m] /\ uid'[m] = uid[m]

LEMMA StoreTouches ==
  ASSUME MailInv, NEW s \in Sessions, StoreWrite(s), conn[s].valid = validity,
         NEW m \in Msgs \ Concerned(s)
  PROVE  Untouched(m)
<1> DEFINE t == Head(cmd[s].targets)
<1>1. cmd[s].op \in Ending /\ cmd[s].op = "store"
  BY DEF StoreWrite, Ending
<1>2. t \in Pending(s)
  <2>1. cmd[s].targets \in Seq(Target) /\ Len(cmd[s].targets) = 1
    BY <1>1, InvParts DEF Commands, MailInv, WorkInHand, WorkOf
  <2>2. cmd[s].targets # <<>>
    BY <2>1
  <2> QED BY <2>1, <2>2, HeadAndTail DEF Pending
<1>3. cmd[s].dest = conn[s].folder
  BY <1>1 DEF MailInv, WorkInHand, WorkOf
<1> HIDE DEF t
<1>4. m \notin Holders(t.uid, cmd[s].dest)
  BY <1>1, <1>2, <1>3, PendingStands
<1>5. deleted'[m] = deleted[m]
  BY <1>4 DEF StoreWrite, t
<1> QED BY <1>5 DEF Untouched, StoreWrite, numbers

LEMMA ExpungeTouches ==
  ASSUME MailInv, NEW s \in Sessions, ExpungeCommit(s), conn[s].valid = validity,
         NEW m \in Msgs \ Concerned(s)
  PROVE  Untouched(m)
<1>1. cmd[s].op \in Ending /\ cmd[s].op \in {"expunge", "close"}
  BY DEF ExpungeCommit, Ending
<1>2. cmd[s].dest = conn[s].folder
  BY <1>1 DEF MailInv, WorkInHand, WorkOf
<1>3. m \notin Removed(s)
  BY <1>1, <1>2, PendingStands DEF Removed, Pending
<1>4. /\ Forget(Removed(s))
      /\ uid' = [n \in Msgs |-> IF n \in Removed(s) THEN [uid[n] EXCEPT ![cmd[s].dest] = 0] ELSE uid[n]]
  BY DEF ExpungeCommit
<1>5. deleted \in [Msgs -> BOOLEAN]
  BY InvParts DEF RowsOK
<1>6. folder'[m] = folder[m] /\ uid'[m] = uid[m]
  BY <1>3, <1>4 DEF Forget
<1>7. deleted'[m] = deleted[m]
  <2>1. deleted' = [n \in Msgs |-> n \notin Removed(s) /\ deleted[n]]
    BY <1>4 DEF Forget
  <2>2. deleted'[m] <=> deleted[m]
    BY <1>3, <2>1, Zenon
  <2>3. deleted'[m] \in BOOLEAN /\ deleted[m] \in BOOLEAN
    BY <1>4, <1>5, ForgetIs
  <2> QED BY <2>2, <2>3
<1> QED BY <1>6, <1>7 DEF Untouched

LEMMA MoveTouches ==
  ASSUME MailInv, NEW s \in Sessions, MoveCommit(s), conn[s].valid = validity,
         NEW m \in Msgs \ Concerned(s)
  PROVE  Untouched(m)
<1> DEFINE f == conn[s].folder
           ts == cmd[s].targets
           ms == [k \in DOMAIN ts |-> ts[k].msg]
           uids == [k \in DOMAIN ts |-> ts[k].uid]
           row(n) == [uid[n] EXCEPT ![f] = IF @ \in Range(uids) THEN 0 ELSE @]
           cleared == [n \in Msgs |-> row(n)]
<1>1. cmd[s].op \in Ending /\ cmd[s].op = "moved"
  BY DEF MoveCommit, Ending
<1>2. conn[s].folder \in Folders /\ cmd[s].dest \in Folders /\ ts \in Seq(Target)
  BY <1>1, InvParts DEF MailInv, WorkInHand, WorkOf, Waiting, Commands
<1>3. /\ folder' = [n \in Msgs |-> IF n \in Range(ms) THEN cmd[s].dest ELSE folder[n]]
      /\ AssignUids(cmd[s].dest, ms, cleared) /\ UNCHANGED <<deleted, validity>>
  BY DEF MoveCommit
<1>4. /\ Len(ms) = Len(ts) /\ Len(ts) \in Nat /\ DOMAIN ts = 1..Len(ts)
      /\ \A k \in 1..Len(ts) : ms[k] = ts[k].msg /\ ms[k] \in Msgs /\ ts[k] \in Pending(s)
  <2>1. DOMAIN ts = 1..Len(ts)
    BY <1>2
  <2>2. \A k \in 1..Len(ts) : ts[k] \in Pending(s)
    BY <2>1 DEF Pending, Range
  <2> QED BY <1>2, <2>1, <2>2, UidsIn
<1>5. \A k \in 1..Len(ts) : ts[k].msg # m /\ m \notin Holders(ts[k].uid, f)
  BY <1>1, <1>4, PendingStands
<1>6. uid \in [Msgs -> [Folders -> Nat]] /\ 0 \in Nat
  BY InvNumbers
<1>7. /\ cleared \in [Msgs -> [Folders -> Nat]]
      /\ \A n \in Msgs, g \in Folders : cleared[n][g] = 0 \/ cleared[n][g] = uid[n][g]
  <2> HIDE DEF uids
  <2>1. ASSUME NEW n \in Msgs
        PROVE  row(n) \in [Folders -> Nat] /\ \A g \in Folders : row(n)[g] = 0 \/ row(n)[g] = uid[n][g]
    BY <1>2, <1>6
  <2> HIDE DEF row
  <2> QED BY <2>1
<1>8. \A g \in Folders : cleared[m][g] = uid[m][g]
  <2>1. uid[m][f] \in Range(uids) => uid[m][f] = 0
    <3> SUFFICES ASSUME uid[m][f] \in Range(uids) PROVE uid[m][f] = 0
      OBVIOUS
    <3>1. PICK k \in 1..Len(ts) : uid[m][f] = ts[k].uid
      BY <1>4 DEF Range
    <3> QED BY <1>5, <3>1 DEF Holders
  <2>2. cleared[m] = row(m)
    OBVIOUS
  <2> HIDE DEF uids, cleared
  <2> QED BY <1>2, <1>6, <2>1, <2>2
<1>9. m \notin Range(ms)
  BY <1>4, <1>5 DEF Range
<1> HIDE DEF cleared, ms, uids, ts
<1>10. uid'[m] \in [Folders -> Nat] /\ \A g \in Folders : uid'[m][g] = cleared[m][g]
  <2>1. \A k \in 1..Len(ts) : ms[k] # m /\ ms[k] \in Msgs
    BY <1>4, <1>5
  <2>2. m \in Msgs /\ Len(ts) \in Nat /\ Len(ms) = Len(ts) /\ UNCHANGED validity
    BY <1>3, <1>4
  <2>3. UidsGoOn /\ OthersKeep(ms, Len(ts), cleared)
    BY <1>2, <1>3, <1>7, <2>1, <2>2, UidsAssign
  <2> QED BY <2>1, <2>2, <2>3 DEF UidsGoOn, OthersKeep
<1>11. uid'[m] = uid[m]
  <2>1. uid'[m] \in [Folders -> Nat] /\ uid[m] \in [Folders -> Nat]
    BY <1>6, <1>10
  <2>2. \A g \in Folders : uid'[m][g] = uid[m][g]
    BY <1>8, <1>10
  <2> QED BY <2>1, <2>2
<1> QED BY <1>3, <1>9, <1>11 DEF Untouched

Touches ==
  \A s \in Sessions :
    cmd[s].op \in {"store", "expunge", "close", "moved"} /\ cmd'[s].op = "none"
      /\ conn[s].valid = validity /\ conn[s].folder # None =>
    \A m \in Msgs \ Concerned(s) : Untouched(m)

(* update_message_flags, delete_message_by_uid and the batch of a move write by
   UID what was read before the account's server answered: the rows they reach
   are those of the messages that were read. *)
THEOREM CommandsTouchTheirs == Spec => TouchesOnlyTargets
<1>1. MailInv /\ [Next]_vars => Touches
  <2> SUFFICES ASSUME MailInv, [Next]_vars, NEW s \in Sessions, cmd[s].op \in Ending,
                      cmd'[s].op = "none", conn[s].valid = validity, NEW m \in Msgs \ Concerned(s)
               PROVE  Untouched(m)
    BY DEF Touches, Ending
  <2> QED BY EndsByCommit, StoreTouches, ExpungeTouches, MoveTouches
<1>2. Touches => [\A s \in Sessions :
        cmd[s].op \in {"store", "expunge", "close", "moved"} /\ cmd'[s].op = "none"
          /\ conn[s].valid = validity /\ conn[s].folder # None =>
        \A m \in Msgs \ Concerned(s) :
          folder'[m] = folder[m] /\ deleted'[m] = deleted[m] /\ uid'[m] = uid[m]]_vars
  BY DEF Touches, Untouched
<1> QED BY <1>1, <1>2, MailAlways, PTL DEF Spec, TouchesOnlyTargets
=============================================================================
