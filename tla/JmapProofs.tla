----------------------------- MODULE JmapProofs -----------------------------
(***************************************************************************)
(* What JMAP promises its clients.  Email/changes, for any number of       *)
(* messages, writers, rows and calls: types, and that a settled client has *)
(* missed only what one of the named gaps explains.  The push, for any     *)
(* number of writers and connections and any room in the channel: whoever  *)
(* has nothing left to take has heard the current states, or will.         *)
(***************************************************************************)
EXTENDS JmapLog, JmapPush, FiniteSetTheorems, TLAPS

(* Every stored or trimmed Email row is of a state the type has reached. *)
LostReached == \A r \in lost : r.type = "Email" /\ r.state <= counter["Email"]

(* The state from which the client's next answer will go on. *)
Bound == CASE client.phase = "get" -> client.call.seen
           [] client.phase = "changes" -> client.call.last
           [] OTHER -> client.state

(* No state the client holds is ahead of the counter, unless a repair reset it. *)
BoundReached ==
  client.phase # "off" /\ gaps = {} =>
    /\ Bound <= counter["Email"]
    /\ client.phase = "changes" /\ ~client.call.more => client.call.last = client.call.seen

ToRecord(i) == \E w \in Writers, op \in Ops : i \in todo[w][op]
Logged(i, bound) ==
  \E r \in rows \union lost : r.type = "Email" /\ r.id = i /\ r.state > bound
InHand(i) ==
  \/ client.phase = "changes" /\ \E r \in client.call.page : r.id = i
  \/ client.phase = "fetch" /\ i \in client.dirty

(* Where the client differs from the cache, the difference is still to be
   recorded, is in a row after the client's state, or is in its hands. *)
NothingForgotten ==
  client.phase # "off" /\ gaps = {} =>
    \A i \in Ids : client.known[i] # cached[i] =>
      ToRecord(i) \/ Logged(i, Bound) \/ InHand(i)

IInv == LogTypeOK /\ LostReached /\ BoundReached /\ NothingForgotten

LEMMA BatchFacts ==
  ASSUME LogTypeOK, NEW type \in Types, NEW ids \in SUBSET Ids, NEW op \in Ops,
         RecordBatch(type, ids, op)
  PROVE  /\ seq' \in Nat /\ seq <= seq'
         /\ counter' = [counter EXCEPT ![type] = @ + 1]
         /\ rows' \subseteq Row
         /\ \A r \in rows' : r.seq <= seq' /\ r.state <= counter'[r.type]
         /\ \A r \in lost' : r \in lost \/ (r \in Row /\ r.type = "Email"
                                            /\ r.state <= counter'["Email"])
         /\ lost \subseteq lost'
         /\ \A r \in rows : r.type = "Email" => r \in rows' \union lost'
         /\ type = "Email" =>
              \A i \in ids : \E r \in rows' \union lost' :
                 r.type = "Email" /\ r.id = i /\ r.state = counter["Email"] + 1
<1>1. Cardinality(ids) \in Nat
  BY IdsAreFinite, FS_Subset, FS_CardinalityType
<1>2. PICK number \in [ids -> 1..Cardinality(ids)] :
        LET table == rows \union BatchRows(type, number, op)
            last == seq + Cardinality(ids)
        IN /\ seq' = last
           /\ rows' = Keeps(table, last)
           /\ lost' = lost \union {r \in table \ Keeps(table, last) : r.type = "Email"}
           /\ counter' = [counter EXCEPT ![type] = @ + 1]
  BY DEF RecordBatch
<1> DEFINE added == BatchRows(type, number, op)
           table == rows \union added
           last == seq + Cardinality(ids)
<1>3. /\ seq' = last /\ rows' = Keeps(table, last)
      /\ lost' = lost \union {r \in table \ Keeps(table, last) : r.type = "Email"}
      /\ counter' = [counter EXCEPT ![type] = @ + 1]
  BY <1>2
<1>4. counter[type] \in Nat /\ counter[type]+1 \in Nat /\ seq \in Nat
  BY DEF LogTypeOK
<1>5. \A i \in ids : seq + number[i] \in Nat /\ seq + number[i] <= last
  <2> TAKE i \in ids
  <2>1. number[i] \in 1..Cardinality(ids)
    OBVIOUS
  <2> QED BY <2>1, <1>1, <1>4
<1>6. \A r \in added : r \in Row /\ r.seq <= last /\ r.state = counter[type] + 1 /\ r.type = type
  <2> TAKE r \in added
  <2>1. PICK i \in ids : r = [seq |-> seq + number[i], type |-> type, state |-> counter[type] + 1,
                              id |-> i, op |-> op]
    BY DEF BatchRows
  <2>2. i \in Ids
    OBVIOUS
  <2> QED BY <2>1, <2>2, <1>4, <1>5 DEF Row
<1>7. \A i \in ids : \E r \in added : r.id = i /\ r.state = counter[type] + 1 /\ r.type = type
  <2> TAKE i \in ids
  <2> DEFINE r == [seq |-> seq + number[i], type |-> type, state |-> counter[type] + 1,
                   id |-> i, op |-> op]
  <2>1. r \in added
    BY DEF BatchRows
  <2> QED BY <2>1
<1> HIDE DEF added
<1>8. \A t \in Types : counter'[t] \in Nat /\ counter[t] \in Nat /\ counter[t] <= counter'[t]
                       /\ (t = type => counter'[t] = counter[t] + 1)
  BY <1>3 DEF LogTypeOK
<1>9. \A r \in table : r \in Row /\ r.seq <= last /\ r.state <= counter'[r.type]
  <2> TAKE r \in table
  <2>1. CASE r \in added
    BY <2>1, <1>6, <1>8, <1>4
  <2>2. CASE r \in rows
    <3>1. r \in Row /\ r.seq <= seq /\ r.state <= counter[r.type] /\ r.type \in Types
      BY <2>2 DEF LogTypeOK, Row
    <3>2. r.seq \in Nat /\ r.state \in Nat
      BY <3>1 DEF Row
    <3> QED BY <3>1, <3>2, <1>8, <1>4, <1>1
  <2> QED BY <2>1, <2>2
<1>10. Keeps(table, last) \subseteq table
  BY DEF Keeps
<1>11. \A r \in table : r.type = "Email" => r \in rows' \union lost'
  BY <1>3
<1>12. type = "Email" =>
              \A i \in ids : \E r \in rows' \union lost' :
                 r.type = "Email" /\ r.id = i /\ r.state = counter["Email"] + 1
  BY <1>7, <1>11
<1>13. seq' \in Nat /\ seq <= seq'
  BY <1>1, <1>3, <1>4
<1>14. rows' \subseteq Row /\ \A r \in rows' : r.seq <= seq' /\ r.state <= counter'[r.type]
  BY <1>3, <1>9, <1>10
<1>15. \A r \in lost' : r \in lost \/ (r \in Row /\ r.type = "Email"
                                            /\ r.state <= counter'["Email"])
  BY <1>3, <1>9
<1> QED BY <1>3, <1>11, <1>12, <1>13, <1>14, <1>15

-----------------------------------------------------------------------------
(* Types *)

LEMMA TypesHold == ASSUME LogTypeOK, LogNext PROVE LogTypeOK'
<1> USE DEF storage, Client, Call, Versions
<1>1. ASSUME NEW w \in Writers, NEW i \in Ids, NEW op \in Ops, Change(w, i, op)
      PROVE  LogTypeOK'
  <2>1. cached' \in Versions /\ writes' \in Nat
    BY <1>1 DEF LogTypeOK, Change
  <2>2. todo' \in [Writers -> [Ops -> SUBSET Ids]]
    BY <1>1 DEF LogTypeOK, Change
  <2> QED BY <1>1, <2>1, <2>2 DEF LogTypeOK, Change
<1>2. ASSUME NEW w \in Writers, NEW op \in Ops, Record(w, op)
      PROVE  LogTypeOK'
  <2>1. /\ RecordBatch("Email", todo[w][op], op) /\ todo[w][op] \in SUBSET Ids
        /\ "Email" \in Types
    BY <1>2 DEF Record, LogTypeOK, Types
  <2>5. /\ seq' \in Nat /\ rows' \subseteq Row
        /\ \A r \in rows' : r.seq <= seq' /\ r.state <= counter'[r.type]
        /\ \A r \in lost' : r \in lost \/ r \in Row
        /\ counter' = [counter EXCEPT !["Email"] = @ + 1]
    BY <2>1, BatchFacts
  <2>2. /\ seq' \in Nat /\ rows' \subseteq Row /\ lost' \subseteq Row
        /\ \A r \in rows' : r.seq <= seq' /\ r.state <= counter'[r.type]
        /\ counter' \in [Types -> Nat]
    <3>3. counter' = [counter EXCEPT !["Email"] = @ + 1]
      BY <2>5
    <3>4. counter \in [Types -> Nat]
      BY DEF LogTypeOK
    <3>1. counter' \in [Types -> Nat]
      BY <3>3, <3>4 DEF Types
    <3>2. lost' \subseteq Row
      BY <2>5 DEF LogTypeOK
    <3> QED BY <3>1, <3>2, <2>5
  <2>3. todo' \in [Writers -> [Ops -> SUBSET Ids]]
    BY <1>2 DEF LogTypeOK, Record
  <2> QED BY <1>2, <2>2, <2>3 DEF LogTypeOK, Record
<1>3. ASSUME NEW i \in Ids, RecordMailbox(i)
      PROVE  LogTypeOK'
  <2>1. /\ RecordBatch("Mailbox", {i}, "updated") /\ {i} \in SUBSET Ids
        /\ "Mailbox" \in Types /\ "updated" \in Ops
    BY <1>3 DEF RecordMailbox, Types, Ops
  <2>5. /\ seq' \in Nat /\ rows' \subseteq Row
        /\ \A r \in rows' : r.seq <= seq' /\ r.state <= counter'[r.type]
        /\ \A r \in lost' : r \in lost \/ r \in Row
        /\ counter' = [counter EXCEPT !["Mailbox"] = @ + 1]
    BY <2>1, BatchFacts
  <2>2. /\ seq' \in Nat /\ rows' \subseteq Row /\ lost' \subseteq Row
        /\ \A r \in rows' : r.seq <= seq' /\ r.state <= counter'[r.type]
        /\ counter' \in [Types -> Nat]
    <3>3. counter' = [counter EXCEPT !["Mailbox"] = @ + 1]
      BY <2>5
    <3>4. counter \in [Types -> Nat]
      BY DEF LogTypeOK
    <3>1. counter' \in [Types -> Nat]
      BY <3>3, <3>4 DEF Types
    <3>2. lost' \subseteq Row
      BY <2>5 DEF LogTypeOK
    <3> QED BY <3>1, <3>2, <2>5
  <2> QED BY <1>3, <2>2 DEF LogTypeOK, RecordMailbox
<1>4. ASSUME NEW w \in Writers, DropRecord(w)
      PROVE  LogTypeOK'
  <2>1. Nothing \in [Ops -> SUBSET Ids]
    BY DEF Nothing
  <2>2. todo' \in [Writers -> [Ops -> SUBSET Ids]]
    BY <1>4, <2>1 DEF LogTypeOK, DropRecord
  <2> QED BY <1>4, <2>2 DEF LogTypeOK, DropRecord, Gaps
<1>5. ASSUME RepairCache PROVE LogTypeOK'
  BY <1>5 DEF LogTypeOK, RepairCache, Gaps
<1>6. ASSUME GetRead PROVE LogTypeOK'
  <2>1. client' \in Client
    BY <1>6 DEF LogTypeOK, GetRead, NoCall, Types
  <2> QED BY <1>6, <2>1 DEF LogTypeOK, GetRead, Gaps
<1>7. ASSUME GetAnswer PROVE LogTypeOK'
  <2>1. client' \in Client
    BY <1>7 DEF LogTypeOK, GetAnswer, NoCall, Types
  <2> QED BY <1>7, <2>1 DEF LogTypeOK, GetAnswer, Gaps
<1>8. ASSUME ChangesRefused PROVE LogTypeOK'
  BY <1>8 DEF LogTypeOK, ChangesRefused
<1>9. ASSUME ChangesRead PROVE LogTypeOK'
  <2> DEFINE found == Since(client.state)
             page == PageOf(found)
  <2>1. page \subseteq Row
    BY DEF LogTypeOK, Since, PageOf, Emails
  <2>2. LastStates(page) \subseteq Nat
    BY <2>1 DEF LastStates, Row
  <2>3. counter["Email"] \in Nat
    BY DEF LogTypeOK, Types
  <2> HIDE DEF found, page
  <2>5. \E last \in IF page # found THEN LastStates(page) ELSE {counter["Email"]} :
          client' = [client EXCEPT !.phase = "changes",
                 !.call = [page |-> page, more |-> page # found, last |-> last,
                           seen |-> counter["Email"]]]
    BY <1>9 DEF ChangesRead, found, page
  <2>6. PICK last \in IF page # found THEN LastStates(page) ELSE {counter["Email"]} :
          client' = [client EXCEPT !.phase = "changes",
                 !.call = [page |-> page, more |-> page # found, last |-> last,
                           seen |-> counter["Email"]]]
    BY <2>5
  <2>7. last \in Nat
    BY <2>2, <2>3, <2>6
  <2>8. (page # found) \in BOOLEAN
    OBVIOUS
  <2>9. [page |-> page, more |-> page # found, last |-> last, seen |-> counter["Email"]] \in Call
    BY <2>1, <2>3, <2>7, <2>8
  <2>4. client' \in Client
    BY <2>6, <2>9 DEF LogTypeOK
  <2>10. gaps' \subseteq Gaps
    BY <1>9 DEF LogTypeOK, ChangesRead, Gaps
  <2> QED BY <1>9, <2>4, <2>10 DEF LogTypeOK, ChangesRead
<1>10. ASSUME ChangesAnswer PROVE LogTypeOK'
  <2> DEFINE gone == Destroyed(client.call.page)
  <2>1. {r.id : r \in client.call.page} \subseteq Ids
    BY DEF LogTypeOK, Row
  <2>2. [i \in Ids |-> IF i \in gone THEN 0 ELSE client.known[i]] \in [Ids -> Nat]
    BY DEF LogTypeOK
  <2>3. counter["Email"] \in Nat
    BY DEF LogTypeOK, Types
  <2>4. client' \in Client /\ gaps' \subseteq Gaps
    BY <1>10, <2>1, <2>2, <2>3 DEF LogTypeOK, ChangesAnswer, NoCall, Gaps
  <2> QED BY <1>10, <2>4 DEF LogTypeOK, ChangesAnswer
<1>11. ASSUME Fetch PROVE LogTypeOK'
  <2>1. client' \in Client
    BY <1>11 DEF LogTypeOK, Fetch
  <2> QED BY <1>11, <2>1 DEF LogTypeOK, Fetch
<1> QED BY <1>1, <1>2, <1>3, <1>4, <1>5, <1>6, <1>7, <1>8, <1>9, <1>10, <1>11 DEF LogNext

LEMMA InitTypes == LogInit => LogTypeOK
BY DEF LogInit, LogTypeOK, Types, Ops, Nothing, NoCall, Client, Call, Versions, Gaps, BoundsAreNumbers

(* Rows, states and row numbers keep their ranges for ever, whatever the
   number of messages, writers and rows (jmap_record_batch, repair_cache). *)
THEOREM LogTypesHold == LogSpec => []LogTypeOK
<1>1. LogTypeOK /\ UNCHANGED logVars => LogTypeOK'
  BY DEF logVars, LogTypeOK
<1> QED BY InitTypes, TypesHold, <1>1, PTL DEF LogSpec

-----------------------------------------------------------------------------
(* Nothing is forgotten *)

LEMMA BoundIsState == LogTypeOK => Bound \in Nat /\ counter["Email"] \in Nat
BY DEF LogTypeOK, Bound, Client, Call, Types

(* A batch may be recorded at any time: no row the client still needs is
   dropped without being counted as lost, and the new state is after its own. *)
LEMMA RecordKeeps ==
  ASSUME IInv, NEW type \in Types, NEW ids \in SUBSET Ids, NEW op \in Ops,
         RecordBatch(type, ids, op), UNCHANGED <<cached, client, gaps>>,
         \A i \in Ids : ToRecord(i) => ToRecord(i)' \/ (type = "Email" /\ i \in ids)
  PROVE  LostReached' /\ BoundReached' /\ NothingForgotten'
<1> USE DEF IInv
<1>1. /\ counter' = [counter EXCEPT ![type] = @ + 1]
      /\ \A r \in lost' : r \in lost \/ (r.type = "Email" /\ r.state <= counter'["Email"])
      /\ lost \subseteq lost'
      /\ \A r \in rows : r.type = "Email" => r \in rows' \union lost'
      /\ type = "Email" =>
           \A i \in ids : \E r \in rows' \union lost' :
              r.type = "Email" /\ r.id = i /\ r.state = counter["Email"] + 1
  BY BatchFacts
<1>2. counter["Email"] \in Nat /\ counter'["Email"] \in Nat /\ counter["Email"] <= counter'["Email"]
  <2>1. counter \in [Types -> Nat]
    BY DEF LogTypeOK
  <2> QED BY <1>1, <2>1 DEF Types
<1>3. LostReached'
  <2>1. \A r \in lost : r.state \in Nat
    BY DEF LogTypeOK, Row
  <2> QED BY <1>1, <1>2, <2>1 DEF LostReached
<1>4. Bound' = Bound /\ Bound \in Nat
  BY BoundIsState DEF Bound
<1>5. BoundReached'
  BY <1>2, <1>4 DEF BoundReached
<1>6. ASSUME client.phase # "off", gaps = {}, NEW i \in Ids, client.known[i] # cached[i]
      PROVE  (ToRecord(i) \/ Logged(i, Bound) \/ InHand(i))'
  <2>1. ToRecord(i) \/ Logged(i, Bound) \/ InHand(i)
    BY <1>6 DEF NothingForgotten
  <2>2. CASE InHand(i)
    BY <2>2 DEF InHand
  <2>3. CASE Logged(i, Bound)
    <3>1. PICK r \in rows \union lost : r.type = "Email" /\ r.id = i /\ r.state > Bound
      BY <2>3 DEF Logged
    <3>2. r \in rows' \union lost'
      BY <1>1, <3>1
    <3> QED BY <3>1, <3>2, <1>4 DEF Logged
  <2>4. CASE type = "Email" /\ i \in ids
    <3>1. PICK r \in rows' \union lost' :
              r.type = "Email" /\ r.id = i /\ r.state = counter["Email"] + 1
      BY <1>1, <2>4
    <3>2. r.state > Bound
      BY <3>1, <1>6, <1>2, <1>4 DEF BoundReached
    <3> QED BY <3>1, <3>2, <1>4 DEF Logged
  <2> QED BY <2>1, <2>2, <2>3, <2>4
<1>7. NothingForgotten'
  BY <1>6 DEF NothingForgotten
<1> QED BY <1>3, <1>5, <1>7

LEMMA StepKeeps == ASSUME IInv, LogNext PROVE LostReached' /\ BoundReached' /\ NothingForgotten'
<1> USE DEF IInv
<1>1. ASSUME NEW w \in Writers, NEW i \in Ids, NEW op \in Ops, Change(w, i, op)
      PROVE  LostReached' /\ BoundReached' /\ NothingForgotten'
  <2>1. UNCHANGED <<counter, rows, lost, client, gaps>>
    BY <1>1 DEF Change, storage
  <2>2. \A j \in Ids : ToRecord(j) => ToRecord(j)'
    BY <1>1 DEF Change, ToRecord, LogTypeOK
  <2>3. ToRecord(i)'
    BY <1>1 DEF Change, ToRecord, LogTypeOK
  <2>4. \A j \in Ids : j # i => cached'[j] = cached[j]
    BY <1>1 DEF Change, LogTypeOK, Versions
  <2>5. \A j \in Ids : (Logged(j, Bound)' <=> Logged(j, Bound)) /\ (InHand(j)' <=> InHand(j))
    BY <2>1 DEF Logged, InHand, Bound
  <2>6. LostReached' /\ BoundReached'
    BY <2>1 DEF LostReached, BoundReached, Bound
  <2>7. NothingForgotten'
    BY <2>1, <2>2, <2>3, <2>4, <2>5 DEF NothingForgotten
  <2> QED BY <2>6, <2>7
<1>2. ASSUME NEW w \in Writers, NEW op \in Ops, Record(w, op)
      PROVE  LostReached' /\ BoundReached' /\ NothingForgotten'
  <2>1. /\ RecordBatch("Email", todo[w][op], op) /\ todo[w][op] \in SUBSET Ids
        /\ "Email" \in Types /\ UNCHANGED <<cached, client, gaps>>
    BY <1>2 DEF Record, LogTypeOK, Types
  <2>2. \A i \in Ids : ToRecord(i) => ToRecord(i)' \/ i \in todo[w][op]
    BY <1>2 DEF ToRecord, Record, LogTypeOK
  <2> QED BY <2>1, <2>2, RecordKeeps
<1>3. ASSUME NEW i \in Ids, RecordMailbox(i)
      PROVE  LostReached' /\ BoundReached' /\ NothingForgotten'
  <2>1. /\ RecordBatch("Mailbox", {i}, "updated") /\ {i} \in SUBSET Ids
        /\ "Mailbox" \in Types /\ "updated" \in Ops /\ UNCHANGED <<cached, client, gaps>>
    BY <1>3 DEF RecordMailbox, Types, Ops
  <2>2. \A j \in Ids : ToRecord(j) => ToRecord(j)'
    BY <1>3 DEF ToRecord, RecordMailbox
  <2> QED BY <2>1, <2>2, RecordKeeps
<1>4. ASSUME NEW w \in Writers, DropRecord(w)
      PROVE  LostReached' /\ BoundReached' /\ NothingForgotten'
  <2>1. gaps' # {} /\ UNCHANGED <<counter, lost>>
    BY <1>4 DEF DropRecord, storage
  <2> QED BY <2>1 DEF LostReached, BoundReached, NothingForgotten
<1>5. ASSUME RepairCache
      PROVE  LostReached' /\ BoundReached' /\ NothingForgotten'
  <2>1. gaps' # {} /\ lost' = {}
    BY <1>5 DEF RepairCache
  <2> QED BY <2>1 DEF LostReached, BoundReached, NothingForgotten
<1>6. ASSUME GetRead
      PROVE  LostReached' /\ BoundReached' /\ NothingForgotten'
  <2>1. /\ client'.phase = "get" /\ client'.known = cached' /\ UNCHANGED <<counter, lost>>
        /\ client'.call.seen = counter["Email"]
    BY <1>6 DEF GetRead, storage, LogTypeOK, Client, NoCall
  <2>2. Bound' = counter["Email"]
    BY <2>1 DEF Bound
  <2> QED BY <2>1, <2>2, BoundIsState DEF LostReached, BoundReached, NothingForgotten
<1>7. ASSUME GetAnswer
      PROVE  LostReached' /\ BoundReached' /\ NothingForgotten'
  <2>1. /\ client'.phase = "idle" /\ client'.known = client.known
        /\ client'.state = counter["Email"] /\ UNCHANGED <<counter, rows, lost, cached, todo>>
        /\ client.phase = "get" /\ gaps \subseteq gaps'
        /\ counter["Email"] > client.call.seen => gaps' # {}
    BY <1>7 DEF GetAnswer, storage, LogTypeOK, Client
  <2>2. Bound' = counter["Email"] /\ Bound = client.call.seen
    BY <2>1 DEF Bound
  <2>3. gaps' = {} => gaps = {} /\ counter["Email"] <= Bound
    BY <2>1, <2>2, BoundIsState
  <2>4. \A i \in Ids : ~InHand(i) /\ (ToRecord(i)' <=> ToRecord(i))
    BY <2>1 DEF InHand, ToRecord
  <2>5. \A i \in Ids : gaps' = {} /\ Logged(i, Bound) => Logged(i, Bound)'
    <3>1. \A r \in rows \union lost : r.state \in Nat
      BY DEF LogTypeOK, Row
    <3> QED BY <2>1, <2>2, <2>3, <3>1, BoundIsState DEF Logged
  <2>6. LostReached' /\ BoundReached'
    BY <2>1, <2>2, BoundIsState DEF LostReached, BoundReached
  <2> QED BY <2>1, <2>3, <2>4, <2>5, <2>6 DEF NothingForgotten
<1>8. ASSUME ChangesRefused
      PROVE  LostReached' /\ BoundReached' /\ NothingForgotten'
  <2>1. client'.phase = "off" /\ UNCHANGED <<counter, lost>>
    BY <1>8 DEF ChangesRefused, storage, LogTypeOK, Client
  <2> QED BY <2>1 DEF LostReached, BoundReached, NothingForgotten
<1>9. ASSUME ChangesRead
      PROVE  LostReached' /\ BoundReached' /\ NothingForgotten'
  <2> DEFINE found == Since(client.state)
             page == PageOf(found)
  <2>1. page \subseteq found /\ found \subseteq rows
        /\ \A r \in found : r.type = "Email" /\ r \in Row /\ r.state \in Nat
                         /\ r.state <= counter["Email"]
    BY DEF LogTypeOK, Since, PageOf, Emails, Row
  <2>2. \A r \in rows : r.type = "Email" /\ r.state > client.state => r \in found
    BY DEF Since, Emails
  <2> HIDE DEF found, page
  <2>3. PICK last \in IF page # found THEN LastStates(page) ELSE {counter["Email"]} :
          /\ client' = [client EXCEPT !.phase = "changes",
                 !.call = [page |-> page, more |-> page # found, last |-> last,
                           seen |-> counter["Email"]]]
          /\ gaps' = gaps \union
               (IF \E r \in lost : r.state > client.state THEN {"trimmed"} ELSE {}) \union
               (IF \E r \in found \ page : r.state <= last THEN {"page"} ELSE {})
    BY <1>9 DEF ChangesRead, found, page
  <2>4. last \in Nat /\ last <= counter["Email"]
    BY <2>1, <2>3, BoundIsState DEF LastStates
  <2>5. /\ client'.phase = "changes" /\ client'.known = client.known
        /\ client'.call.page = page /\ client'.call.last = last
        /\ client'.call.more = (page # found) /\ client'.call.seen = counter["Email"]
        /\ client.phase = "idle"
        /\ UNCHANGED <<counter, rows, lost, cached, todo>>
    BY <1>9, <2>3 DEF ChangesRead, storage, LogTypeOK, Client
  <2>6. Bound' = last /\ Bound = client.state
    BY <2>5 DEF Bound
  <2>7. LostReached' /\ BoundReached'
    BY <2>3, <2>4, <2>5, <2>6 DEF LostReached, BoundReached
  <2>8. ASSUME gaps' = {}, NEW i \in Ids, client.known[i] # cached[i]
        PROVE  (ToRecord(i) \/ Logged(i, Bound) \/ InHand(i))'
    <3>1. gaps = {} /\ (\A r \in lost : ~(r.state > client.state))
          /\ \A r \in found \ page : ~(r.state <= last)
      BY <2>8, <2>3
    <3>2. ToRecord(i) \/ Logged(i, Bound)
      BY <2>8, <3>1, <2>5 DEF NothingForgotten, InHand
    <3>3. CASE ToRecord(i)
      BY <3>3, <2>5 DEF ToRecord
    <3>4. CASE Logged(i, Bound)
      <4>1. PICK r \in rows \union lost : r.type = "Email" /\ r.id = i /\ r.state > client.state
        BY <3>4, <2>6 DEF Logged
      <4>2. r \in found
        BY <4>1, <3>1, <2>2
      <4>3. CASE r \in page
        BY <4>1, <4>3, <2>5 DEF InHand
      <4>4. CASE r \notin page
        <5>1. r.state > last
          BY <4>2, <4>4, <3>1, <2>1, <2>4
        <5> QED BY <4>1, <5>1, <2>5, <2>6 DEF Logged
      <4> QED BY <4>3, <4>4
    <3> QED BY <3>2, <3>3, <3>4
  <2>9. NothingForgotten'
    BY <2>5, <2>8 DEF NothingForgotten
  <2> QED BY <2>7, <2>9
<1>10. ASSUME ChangesAnswer
      PROVE  LostReached' /\ BoundReached' /\ NothingForgotten'
  <2> DEFINE call == client.call
             gone == Destroyed(call.page)
             dirty == {r.id : r \in call.page} \ gone
  <2>1. /\ client.phase = "changes"
        /\ client'.phase = (IF dirty = {} THEN "idle" ELSE "fetch")
        /\ client'.state = (IF call.more THEN call.last ELSE counter["Email"])
        /\ client'.known = [i \in Ids |-> IF i \in gone THEN 0 ELSE client.known[i]]
        /\ client'.dirty = dirty
        /\ UNCHANGED <<counter, rows, lost, cached, todo>>
        /\ gaps \subseteq gaps'
        /\ ~call.more /\ counter["Email"] > call.seen => gaps' # {}
        /\ (\E i \in gone : cached[i] # 0) => gaps' # {}
    BY <1>10 DEF ChangesAnswer, storage, LogTypeOK, Client
  <2> HIDE DEF dirty, gone
  <2>2. /\ Bound = call.last /\ call.last \in Nat /\ call.seen \in Nat
        /\ counter["Email"] \in Nat /\ call.more \in BOOLEAN
    BY <2>1 DEF Bound, LogTypeOK, Client, Call, Types
  <2>3. Bound' = IF call.more THEN call.last ELSE counter["Email"]
    BY <2>1 DEF Bound
  <2>4. gaps' = {} => gaps = {} /\ Bound' = call.last
    <3>1. ASSUME gaps' = {} PROVE gaps = {} /\ Bound' = call.last
      <4>1. gaps = {}
        BY <3>1, <2>1
      <4>2. CASE call.more
        BY <4>1, <4>2, <2>3
      <4>3. CASE ~call.more
        <5>1. counter["Email"] <= call.seen
          BY <4>3, <3>1, <2>1, <2>2
        <5>2. call.last = call.seen /\ call.last <= counter["Email"]
          BY <4>1, <4>3, <2>1, <2>2 DEF BoundReached
        <5> QED BY <4>1, <4>3, <5>1, <5>2, <2>2, <2>3
      <4> QED BY <4>2, <4>3
    <3> QED BY <3>1
  <2>5. LostReached' /\ BoundReached'
    <3>1. LostReached'
      BY <2>1 DEF LostReached
    <3>2. client'.phase # "changes"
      BY <2>1
    <3>3. gaps' = {} => Bound' <= counter["Email"]
      BY <2>1, <2>2, <2>4 DEF BoundReached
    <3> QED BY <3>1, <3>2, <3>3, <2>1 DEF BoundReached
  <2>6. ASSUME gaps' = {}, NEW i \in Ids, client'.known[i] # cached[i]
        PROVE  (ToRecord(i) \/ Logged(i, Bound) \/ InHand(i))'
    <3>1. i \notin gone /\ client.known[i] # cached[i]
      BY <2>6, <2>1
    <3>2. ToRecord(i) \/ Logged(i, Bound) \/ InHand(i)
      BY <3>1, <2>1, <2>4, <2>6 DEF NothingForgotten
    <3>3. CASE ToRecord(i)
      BY <3>3, <2>1 DEF ToRecord
    <3>4. CASE Logged(i, Bound)
      BY <3>4, <2>1, <2>2, <2>4, <2>6 DEF Logged
    <3>5. CASE InHand(i)
      <4>1. i \in dirty
        BY <3>5, <3>1, <2>1 DEF InHand, dirty
      <4> QED BY <4>1, <2>1 DEF InHand
    <3> QED BY <3>2, <3>3, <3>4, <3>5
  <2>7. NothingForgotten'
    BY <2>1, <2>6 DEF NothingForgotten
  <2> QED BY <2>5, <2>7
<1>11. ASSUME Fetch
      PROVE  LostReached' /\ BoundReached' /\ NothingForgotten'
  <2>1. /\ client.phase = "fetch" /\ client'.phase = "idle" /\ client'.state = client.state
        /\ client'.known = [i \in Ids |-> IF i \in client.dirty THEN cached[i] ELSE client.known[i]]
        /\ UNCHANGED <<counter, rows, lost, cached, todo, gaps>>
    BY <1>11 DEF Fetch, storage, LogTypeOK, Client
  <2>2. Bound' = Bound
    BY <2>1 DEF Bound
  <2>3. LostReached' /\ BoundReached'
    BY <2>1, <2>2 DEF LostReached, BoundReached
  <2>4. ASSUME gaps = {}, NEW i \in Ids, client'.known[i] # cached[i]
        PROVE  (ToRecord(i) \/ Logged(i, Bound) \/ InHand(i))'
    <3>1. i \notin client.dirty /\ client.known[i] # cached[i]
      BY <2>4, <2>1
    <3>2. ToRecord(i) \/ Logged(i, Bound)
      BY <3>1, <2>1, <2>4 DEF NothingForgotten, InHand
    <3> QED BY <3>2, <2>1, <2>2 DEF ToRecord, Logged
  <2>5. NothingForgotten'
    BY <2>1, <2>4 DEF NothingForgotten
  <2> QED BY <2>3, <2>5
<1> QED BY <1>1, <1>2, <1>3, <1>4, <1>5, <1>6, <1>7, <1>8, <1>9, <1>10, <1>11 DEF LogNext

LEMMA InitInv == LogInit => IInv
<1> SUFFICES ASSUME LogInit PROVE IInv
  OBVIOUS
<1>1. LogTypeOK
  BY InitTypes
<1>2. client.phase = "off" /\ lost = {}
  BY DEF LogInit
<1> QED BY <1>1, <1>2 DEF IInv, LostReached, BoundReached, NothingForgotten

LEMMA InvIsInductive == IInv /\ [LogNext]_logVars => IInv'
<1>1. ASSUME IInv, LogNext PROVE IInv'
  BY <1>1, TypesHold, StepKeeps DEF IInv
<1>2. ASSUME IInv, UNCHANGED logVars PROVE IInv'
  BY <1>2 DEF IInv, logVars, LogTypeOK, LostReached, BoundReached, NothingForgotten, Bound,
              ToRecord, Logged, InHand
<1> QED BY <1>1, <1>2

LEMMA InvGivesPromise == IInv => MissesOnlyByNamedGaps
<1> SUFFICES ASSUME IInv, Settled, gaps = {} PROVE client.known = cached
  BY DEF MissesOnlyByNamedGaps
<1>1. client.phase = "idle" /\ Bound = counter["Email"]
  BY DEF Settled, Bound
<1>2. \A i \in Ids : ~ToRecord(i) /\ ~InHand(i)
  <2>1. \A w \in Writers, op \in Ops : todo[w][op] = {}
    BY DEF Settled, Nothing
  <2> QED BY <1>1, <2>1 DEF ToRecord, InHand
<1>3. \A i \in Ids : ~Logged(i, Bound)
  <2>1. \A r \in rows \union lost : r.type = "Email" => r.state \in Nat /\ r.state <= counter["Email"]
    BY DEF IInv, LogTypeOK, LostReached, Row
  <2>2. counter["Email"] \in Nat
    BY BoundIsState DEF IInv
  <2> QED BY <1>1, <2>1, <2>2 DEF Logged
<1>4. \A i \in Ids : client.known[i] = cached[i]
  BY <1>1, <1>2, <1>3 DEF IInv, NothingForgotten
<1>5. client.known \in [Ids -> Nat] /\ cached \in [Ids -> Nat]
  BY DEF IInv, LogTypeOK, Client, Versions
<1> QED BY <1>4, <1>5

(* A client that is up to date and met none of the named gaps knows the cache
   as it is, for any number of messages, writers, rows and pages
   (jmap_record_batch, jmap_changes_since, email.rs get and changes). *)
THEOREM ClientsAreUpToDate == LogSpec => []MissesOnlyByNamedGaps
BY InitInv, InvIsInductive, InvGivesPromise, PTL DEF LogSpec

-----------------------------------------------------------------------------
(* The push *)

States == [PushTypes -> Nat]

PushTypeOK ==
  /\ states \in States /\ records \in Nat
  /\ writer \in [PushWriters -> {"idle", "recorded", "read", "bumped"}]
  /\ carried \in [PushWriters -> States]
  /\ phase \in [Listeners -> {"away", "snapshot", "live"}]
  /\ queue \in [Listeners -> Seq(States)]
  /\ lagged \in [Listeners -> BOOLEAN]
  /\ heard \in [Listeners -> States]
  /\ missed \in [Listeners -> BOOLEAN]

(* Only a subscribed connection has a channel. *)
OnlyLiveQueues ==
  \A l \in Listeners : phase[l] # "live" => queue[l] = <<>> /\ ~lagged[l]

(* An announcement of the current state is in the channel of l. *)
OnItsWay(l, t) == \E i \in 1..Len(queue[l]) : queue[l][i][t] >= states[t]

(* Every connection that has lost and missed nothing has heard the current
   states, will take them from its channel, or a writer will announce them. *)
HeardOrHears ==
  \A l \in Listeners, t \in PushTypes :
    phase[l] # "away" /\ ~lagged[l] /\ ~missed[l]
      => heard[l][t] >= states[t] \/ OnItsWay(l, t) \/ \E w \in PushWriters : Announces(w, t)

PushInv == PushTypeOK /\ OnlyLiveQueues /\ HeardOrHears

LEMMA PushInitHolds == PushInit => PushInv
<1> SUFFICES ASSUME PushInit PROVE PushInv
  OBVIOUS
<1>1. NoStates \in States
  BY DEF NoStates, States, PushTypes
<1>2. PushTypeOK
  BY <1>1 DEF PushInit, PushTypeOK, States
<1>3. OnlyLiveQueues /\ HeardOrHears
  BY DEF PushInit, OnlyLiveQueues, HeardOrHears
<1> QED BY <1>2, <1>3 DEF PushInv

(* What the client has heard only grows. *)
LEMMA HigherIsHigher ==
  ASSUME NEW a \in States, NEW b \in States
  PROVE  Higher(a, b) \in States
         /\ \A t \in PushTypes : Higher(a, b)[t] >= a[t] /\ Higher(a, b)[t] >= b[t]
BY DEF States, Higher

(* A step that leaves the connections alone, and after which
   every writer that announced a type still does. *)
LEMMA WriterMoves ==
  ASSUME PushInv, PushTypeOK',
         UNCHANGED <<phase, queue, lagged, heard, missed>>,
         NEW keep \in SUBSET PushTypes,
         \A t \in keep : states'[t] = states[t]
                           /\ \A w \in PushWriters : Announces(w, t) => Announces(w, t)',
         \A t \in PushTypes \ keep : \E w \in PushWriters : Announces(w, t)'
  PROVE  PushInv'
<1>1. OnlyLiveQueues'
  BY DEF PushInv, OnlyLiveQueues
<1>2. HeardOrHears'
  <2> SUFFICES ASSUME NEW l \in Listeners, NEW t \in PushTypes,
                      (phase[l] # "away" /\ ~lagged[l] /\ ~missed[l])'
               PROVE  (heard[l][t] >= states[t] \/ OnItsWay(l, t) \/ \E w \in PushWriters : Announces(w, t))'
    BY DEF HeardOrHears
  <2>1. CASE t \in keep
    <3>1. heard[l][t] >= states[t] \/ OnItsWay(l, t) \/ \E w \in PushWriters : Announces(w, t)
      BY DEF PushInv, HeardOrHears
    <3> QED BY <2>1, <3>1 DEF OnItsWay
  <2> QED BY <2>1
<1> QED BY <1>1, <1>2 DEF PushInv

LEMMA RecordsPush ==
  ASSUME PushInv, NEW v \in PushWriters, Records(v) PROVE PushInv'
<1>1. /\ states' = [states EXCEPT !["Email"] = states["Email"] + 1] /\ records' = records + 1
      /\ writer[v] = "idle" /\ writer' = [writer EXCEPT ![v] = "recorded"]
      /\ UNCHANGED <<carried, phase, queue, lagged, heard, missed>>
  BY DEF Records, Bumps
<1>2. states' \in States
  BY <1>1 DEF PushInv, PushTypeOK, States, PushTypes
<1>3. PushTypeOK'
  BY <1>1, <1>2 DEF PushInv, PushTypeOK
<1>4. Announces(v, "Email")'
  BY <1>1 DEF Announces, PushInv, PushTypeOK
<1>5. ASSUME NEW w \in PushWriters, Announces(w, "Mailbox") PROVE Announces(w, "Mailbox")'
  BY <1>1, <1>5 DEF Announces, PushInv, PushTypeOK, States, PushTypes
<1>6. states'["Mailbox"] = states["Mailbox"]
  BY <1>1 DEF PushInv, PushTypeOK, States, PushTypes
<1>7. PushTypes \ {"Mailbox"} = {"Email"}
  BY DEF PushTypes
<1> QED BY <1>1, <1>3, <1>4, <1>5, <1>6, <1>7, WriterMoves DEF PushTypes

LEMMA SilencePush == ASSUME PushInv, RecordsSilently PROVE PushInv'
<1>1. /\ states' = [states EXCEPT !["Email"] = states["Email"] + 1] /\ records' = records + 1
      /\ missed' = [l \in Listeners |-> missed[l] \/ phase[l] # "away"]
      /\ UNCHANGED <<writer, carried, phase, queue, lagged, heard>>
  BY DEF RecordsSilently, Bumps
<1>2. states' \in States
  BY <1>1 DEF PushInv, PushTypeOK, States, PushTypes
<1>3. missed' \in [Listeners -> BOOLEAN]
  BY <1>1, Zenon
<1>4. PushTypeOK'
  BY <1>1, <1>2, <1>3 DEF PushInv, PushTypeOK
<1>5. OnlyLiveQueues' /\ HeardOrHears'
  BY <1>1 DEF PushInv, OnlyLiveQueues, HeardOrHears
<1> QED BY <1>4, <1>5 DEF PushInv

LEMMA ReadsPush ==
  ASSUME PushInv, NEW v \in PushWriters, ReadsState(v) PROVE PushInv'
<1>1. /\ writer[v] = "recorded" /\ writer' = [writer EXCEPT ![v] = "read"]
      /\ carried' = [carried EXCEPT ![v] = [NoStates EXCEPT !["Email"] = states["Email"]]]
      /\ UNCHANGED <<states, records, phase, queue, lagged, heard, missed>>
  BY DEF ReadsState
<1>2. [NoStates EXCEPT !["Email"] = states["Email"]] \in States
  BY DEF PushInv, PushTypeOK, States, PushTypes, NoStates
<1>3. PushTypeOK'
  BY <1>1, <1>2 DEF PushInv, PushTypeOK
<1>4. ASSUME NEW t \in PushTypes, NEW w \in PushWriters, Announces(w, t) PROVE Announces(w, t)'
  <2>1. CASE w = v
    <3>1. t = "Email"
      BY <1>1, <1>4, <2>1 DEF Announces
    <3>2. carried'[v]["Email"] >= states'["Email"] /\ writer'[v] = "read"
      BY <1>1 DEF PushInv, PushTypeOK, States, PushTypes, NoStates
    <3> QED BY <2>1, <3>1, <3>2 DEF Announces
  <2>2. CASE w # v
    BY <1>1, <1>4, <2>2 DEF Announces, PushInv, PushTypeOK
  <2> QED BY <2>1, <2>2
<1> QED BY <1>1, <1>3, <1>4, WriterMoves

LEMMA BumpsPush ==
  ASSUME PushInv, NEW v \in PushWriters, BumpsMailbox(v) PROVE PushInv'
<1> DEFINE bumped == [carried[v] EXCEPT !["Mailbox"] = states["Mailbox"] + 1]
<1>1. /\ writer[v] = "read" /\ writer' = [writer EXCEPT ![v] = "bumped"]
      /\ states' = [states EXCEPT !["Mailbox"] = states["Mailbox"] + 1]
      /\ carried' = [carried EXCEPT ![v] = bumped]
      /\ UNCHANGED <<records, phase, queue, lagged, heard, missed>>
  BY DEF BumpsMailbox, Bumps
<1>2. states' \in States /\ bumped \in States
  BY <1>1 DEF PushInv, PushTypeOK, States, PushTypes
<1>3. PushTypeOK'
  BY <1>1, <1>2 DEF PushInv, PushTypeOK
<1>4. bumped["Mailbox"] = states'["Mailbox"] /\ states'["Mailbox"] \in Nat
      /\ bumped["Email"] = carried[v]["Email"] /\ states'["Email"] = states["Email"]
  BY <1>1 DEF PushInv, PushTypeOK, States, PushTypes
<1>5. carried'[v] = bumped /\ writer'[v] = "bumped"
  BY <1>1 DEF PushInv, PushTypeOK
<1>6. Announces(v, "Mailbox")'
  BY <1>4, <1>5 DEF Announces
<1>7. ASSUME NEW w \in PushWriters, Announces(w, "Email") PROVE Announces(w, "Email")'
  <2>1. CASE w = v
    BY <1>1, <1>4, <1>5, <1>7, <2>1 DEF Announces
  <2>2. CASE w # v
    BY <1>1, <1>4, <1>7, <2>2 DEF Announces, PushInv, PushTypeOK
  <2> QED BY <2>1, <2>2
<1>8. PushTypes \ {"Email"} = {"Mailbox"}
  BY DEF PushTypes
<1> QED BY <1>1, <1>3, <1>4, <1>6, <1>7, <1>8, WriterMoves DEF PushTypes

(* Whoever takes a place in a channel, what was in it still is, or the channel
   was full and its reader will know. *)
LEMMA SendsPush ==
  ASSUME PushInv, PushAssumption, NEW v \in PushWriters, Sends(v) PROVE PushInv'
<1> USE DEF PushAssumption
<1>1. /\ writer[v] \in {"read", "bumped"} /\ writer' = [writer EXCEPT ![v] = "idle"]
      /\ \A l \in Listeners : phase[l] # "live" => queue'[l] = queue[l] /\ lagged'[l] = lagged[l]
      /\ \A l \in Listeners : phase[l] = "live" /\ Len(queue[l]) = ChannelRoom => lagged'[l]
      /\ \A l \in Listeners : phase[l] = "live" /\ ~lagged'[l]
           => ~lagged[l] /\ queue'[l] = Append(queue[l], carried[v])
      /\ \A l \in Listeners : ~missed'[l] => ~missed[l]
           /\ (phase[l] = "snapshot" => Higher(heard[l], carried[v]) = heard[l])
      /\ UNCHANGED <<states, records, carried, phase, heard>>
  <2>1. /\ writer[v] \in {"read", "bumped"} /\ writer' = [writer EXCEPT ![v] = "idle"]
        /\ UNCHANGED <<states, records, carried, phase, heard>>
    BY DEF Sends
  <2>2. ASSUME NEW l \in Listeners
        PROVE  /\ queue'[l] = IF phase[l] # "live" THEN queue[l]
                              ELSE IF Len(queue[l]) = ChannelRoom
                                   THEN Append(Tail(queue[l]), carried[v])
                                   ELSE Append(queue[l], carried[v])
               /\ lagged'[l] = (lagged[l] \/ (phase[l] = "live" /\ Len(queue[l]) = ChannelRoom))
               /\ missed'[l] = (missed[l] \/ (phase[l] = "snapshot"
                                             /\ Higher(heard[l], carried[v]) # heard[l]))
    BY DEF Sends
  <2>3. \A l \in Listeners : lagged[l] \in BOOLEAN /\ missed[l] \in BOOLEAN
    BY DEF PushInv, PushTypeOK
  <2> QED BY <2>1, <2>2, <2>3
<1>2. ASSUME NEW l \in Listeners PROVE queue'[l] \in Seq(States)
  <2>1. queue[l] \in Seq(States) /\ carried[v] \in States
    BY DEF PushInv, PushTypeOK
  <2>2. CASE phase[l] # "live"
    BY <1>1, <2>1, <2>2
  <2>3. CASE phase[l] = "live" /\ Len(queue[l]) = ChannelRoom
    <3>1. queue[l] # <<>>
      BY <2>1, <2>3
    <3>2. Tail(queue[l]) \in Seq(States)
      BY <2>1, <3>1
    <3> QED BY <2>1, <2>3, <3>2 DEF Sends
  <2>4. CASE phase[l] = "live" /\ Len(queue[l]) # ChannelRoom
    BY <2>1, <2>4 DEF Sends
  <2> QED BY <2>2, <2>3, <2>4
<1>3. queue' \in [Listeners -> Seq(States)]
  <2>1. queue' = [l \in Listeners |-> queue'[l]]
    BY DEF Sends
  <2> QED BY <1>2, <2>1
<1>4. lagged' \in [Listeners -> BOOLEAN] /\ missed' \in [Listeners -> BOOLEAN]
  <2>1. lagged' = [l \in Listeners |->
          lagged[l] \/ (phase[l] = "live" /\ Len(queue[l]) = ChannelRoom)]
    BY DEF Sends
  <2>2. missed' = [l \in Listeners |->
          missed[l] \/ (phase[l] = "snapshot" /\ Higher(heard[l], carried[v]) # heard[l])]
    BY DEF Sends
  <2>3. lagged' \in [Listeners -> BOOLEAN]
    BY <2>1, Zenon
  <2>4. missed' \in [Listeners -> BOOLEAN]
    BY <2>2, Zenon
  <2> QED BY <2>3, <2>4
<1>5. PushTypeOK'
  BY <1>1, <1>3, <1>4 DEF PushInv, PushTypeOK
<1>6. OnlyLiveQueues'
  BY <1>1 DEF PushInv, OnlyLiveQueues
<1>7. HeardOrHears'
  <2> SUFFICES ASSUME NEW l \in Listeners, NEW t \in PushTypes,
                      (phase[l] # "away" /\ ~lagged[l] /\ ~missed[l])'
               PROVE  (heard[l][t] >= states[t] \/ OnItsWay(l, t) \/ \E w \in PushWriters : Announces(w, t))'
    BY DEF HeardOrHears
  <2>1. phase[l] # "away" /\ ~lagged[l] /\ ~missed[l]
    BY <1>1
  <2>2. queue[l] \in Seq(States) /\ carried[v] \in States /\ heard[l] \in States /\ states \in States
    BY DEF PushInv, PushTypeOK
  <2>3. CASE heard[l][t] >= states[t]
    BY <1>1, <2>3
  <2>4. CASE OnItsWay(l, t)
    <3>1. PICK i \in 1..Len(queue[l]) : queue[l][i][t] >= states[t]
      BY <2>4 DEF OnItsWay
    <3>2. queue[l] # <<>>
      BY <2>2
    <3>3. phase[l] = "live"
      BY <3>2 DEF PushInv, OnlyLiveQueues
    <3>4. queue'[l] = Append(queue[l], carried[v])
      BY <1>1, <3>3
    <3>5. i \in 1..Len(queue'[l]) /\ queue'[l][i] = queue[l][i]
      BY <2>2, <3>4
    <3> QED BY <1>1, <3>1, <3>5 DEF OnItsWay
  <2>5. CASE \E w \in PushWriters \ {v} : Announces(w, t)
    BY <1>1, <2>5 DEF Announces, PushInv, PushTypeOK
  <2>6. CASE Announces(v, t)
    <3>1. carried[v][t] >= states[t]
      BY <1>1, <2>6 DEF Announces
    <3>2. CASE phase[l] = "live"
      <4>1. queue'[l] = Append(queue[l], carried[v])
        BY <1>1, <3>2
      <4>2. Len(queue'[l]) \in 1..Len(queue'[l]) /\ queue'[l][Len(queue'[l])] = carried[v]
        BY <2>2, <4>1
      <4> QED BY <1>1, <3>1, <4>2 DEF OnItsWay
    <3>3. CASE phase[l] = "snapshot"
      <4>1. heard[l][t] >= carried[v][t]
        BY <1>1, <2>2, <3>3, HigherIsHigher
      <4> QED BY <1>1, <2>2, <3>1, <4>1 DEF States
    <3> QED BY <2>1, <3>2, <3>3 DEF PushInv, PushTypeOK
  <2>7. heard[l][t] >= states[t] \/ OnItsWay(l, t) \/ \E w \in PushWriters : Announces(w, t)
    BY <2>1 DEF PushInv, HeardOrHears
  <2> QED BY <2>3, <2>4, <2>5, <2>6, <2>7
<1> QED BY <1>5, <1>6, <1>7 DEF PushInv

(* A step of one connection, after which that connection is as it must be. *)
LEMMA ConnectionMoves ==
  ASSUME PushInv, PushTypeOK', UNCHANGED <<states, writer, carried>>, NEW k \in Listeners,
         \A l \in Listeners \ {k} :
           phase'[l] = phase[l] /\ queue'[l] = queue[l] /\ lagged'[l] = lagged[l]
             /\ heard'[l] = heard[l] /\ missed'[l] = missed[l],
         phase'[k] # "live" => queue'[k] = <<>> /\ ~lagged'[k],
         phase'[k] # "away" /\ ~lagged'[k] /\ ~missed'[k] =>
           \A t \in PushTypes :
             heard'[k][t] >= states[t] \/ OnItsWay(k, t)' \/ \E w \in PushWriters : Announces(w, t)
  PROVE  PushInv'
<1>1. OnlyLiveQueues'
  BY DEF PushInv, OnlyLiveQueues
<1>2. \A w \in PushWriters, t \in PushTypes : Announces(w, t)' <=> Announces(w, t)
  BY DEF Announces
<1>3. HeardOrHears'
  <2> SUFFICES ASSUME NEW l \in Listeners, NEW t \in PushTypes,
                      (phase[l] # "away" /\ ~lagged[l] /\ ~missed[l])'
               PROVE  (heard[l][t] >= states[t] \/ OnItsWay(l, t) \/ \E w \in PushWriters : Announces(w, t))'
    BY DEF HeardOrHears
  <2>1. CASE l = k
    BY <1>2, <2>1
  <2>2. CASE l # k
    BY <1>2, <2>2 DEF PushInv, HeardOrHears, OnItsWay
  <2> QED BY <2>1, <2>2
<1> QED BY <1>1, <1>3 DEF PushInv

LEMMA ConnectsPush ==
  ASSUME PushInv, NEW k \in Listeners, SseConnects(k) \/ WsConnects(k) PROVE PushInv'
<1>1. /\ phase[k] = "away"
      /\ phase' = [phase EXCEPT ![k] = "snapshot"] \/ phase' = [phase EXCEPT ![k] = "live"]
      /\ heard' = [heard EXCEPT ![k] = states] /\ missed' = [missed EXCEPT ![k] = FALSE]
      /\ UNCHANGED <<states, records, writer, carried, queue, lagged>>
  BY DEF SseConnects, WsConnects
<1>2. PushTypeOK'
  BY <1>1 DEF PushInv, PushTypeOK
<1>3. queue[k] = <<>> /\ ~lagged[k]
  BY <1>1 DEF PushInv, OnlyLiveQueues
<1>4. heard'[k] = states /\ \A t \in PushTypes : states[t] \in Nat
  BY <1>1 DEF PushInv, PushTypeOK, States
<1>5. \A t \in PushTypes : heard'[k][t] >= states[t]
  BY <1>4
<1>6. \A l \in Listeners \ {k} :
           phase'[l] = phase[l] /\ queue'[l] = queue[l] /\ lagged'[l] = lagged[l]
             /\ heard'[l] = heard[l] /\ missed'[l] = missed[l]
  BY <1>1 DEF PushInv, PushTypeOK
<1> QED BY <1>1, <1>2, <1>3, <1>5, <1>6, ConnectionMoves

LEMMA SubscribesPush ==
  ASSUME PushInv, NEW k \in Listeners, SseSubscribes(k) PROVE PushInv'
<1>1. /\ phase[k] = "snapshot" /\ phase' = [phase EXCEPT ![k] = "live"] /\ phase'[k] = "live"
      /\ UNCHANGED <<states, records, writer, carried, queue, lagged, heard, missed>>
  BY DEF SseSubscribes, PushInv, PushTypeOK
<1>2. PushTypeOK'
  BY <1>1 DEF PushInv, PushTypeOK
<1>3. \A l \in Listeners \ {k} : phase'[l] = phase[l]
  BY <1>1 DEF PushInv, PushTypeOK
<1>4. ~lagged[k] /\ ~missed[k] => \A t \in PushTypes :
        heard[k][t] >= states[t] \/ OnItsWay(k, t) \/ \E w \in PushWriters : Announces(w, t)
  BY <1>1 DEF PushInv, HeardOrHears
<1>5. \A t \in PushTypes : OnItsWay(k, t)' <=> OnItsWay(k, t)
  BY <1>1 DEF OnItsWay
<1> QED BY <1>1, <1>2, <1>3, <1>4, <1>5, ConnectionMoves

LEMMA DisconnectsPush ==
  ASSUME PushInv, NEW k \in Listeners, Disconnects(k) PROVE PushInv'
<1>1. /\ phase' = [phase EXCEPT ![k] = "away"] /\ queue' = [queue EXCEPT ![k] = <<>>]
      /\ lagged' = [lagged EXCEPT ![k] = FALSE]
      /\ UNCHANGED <<states, records, writer, carried, heard, missed>>
  BY DEF Disconnects
<1>2. PushTypeOK'
  BY <1>1 DEF PushInv, PushTypeOK
<1>3. phase'[k] = "away" /\ queue'[k] = <<>> /\ ~lagged'[k]
  BY <1>1 DEF PushInv, PushTypeOK
<1>4. \A l \in Listeners \ {k} :
           phase'[l] = phase[l] /\ queue'[l] = queue[l] /\ lagged'[l] = lagged[l]
  BY <1>1 DEF PushInv, PushTypeOK
<1> QED BY <1>1, <1>2, <1>3, <1>4, ConnectionMoves

(* Taking from the channel, or the states of the moment after a loss. *)
LEMMA TakesPush ==
  ASSUME PushInv, NEW k \in Listeners, Takes(k) PROVE PushInv'
<1>1. /\ phase[k] = "live" /\ missed' = [missed EXCEPT ![k] = missed[k] /\ heard'[k] # states]
      /\ UNCHANGED <<states, records, writer, carried, phase>>
  BY DEF Takes
<1>2. /\ states \in States /\ heard \in [Listeners -> States] /\ heard[k] \in States
      /\ queue \in [Listeners -> Seq(States)] /\ queue[k] \in Seq(States)
      /\ lagged \in [Listeners -> BOOLEAN] /\ missed \in [Listeners -> BOOLEAN]
  BY DEF PushInv, PushTypeOK
<1>3. missed' \in [Listeners -> BOOLEAN] /\ (missed'[k] <=> missed[k] /\ heard'[k] # states)
      /\ \A l \in Listeners \ {k} : missed'[l] = missed[l]
  BY <1>1, <1>2, Zenon
<1>4. CASE lagged[k] /\ lagged' = [lagged EXCEPT ![k] = FALSE] /\ Lag(k) /\ UNCHANGED queue
  <2>1. heard' = [heard EXCEPT ![k] = Higher(heard[k], states)]
    BY <1>4 DEF Lag
  <2>2. Higher(heard[k], states) \in States /\ heard'[k] = Higher(heard[k], states)
        /\ heard' \in [Listeners -> States] /\ \A l \in Listeners \ {k} : heard'[l] = heard[l]
    BY <1>2, <2>1, HigherIsHigher
  <2>3. \A t \in PushTypes : heard'[k][t] >= states[t]
    BY <1>2, <2>2, HigherIsHigher
  <2>4. PushTypeOK'
    BY <1>1, <1>2, <1>3, <1>4, <2>2 DEF PushInv, PushTypeOK
  <2>5. \A l \in Listeners \ {k} : lagged'[l] = lagged[l]
    BY <1>2, <1>4
  <2> QED BY <1>1, <1>3, <1>4, <2>2, <2>3, <2>4, <2>5, ConnectionMoves
<1>5. CASE /\ ~lagged[k] /\ queue[k] # <<>> /\ UNCHANGED lagged
           /\ heard' = [heard EXCEPT ![k] = Higher(heard[k], Head(queue[k]))]
           /\ queue' = [queue EXCEPT ![k] = Tail(queue[k])]
  <2>1. Head(queue[k]) \in States /\ Tail(queue[k]) \in Seq(States) /\ Head(queue[k]) = queue[k][1]
        /\ Len(Tail(queue[k])) = Len(queue[k]) - 1 /\ Len(queue[k]) \in Nat
        /\ \A i \in 1..Len(queue[k]) : i # 1 =>
              i - 1 \in 1..Len(Tail(queue[k])) /\ Tail(queue[k])[i - 1] = queue[k][i]
    BY <1>2, <1>5
  <2>2. heard'[k] = Higher(heard[k], Head(queue[k])) /\ heard' \in [Listeners -> States]
        /\ \A l \in Listeners \ {k} : heard'[l] = heard[l]
    BY <1>2, <1>5, <2>1, HigherIsHigher
  <2>3. queue'[k] = Tail(queue[k]) /\ queue' \in [Listeners -> Seq(States)]
        /\ \A l \in Listeners \ {k} : queue'[l] = queue[l]
    BY <1>2, <1>5, <2>1
  <2>4. \A t \in PushTypes : heard'[k][t] >= heard[k][t] /\ heard'[k][t] >= queue[k][1][t]
    BY <1>2, <2>1, <2>2, HigherIsHigher
  <2>5. PushTypeOK'
    BY <1>1, <1>2, <1>3, <1>5, <2>2, <2>3 DEF PushInv, PushTypeOK
  <2>6. ASSUME ~missed'[k], NEW t \in PushTypes
        PROVE  heard'[k][t] >= states[t] \/ OnItsWay(k, t)' \/ \E w \in PushWriters : Announces(w, t)
    <3>1. states[t] \in Nat /\ heard[k][t] \in Nat /\ heard'[k][t] \in Nat /\ queue[k][1][t] \in Nat
      BY <1>2, <2>1, <2>2 DEF States
    <3>2. CASE heard'[k] = states
      BY <3>1, <3>2
    <3>3. CASE heard[k][t] >= states[t]
      BY <2>4, <3>1, <3>3
    <3>4. CASE OnItsWay(k, t)
      <4>1. PICK i \in 1..Len(queue[k]) : queue[k][i][t] >= states[t]
        BY <3>4 DEF OnItsWay
      <4>2. CASE i = 1
        BY <2>4, <3>1, <4>1, <4>2
      <4>3. CASE i # 1
        BY <1>1, <2>1, <2>3, <4>1, <4>3 DEF OnItsWay
      <4> QED BY <4>2, <4>3
    <3>5. heard'[k] = states \/ ~missed[k]
      BY <1>3, <2>6
    <3>6. ~missed[k] => heard[k][t] >= states[t] \/ OnItsWay(k, t)
                          \/ \E w \in PushWriters : Announces(w, t)
      BY <1>1, <1>5 DEF PushInv, HeardOrHears
    <3> QED BY <3>2, <3>3, <3>4, <3>5, <3>6
  <2> QED BY <1>1, <1>3, <1>5, <2>2, <2>3, <2>5, <2>6, ConnectionMoves
<1> QED BY <1>4, <1>5 DEF Takes

LEMMA PushStepKeeps == ASSUME PushInv, [PushNext]_pushVars PROVE PushInv'
<1> USE PushAssumption
<1>1. CASE RecordsSilently
  BY <1>1, SilencePush
<1>2. ASSUME NEW w \in PushWriters, Records(w) \/ ReadsState(w) \/ BumpsMailbox(w) \/ Sends(w)
      PROVE  PushInv'
  BY <1>2, RecordsPush, ReadsPush, BumpsPush, SendsPush
<1>3. ASSUME NEW l \in Listeners,
             SseConnects(l) \/ WsConnects(l) \/ SseSubscribes(l) \/ Takes(l) \/ Disconnects(l)
      PROVE  PushInv'
  BY <1>3, ConnectsPush, SubscribesPush, TakesPush, DisconnectsPush
<1>4. CASE UNCHANGED pushVars
  BY <1>4 DEF pushVars, PushInv, PushTypeOK, OnlyLiveQueues, HeardOrHears, OnItsWay, Announces
<1> QED BY <1>1, <1>2, <1>3, <1>4 DEF PushNext

LEMMA PushInvariant == PushSpec => []PushInv
BY PushInitHolds, PushStepKeeps, PTL DEF PushSpec

(* However writers interleave and however slow a connection is, one with nothing
   left to take has heard the current states, or a writer will announce them. *)
THEOREM ClientsHearOfChanges == PushSpec => []ClientsHear
<1>1. PushInv => ClientsHear
  <2> SUFFICES ASSUME PushInv, NEW l \in Listeners, NEW t \in PushTypes,
                      phase[l] = "live", queue[l] = <<>>, ~lagged[l], ~missed[l]
               PROVE  heard[l][t] >= states[t] \/ \E w \in PushWriters : Announces(w, t)
    BY DEF ClientsHear
  <2>1. ~OnItsWay(l, t)
    BY DEF OnItsWay
  <2> QED BY <2>1 DEF PushInv, HeardOrHears
<1> QED BY <1>1, PushInvariant, PTL
=============================================================================
