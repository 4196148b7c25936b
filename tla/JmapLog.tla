------------------------------ MODULE JmapLog ------------------------------
(***************************************************************************)
(* The JMAP change log: counters per type, rows that say which object was  *)
(* created, updated or destroyed under which state, the trim to a total    *)
(* number of rows over all types, and a client that mirrors the message    *)
(* cache through Email/get and Email/changes.                              *)
(*                                                                         *)
(* Writers are the sync pass, the history sweep, IMAP commands and         *)
(* Email/set: each changes the cache first and records the change later,   *)
(* one batch and one state per kind of change.  A row is a record with its *)
(* row number, so the table is a set and the trim compares row numbers.    *)
(***************************************************************************)
EXTENDS Integers, FiniteSets, Functions

CONSTANTS
  Ids,          \* messages (and, for rows of the other type, mailboxes)
  Writers,      \* concurrent writers of the message cache
  LogRows,      \* rows the log keeps over all types (10000 in the code)
  PageRows,     \* rows one answer carries (500 in the code)
  MaxRows,      \* bound on the rows ever recorded
  MaxWrites,    \* bound on the changes of the cache
  MaxLogDrops,     \* bound on the writers that stop before they record
  MaxRepairs    \* bound on cache repairs

ASSUME BoundsAreNumbers ==
  /\ LogRows \in Nat \ {0} /\ PageRows \in Nat \ {0}
  /\ MaxRows \in Nat /\ MaxWrites \in Nat /\ MaxLogDrops \in Nat /\ MaxRepairs \in Nat
ASSUME IdsAreFinite == IsFiniteSet(Ids)

VARIABLES
  counter,      \* jmap_state: the state of each type
  rows,         \* jmap_change_log
  seq,          \* its last row number
  cached,       \* message_cache: version of each message, 0 when absent
  todo,         \* what each writer has changed and not yet recorded
  client,       \* the client: its state, what it knows, the call under way
  \* observation only
  writes,       \* changes of the cache so far, which number the versions
  lost,         \* Email rows that were trimmed
  gaps,         \* named ways in which the client may have missed a change
  logDrops, repairs

storage == <<counter, rows, seq>>
logVars == <<counter, rows, seq, cached, todo, client, writes, lost, gaps, logDrops, repairs>>

Types == {"Email", "Mailbox"}
Ops == {"created", "updated", "destroyed"}
Row == [seq : Nat, type : Types, state : Nat, id : Ids, op : Ops]
Gaps == {"unrecorded", "repair", "stale_get", "trimmed", "page", "late", "reborn"}

Nothing == [op \in Ops |-> {}]
NoCall == [page |-> {}, more |-> FALSE, last |-> 0, seen |-> 0]
Versions == [Ids -> Nat]

LogInit ==
  /\ counter = [t \in Types |-> 0] /\ rows = {} /\ seq = 0
  /\ cached = [i \in Ids |-> 0]
  /\ todo = [w \in Writers |-> Nothing]
  /\ client = [phase |-> "off", state |-> 0, known |-> cached, dirty |-> {}, call |-> NoCall]
  /\ writes = 0 /\ lost = {} /\ gaps = {} /\ logDrops = 0 /\ repairs = 0

-----------------------------------------------------------------------------
(* Writers *)

Emails == {r \in rows : r.type = "Email"}

(* A writer changes the cache: inserts, changes or removes a message. *)
Change(w, i, op) ==
  /\ writes < MaxWrites
  /\ \A o \in Ops : i \notin todo[w][o]
  /\ (cached[i] = 0) <=> (op = "created")
  /\ writes' = writes + 1
  /\ cached' = [cached EXCEPT ![i] = IF op = "destroyed" THEN 0 ELSE writes + 1]
  /\ todo' = [todo EXCEPT ![w][op] = @ \union {i}]
  /\ UNCHANGED <<storage, client, lost, gaps, logDrops, repairs>>

(* The rows of a batch: one new state, consecutive row numbers. *)
BatchRows(type, number, op) ==
  {[seq |-> seq + number[i], type |-> type, state |-> counter[type] + 1, id |-> i, op |-> op] :
     i \in DOMAIN number}

Keeps(table, last) == {r \in table : r.seq > last - LogRows}

(* Mutant: the rows are inserted for the next state and the counter is never
   raised to it. *)
RecordBatchMut(type, ids, op) ==
  \E number \in {n \in [ids -> 1..Cardinality(ids)] : IsInjective(n)} :
    LET table == rows \union BatchRows(type, number, op)
        last == seq + Cardinality(ids)
    IN /\ seq' = last
       /\ rows' = Keeps(table, last)
       /\ lost' = lost \union {r \in table \ Keeps(table, last) : r.type = "Email"}
       /\ UNCHANGED counter

(* jmap_record_batch: bump, insert, trim over all types. *)
RecordBatch(type, ids, op) ==
  \E number \in {n \in [ids -> 1..Cardinality(ids)] : IsInjective(n)} :
    LET table == rows \union BatchRows(type, number, op)
        last == seq + Cardinality(ids)
    IN /\ seq' = last
       /\ rows' = Keeps(table, last)
       /\ lost' = lost \union {r \in table \ Keeps(table, last) : r.type = "Email"}
       /\ counter' = [counter EXCEPT ![type] = @ + 1]

(* What was inserted is recorded first; destroyed and updated follow in
   either order (the pass and the history sweep differ). *)
Record(w, op) ==
  /\ todo[w][op] # {}
  /\ op # "created" => todo[w]["created"] = {}
  /\ seq + Cardinality(todo[w][op]) <= MaxRows
  /\ RecordBatch("Email", todo[w][op], op)
  /\ todo' = [todo EXCEPT ![w][op] = {}]
  /\ UNCHANGED <<cached, client, writes, gaps, logDrops, repairs>>

(* record_mailbox_diff: a folder was created, renamed or deleted. *)
RecordMailbox(i) ==
  /\ seq + 1 <= MaxRows
  /\ RecordBatch("Mailbox", {i}, "updated")
  /\ UNCHANGED <<cached, todo, client, writes, gaps, logDrops, repairs>>

(* The writer stops before it records: its task is aborted, the process dies,
   or Email/set has moved the message and a later call of the patch fails. *)
DropRecord(w) ==
  /\ logDrops < MaxLogDrops
  /\ todo[w] # Nothing
  /\ logDrops' = logDrops + 1
  /\ todo' = [todo EXCEPT ![w] = Nothing]
  /\ gaps' = gaps \union {"unrecorded"}
  /\ UNCHANGED <<storage, cached, client, writes, lost, repairs>>

(* repair_cache: the cache, the counters and the log are emptied. *)
RepairCache ==
  /\ repairs < MaxRepairs
  /\ repairs' = repairs + 1
  /\ counter' = [t \in Types |-> 0] /\ rows' = {} /\ lost' = {}
  /\ cached' = [i \in Ids |-> 0]
  /\ gaps' = gaps \union {"repair"}
  /\ UNCHANGED <<seq, todo, client, writes, logDrops>>

-----------------------------------------------------------------------------
(* The client *)

(* Email/get, first half: the messages are read. *)
GetRead ==
  /\ client.phase = "off"
  /\ client' = [client EXCEPT !.phase = "get", !.known = cached,
                              !.call = [NoCall EXCEPT !.seen = counter["Email"]]]
  /\ gaps' = {}
  /\ UNCHANGED <<storage, cached, todo, writes, lost, logDrops, repairs>>

(* Email/get, second half: the state is read, after the messages. *)
GetAnswer ==
  /\ client.phase = "get"
  /\ client' = [client EXCEPT !.phase = "idle", !.state = counter["Email"], !.call = NoCall]
  /\ gaps' = IF counter["Email"] > client.call.seen THEN gaps \union {"stale_get"} ELSE gaps
  /\ UNCHANGED <<storage, cached, todo, writes, lost, logDrops, repairs>>

(* Mutant: the client's state is taken for the first one it does not need. *)
SinceMut(since) == {r \in Emails : r.state > since + 1}
Since(since) == {r \in Emails : r.state > since}

TooOld(since) == Emails # {} /\ \A r \in Emails : since < r.state - 1

PageOf(found) == {r \in found : Cardinality({q \in found : q.seq <= r.seq}) <= PageRows}

LastStates(page) == {r.state : r \in {q \in page : \A p \in page : p.seq <= q.seq}}

(* Email/changes, first half: jmap_changes_since refuses a state before the
   oldest row, whereupon the client loads everything anew ... *)
ChangesRefused ==
  /\ client.phase = "idle"
  /\ TooOld(client.state)
  /\ client' = [client EXCEPT !.phase = "off"]
  /\ UNCHANGED <<storage, cached, todo, writes, lost, gaps, logDrops, repairs>>

(* ... or reads a page of rows, and the state of the last one if there is more. *)
ChangesRead ==
  /\ client.phase = "idle"
  /\ ~TooOld(client.state)
  /\ LET found == Since(client.state)
         page == PageOf(found)
         more == page # found
     IN \E last \in IF more THEN LastStates(page) ELSE {counter["Email"]} :
          /\ client' = [client EXCEPT !.phase = "changes",
                 !.call = [page |-> page, more |-> more, last |-> last,
                           seen |-> counter["Email"]]]
          /\ gaps' = gaps \union
               (IF \E r \in lost : r.state > client.state THEN {"trimmed"} ELSE {}) \union
               (IF \E r \in found \ page : r.state <= last THEN {"page"} ELSE {})
  /\ UNCHANGED <<storage, cached, todo, writes, lost, logDrops, repairs>>

Destroyed(page) == {r.id : r \in {q \in page : q.op = "destroyed"}}

(* Email/changes, second half: partition_ops, where a destroyed row wins over
   every other row of its message, and the new state, which is the counter as
   it is by now unless there is more to fetch. *)
ChangesAnswer ==
  /\ client.phase = "changes"
  /\ LET call == client.call
         gone == Destroyed(call.page)
         dirty == {r.id : r \in call.page} \ gone
     IN /\ client' = [client EXCEPT
             !.phase = IF dirty = {} THEN "idle" ELSE "fetch",
             !.state = IF call.more THEN call.last ELSE counter["Email"],
             !.known = [i \in Ids |-> IF i \in gone THEN 0 ELSE @[i]],
             !.dirty = dirty, !.call = NoCall]
        /\ gaps' = gaps \union
             (IF ~call.more /\ counter["Email"] > call.seen THEN {"late"} ELSE {}) \union
             (IF \E i \in gone : cached[i] # 0 THEN {"reborn"} ELSE {})
  /\ UNCHANGED <<storage, cached, todo, writes, lost, logDrops, repairs>>

(* Email/get of what was reported created or updated. *)
Fetch ==
  /\ client.phase = "fetch"
  /\ client' = [client EXCEPT !.phase = "idle", !.dirty = {},
        !.known = [i \in Ids |-> IF i \in client.dirty THEN cached[i] ELSE @[i]]]
  /\ UNCHANGED <<storage, cached, todo, writes, lost, gaps, logDrops, repairs>>

LogNext ==
  \/ \E w \in Writers, i \in Ids, op \in Ops : Change(w, i, op)
  \/ \E w \in Writers, op \in Ops : Record(w, op)
  \/ \E i \in Ids : RecordMailbox(i)
  \/ \E w \in Writers : DropRecord(w)
  \/ RepairCache
  \/ GetRead \/ GetAnswer \/ ChangesRefused \/ ChangesRead \/ ChangesAnswer \/ Fetch

LogSpec == LogInit /\ [][LogNext]_logVars

-----------------------------------------------------------------------------
(* Properties *)

Call == [page : SUBSET Row, more : BOOLEAN, last : Nat, seen : Nat]
Client == [phase : {"off", "get", "idle", "changes", "fetch"}, state : Nat,
           known : Versions, dirty : SUBSET Ids, call : Call]

(* The tables hold rows of known types and operations, row numbers do not
   exceed the last one and no row is of a state its type has not reached. *)
LogTypeOK ==
  /\ counter \in [Types -> Nat] /\ rows \subseteq Row /\ seq \in Nat
  /\ cached \in Versions /\ todo \in [Writers -> [Ops -> SUBSET Ids]]
  /\ client \in Client /\ lost \subseteq Row /\ gaps \subseteq Gaps
  /\ writes \in Nat /\ logDrops \in Nat /\ repairs \in Nat
  /\ \A r \in rows : r.seq <= seq /\ r.state <= counter[r.type]

(* A client that has everything Aster Bridge says there is: its state is the
   current one, no call is under way and nothing waits to be recorded. *)
Settled ==
  /\ client.phase = "idle" /\ client.state = counter["Email"]
  /\ \A w \in Writers : todo[w] = Nothing

(* A settled client knows the cache as it is, unless it met one of the gaps by
   name: a change that was never recorded, a repair, Email/get or Email/changes
   overtaken between their two reads, rows trimmed before it asked, a page that
   ended inside a batch, a message reported destroyed that exists again.
   (jmap_record_batch, jmap_changes_since, email.rs get and changes.) *)
MissesOnlyByNamedGaps == Settled /\ gaps = {} => client.known = cached
=============================================================================
