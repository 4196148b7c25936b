----------------------------- MODULE MailboxView ----------------------------
(***************************************************************************)
(* The mailbox an IMAP client sees.                                        *)
(*                                                                         *)
(* The cache keeps a row per message (message_cache: the folder, whether   *)
(* the body is there, the flag \Deleted) and, apart from it, the UIDs      *)
(* (uid_map, and the persisted next UID of each folder).  A session keeps  *)
(* the UIDs it has announced, in the order of their sequence numbers, and  *)
(* reads the cache afresh for every command: a sequence number means the   *)
(* message that has, at that moment, the UID at that position.  Sessions,  *)
(* the sync pass and other mail clients change the same rows in between;   *)
(* a call of Database is one atomic step (it holds the connection lock),   *)
(* two calls are two steps, and a call of the account's server is a step.  *)
(***************************************************************************)
EXTENDS Naturals, FiniteSets, Sequences, SequencesExt, FiniteSetsExt

CONSTANTS
  Msgs,     (* messages that are, or may come to be, in the account        *)
  Stored,   (* those in the inbox, and synced, at the start                *)
  Sessions, (* IMAP connections                                            *)
  Inbox,    (* a folder from which expunging moves a message to Trash      *)
  Trash,    (* a folder from which expunging deletes it                    *)
  None,     (* no folder                                                   *)
  MaxOps    (* how often messages arrive, move, or are numbered anew       *)

Folders == {Inbox, Trash}

ASSUME StoredAssumption == Stored \subseteq Msgs /\ IsFiniteSet(Msgs)
ASSUME FoldersAssumption == Inbox # Trash /\ None \notin Folders
ASSUME MaxOpsAssumption == MaxOps \in Nat

VARIABLES
  srv,      \* the account's server: the folder of each message, "unborn", "gone"
  folder,   \* message_cache.folder, None when there is no row
  body,     \* message_cache.body_cached
  deleted,  \* the flag \Deleted of the row
  uid,      \* uid_map: the UID of a message in a folder, 0 without a row
  uidnext,  \* sync_state "uidnext:<folder>"
  validity, \* sync_state "uid_validity": grows each time it is made anew
  sync,     \* the sync pass: the UID it has yet to assign
  dirty,    \* the pass has inserted, updated or destroyed something
  conn,     \* ImapConnection of each session
  names,    \* what the client makes of the lines it was sent: the message
            \* at each sequence number
  cmd,      \* the command a session is carrying out
  bell,     \* an Email change waits in the receiver of an IDLE session
  left      \* how many of MaxOps are left

cache == <<folder, body, deleted>>
numbers == <<uid, uidnext, validity>>
vars == <<srv, folder, body, deleted, uid, uidnext, validity, sync, dirty,
          conn, names, cmd, bell, left>>

Resting == [op |-> "none", dest |-> None, targets |-> <<>>, done |-> <<>>, flag |-> FALSE]
NoSync == [msg |-> None, into |-> None]

Target == [uid : Nat, msg : Msgs]
Ops == {"none", "store", "expunge", "close", "move", "moved", "append", "copy",
        "upserted", "assigned", "subscribe", "idle"}

InitWith(stored, ops) ==
  LET order == SetToSeq(stored)
      number == [m \in stored |-> CHOOSE i \in DOMAIN order : order[i] = m]
  IN /\ srv = [m \in Msgs |-> IF m \in stored THEN Inbox ELSE "unborn"]
     /\ folder = [m \in Msgs |-> IF m \in stored THEN Inbox ELSE None]
     /\ body = [m \in Msgs |-> m \in stored]
     /\ deleted = [m \in Msgs |-> FALSE]
     /\ uid = [m \in Msgs |-> [f \in Folders |->
                 IF m \in stored /\ f = Inbox THEN number[m] ELSE 0]]
     /\ uidnext = [f \in Folders |-> IF f = Inbox THEN Cardinality(stored) + 1 ELSE 1]
     /\ validity = 1
     /\ sync = NoSync /\ dirty = FALSE
     /\ conn = [s \in Sessions |-> [folder |-> None, ro |-> FALSE, uids |-> <<>>,
                                    valid |-> 0, copied |-> {}]]
     /\ names = [s \in Sessions |-> <<>>]
     /\ cmd = [s \in Sessions |-> Resting]
     /\ bell = [s \in Sessions |-> FALSE]
     /\ left = ops

Init == InitWith(Stored, MaxOps)

Spend == left > 0 /\ left' = left - 1

(***************************************************************************)
(* The tables.                                                             *)
(***************************************************************************)
Rows(f) == {m \in Msgs : folder[m] = f}

\* messages by their UID in f; one without a UID comes first, with UID 0
ByUid(ms, f) ==
  CHOOSE q \in [1..Cardinality(ms) -> ms] :
    \A i, j \in DOMAIN q : i < j => q[i] # q[j] /\ uid[q[i]][f] <= uid[q[j]][f]

\* list_cached_message_meta
Listing(f) == ByUid(Rows(f), f)

\* the positions P in ascending order
InOrder(P) ==
  CHOOSE q \in [1..Cardinality(P) -> P] : \A i, j \in DOMAIN q : i < j => q[i] < q[j]

\* the messages that hold UID u of folder f in uid_map
Holders(u, f) == {m \in Msgs : u # 0 /\ uid[m][f] = u}

(* Mutant: the UID of an expunged message is given again.                  *)
NextUidOfMap(persisted, highest) == highest + 1
NextUid(persisted, highest) == Max({persisted, highest + 1})

\* assign_uid_if_missing on the tables t
Number(t, f, m) ==
  IF t.uid[m][f] # 0 THEN t
  ELSE LET next == NextUid(t.next[f], Max({t.uid[x][f] : x \in Msgs}))
       IN [uid |-> [t.uid EXCEPT ![m][f] = next],
           next |-> [t.next EXCEPT ![f] = next + 1]]

\* for each message of ms in turn
AssignUids(f, ms, cleared) ==
  LET after[k \in 0..Len(ms)] ==
        IF k = 0 THEN [uid |-> cleared, next |-> uidnext]
        ELSE Number(after[k - 1], f, ms[k])
  IN uid' = after[Len(ms)].uid /\ uidnext' = after[Len(ms)].next

\* delete_message_by_aster_id for every message of ms
Forget(ms) ==
  /\ folder' = [m \in Msgs |-> IF m \in ms THEN None ELSE folder[m]]
  /\ body' = [m \in Msgs |-> m \notin ms /\ body[m]]
  /\ deleted' = [m \in Msgs |-> m \notin ms /\ deleted[m]]

\* cache_mail_item, before the UID: the row of a message whose body is cached
\* follows it to folder f, and its UIDs elsewhere go; any other row is
\* inserted, or takes folder and body without touching uid_map
CacheItem(m, f) ==
  /\ folder' = [folder EXCEPT ![m] = f]
  /\ body' = [body EXCEPT ![m] = TRUE]
  /\ uid' = IF body[m] /\ folder[m] # f
            THEN [uid EXCEPT ![m] = [g \in Folders |-> IF g = f THEN uid[m][g] ELSE 0]]
            ELSE uid

NoMapping == [f \in Folders |-> 0]

(***************************************************************************)
(* What a session tells its client.                                        *)
(***************************************************************************)
UidsOf(ms, f) == [i \in DOMAIN ms |-> uid[ms[i]][f]]

(* Mutant: a line does not count those before it.                          *)
ExpungeLinesUnshifted(uids, present) ==
  InOrder({i \in DOMAIN uids : uids[i] \notin present})

\* the numbers of the EXPUNGE lines for the UIDs that are no longer present
ExpungeLines(uids, present) ==
  LET gone == InOrder({i \in DOMAIN uids : uids[i] \notin present})
  IN [k \in DOMAIN gone |-> gone[k] - (k - 1)]

\* the client renumbers at each EXPUNGE line
Heard(list, lines) ==
  LET heard[k \in 0..Len(lines)] ==
        IF k = 0 THEN list ELSE RemoveAt(heard[k - 1], lines[k])
  IN heard[Len(lines)]

Kept(known, present, expunge) ==
  LET stay == InOrder({i \in DOMAIN known : known[i] \in present})
  IN IF expunge THEN [k \in DOMAIN stay |-> known[stay[k]]] ELSE known

\* report_mailbox_changes, from the rows the folder has now; copied is what
\* the command adds to copied_out
ReportAfter(s, expunge, copied) ==
  LET f == conn[s].folder
      known == conn[s].uids
      present == {uid[m][f] : m \in Rows(f)}
      lines == IF expunge THEN ExpungeLines(known, present) ELSE <<>>
      kept == Kept(known, present, expunge)
      new == ByUid({m \in Rows(f) : uid[m][f] \notin Range(kept)}, f)
  IN /\ conn' = [conn EXCEPT ![s].uids = kept \o UidsOf(new, f),
                             ![s].copied = conn[s].copied \cup copied]
     /\ names' = [names EXCEPT ![s] = Heard(names[s], lines) \o new]

\* sync_selected: nothing outside a selected mailbox
Report(s, expunge) ==
  IF conn[s].folder = None THEN UNCHANGED <<conn, names>> ELSE ReportAfter(s, expunge, {})

\* ImapConnection::expunged: the UID's first position goes, here and, by the
\* EXPUNGE line, at the client
Drop(view, u) ==
  LET at == {i \in DOMAIN view.uids : view.uids[i] = u}
  IN IF at = {} THEN view
     ELSE [uids |-> RemoveAt(view.uids, Min(at)), names |-> RemoveAt(view.names, Min(at))]

\* for each UID in turn
ExpungeUids(s, uids) ==
  LET after[k \in 0..Len(uids)] ==
        IF k = 0 THEN [uids |-> conn[s].uids, names |-> names[s]]
        ELSE Drop(after[k - 1], uids[k])
  IN /\ conn' = [conn EXCEPT ![s].uids = after[Len(uids)].uids]
     /\ names' = [names EXCEPT ![s] = after[Len(uids)].names]

\* MailboxView: the message a sequence number means now, if any.  Of two
\* rows with one UID (both 0) the map keeps the later.
MsgAt(s, i) ==
  LET f == conn[s].folder
      rows == Listing(f)
      hits == {k \in DOMAIN rows : uid[rows[k]][f] = conn[s].uids[i]}
  IN IF hits = {} THEN None ELSE rows[Max(hits)]

(* Mutant: a number without a row is not left out.                         *)
VisibleOrNot(s) == DOMAIN conn[s].uids
Visible(s) == {i \in DOMAIN conn[s].uids : MsgAt(s, i) # None}

TargetsAt(s, is) ==
  LET order == InOrder(is)
  IN [k \in DOMAIN order |-> [uid |-> conn[s].uids[order[k]], msg |-> MsgAt(s, order[k])]]

\* messages of folder f, by UID, as targets
TargetsIn(ms, f) ==
  LET order == ByUid(ms, f)
  IN [k \in DOMAIN order |-> [uid |-> uid[order[k]][f], msg |-> order[k]]]

Rests(s) == cmd[s].op = "none"
Selected(s) == Rests(s) /\ conn[s].folder # None
Writable(s) == Selected(s) /\ ~conn[s].ro
Begins(s, command) == cmd' = [cmd EXCEPT ![s] = command]
Ends(s) == Begins(s, Resting)

\* every IDLE session that has subscribed gets an Email change
Ring == bell' = [s \in Sessions |-> bell[s] \/ cmd[s].op = "idle"]

(***************************************************************************)
(* The account's server, and the mail clients that are not this bridge.    *)
(***************************************************************************)
Arrive(m) ==
  /\ srv[m] = "unborn" /\ Spend
  /\ srv' = [srv EXCEPT ![m] = Inbox]
  /\ UNCHANGED <<cache, numbers, sync, dirty, conn, names, cmd, bell>>

MovedElsewhere(m, f) ==
  /\ srv[m] \in Folders \ {f} /\ Spend
  /\ srv' = [srv EXCEPT ![m] = f]
  /\ UNCHANGED <<cache, numbers, sync, dirty, conn, names, cmd, bell>>

DeletedElsewhere(m) ==
  /\ srv[m] \in Folders /\ Spend
  /\ srv' = [srv EXCEPT ![m] = "gone"]
  /\ UNCHANGED <<cache, numbers, sync, dirty, conn, names, cmd, bell>>

(***************************************************************************)
(* The sync pass.                                                          *)
(***************************************************************************)
(* Mutant: a cached body is all that is looked at.                         *)
UnchangedBody(m) == body[m]
\* cached_shortcut: the row already says what the server says
Unchanged(m) == body[m] /\ folder[m] = srv[m] /\ uid[m][srv[m]] # 0

\* prepare_mail_item of a message whose body is cached; this is neither an
\* insertion nor an update to be announced
SyncFolder(m) ==
  /\ sync = NoSync /\ srv[m] \in Folders /\ ~Unchanged(m) /\ body[m]
  /\ CacheItem(m, srv[m])
  /\ sync' = [msg |-> m, into |-> srv[m]]
  /\ UNCHANGED <<srv, deleted, uidnext, validity, dirty, conn, names, cmd, bell, left>>

\* commit_mail_item of any other message
SyncUpsert(m) ==
  /\ sync = NoSync /\ srv[m] \in Folders /\ ~body[m]
  /\ CacheItem(m, srv[m])
  /\ dirty' = (dirty \/ folder[m] = None)
  /\ sync' = [msg |-> m, into |-> srv[m]]
  /\ UNCHANGED <<srv, deleted, uidnext, validity, conn, names, cmd, bell, left>>

\* a message whose headers or attachments were completed gets a new UID, so
\* that clients fetch it again: its UID goes, and one is assigned
SyncRenumber(m) ==
  /\ sync = NoSync /\ srv[m] \in Folders /\ Unchanged(m) /\ Spend
  /\ uid' = [uid EXCEPT ![m][folder[m]] = 0]
  /\ dirty' = TRUE
  /\ sync' = [msg |-> m, into |-> folder[m]]
  /\ UNCHANGED <<srv, cache, uidnext, validity, conn, names, cmd, bell>>

SyncAssign ==
  /\ sync # NoSync
  /\ AssignUids(sync.into, <<sync.msg>>, uid)
  /\ sync' = NoSync
  /\ UNCHANGED <<srv, cache, validity, dirty, conn, names, cmd, bell, left>>

\* the end of a deep pass: what the server no longer has is removed
SyncPrune(m) ==
  /\ sync = NoSync /\ folder[m] # None /\ srv[m] = "gone"
  /\ Forget({m})
  /\ uid' = [uid EXCEPT ![m] = NoMapping]
  /\ dirty' = TRUE
  /\ UNCHANGED <<srv, uidnext, validity, sync, conn, names, cmd, bell, left>>

\* the broadcast that ends a pass that changed something
SyncAnnounce ==
  /\ sync = NoSync /\ dirty
  /\ dirty' = FALSE
  /\ Ring
  /\ UNCHANGED <<srv, cache, numbers, sync, conn, names, cmd, left>>

\* backfill_missing_message_ids: bodies are to be fetched again
Recache(m) ==
  /\ sync = NoSync /\ body[m] /\ Spend
  /\ body' = [body EXCEPT ![m] = FALSE]
  /\ UNCHANGED <<srv, folder, deleted, numbers, sync, dirty, conn, names, cmd, bell>>

NewValidity == validity + 1

\* repair_cache: rows, UIDs, next UIDs and UIDVALIDITY all go; connections stay
Repair ==
  /\ Spend
  /\ Forget(Msgs)
  /\ uid' = [m \in Msgs |-> NoMapping]
  /\ uidnext' = [f \in Folders |-> 1]
  /\ validity' = NewValidity
  /\ UNCHANGED <<srv, sync, dirty, conn, names, cmd, bell>>

(***************************************************************************)
(* The commands of a session.                                              *)
(***************************************************************************)
\* SELECT and EXAMINE
Select(s, f, ro) ==
  /\ Rests(s)
  /\ conn' = [conn EXCEPT ![s].folder = f, ![s].ro = ro, ![s].valid = validity,
                          ![s].uids = UidsOf(Listing(f), f)]
  /\ names' = [names EXCEPT ![s] = Listing(f)]
  /\ UNCHANGED <<srv, cache, numbers, sync, dirty, cmd, bell, left>>

Leave(s, ro) ==
  /\ conn' = [conn EXCEPT ![s].folder = None, ![s].uids = <<>>, ![s].ro = ro]
  /\ names' = [names EXCEPT ![s] = <<>>]

Unselect(s) ==
  /\ Selected(s)
  /\ Leave(s, conn[s].ro)
  /\ UNCHANGED <<srv, cache, numbers, sync, dirty, cmd, bell, left>>

\* NOOP and CHECK, and what every UID command does first
Noop(s) ==
  /\ Selected(s)
  /\ Report(s, TRUE)
  /\ UNCHANGED <<srv, cache, numbers, sync, dirty, cmd, bell, left>>

\* STORE: which message the number means, and its flags, are read from the
\* rows; keywords go to the server; and all flags are written by UID.  A STORE
\* of other flags so writes \Deleted as it was read.
Store(s) ==
  /\ Writable(s)
  /\ \E i \in Visible(s), set \in BOOLEAN :
       Begins(s, [op |-> "store", dest |-> conn[s].folder, targets |-> TargetsAt(s, {i}),
                  done |-> <<>>, flag |-> set])
  /\ UNCHANGED <<srv, cache, numbers, sync, dirty, conn, names, bell, left>>

\* update_message_flags: the row that holds the UID in uid_map now
StoreWrite(s) ==
  /\ cmd[s].op = "store"
  /\ LET hit == Holders(Head(cmd[s].targets).uid, cmd[s].dest)
     IN deleted' = [m \in Msgs |-> IF m \in hit /\ folder[m] # None
                                   THEN cmd[s].flag ELSE deleted[m]]
  /\ Ends(s)
  /\ UNCHANGED <<srv, folder, body, numbers, sync, dirty, conn, names, bell, left>>

\* EXPUNGE (all that is marked) and UID EXPUNGE (those it names), after a sync
Expunge(s) ==
  /\ Writable(s)
  /\ Report(s, TRUE)
  /\ LET f == conn[s].folder
     IN \E named \in SUBSET {m \in Rows(f) : deleted[m]} :
          Begins(s, [op |-> "expunge", dest |-> f, targets |-> TargetsIn(named, f),
                     done |-> <<>>, flag |-> FALSE])
  /\ UNCHANGED <<srv, cache, numbers, sync, dirty, bell, left>>

\* CLOSE expunges all that is marked, without a word, unless read-only
Close(s) ==
  /\ Selected(s)
  /\ LET f == conn[s].folder
         ms == IF conn[s].ro THEN {} ELSE {m \in Rows(f) : deleted[m]}
     IN Begins(s, [op |-> "close", dest |-> f, targets |-> TargetsIn(ms, f),
                   done |-> <<>>, flag |-> FALSE])
  /\ UNCHANGED <<srv, cache, numbers, sync, dirty, conn, names, bell, left>>

\* expunge_on_server, a target at a time: to Trash, or for good from Trash
\* and when the session has copied the message elsewhere.  A message the
\* server does not have counts as done; a failed call skips the target.
ExpungeServer(s) ==
  LET t == Head(cmd[s].targets)
      for_good == cmd[s].dest = Trash \/ t.msg \in conn[s].copied
      rest == [cmd[s] EXCEPT !.targets = Tail(@)]
  IN /\ cmd[s].op \in {"expunge", "close"} /\ cmd[s].targets # <<>>
     /\ \/ /\ srv' = [srv EXCEPT ![t.msg] = IF @ \notin Folders THEN @
                                            ELSE IF for_good THEN "gone" ELSE Trash]
           /\ Begins(s, [rest EXCEPT !.done = Append(@, t)])
        \/ UNCHANGED srv /\ Begins(s, rest)
     /\ UNCHANGED <<cache, numbers, sync, dirty, conn, names, bell, left>>

\* delete_message_by_uid: the rows that hold the UIDs now
(* Mutant: whatever is marked by then.                                     *)
RemovedMarked(s) == {m \in Msgs : folder[m] = cmd[s].dest /\ deleted[m]}
Removed(s) == UNION {Holders(t.uid, cmd[s].dest) : t \in Range(cmd[s].done)}

\* the rows go, in one batch, and the client is told
ExpungeCommit(s) ==
  LET f == cmd[s].dest
      uids == [k \in DOMAIN cmd[s].done |-> cmd[s].done[k].uid]
      hit == Removed(s)
  IN /\ cmd[s].op \in {"expunge", "close"} /\ cmd[s].targets = <<>>
     /\ Forget(hit)
     /\ uid' = [m \in Msgs |-> IF m \in hit THEN [uid[m] EXCEPT ![f] = 0] ELSE uid[m]]
     /\ IF cmd[s].op = "close" THEN Leave(s, FALSE) ELSE ExpungeUids(s, uids)
     /\ Ends(s)
     /\ UNCHANGED <<srv, uidnext, validity, sync, dirty, bell, left>>

\* MOVE: the messages the set means are read from the rows
Move(s) ==
  /\ Writable(s) /\ Spend
  /\ \E is \in SUBSET Visible(s) \ {{}}, f \in Folders \ {conn[s].folder} :
       Begins(s, [op |-> "move", dest |-> f, targets |-> TargetsAt(s, is),
                  done |-> <<>>, flag |-> FALSE])
  /\ UNCHANGED <<srv, cache, numbers, sync, dirty, conn, names, bell>>

\* the server moves them all; if it does not, some may have moved, and the
\* client gets NO with nothing changed here
MoveServer(s) ==
  LET ms == {t.msg : t \in Range(cmd[s].targets)}
      there == {m \in ms : srv[m] \in Folders}
  IN /\ cmd[s].op = "move"
     /\ \/ /\ there = ms
           /\ srv' = [m \in Msgs |-> IF m \in ms THEN cmd[s].dest ELSE srv[m]]
           /\ Begins(s, [cmd[s] EXCEPT !.op = "moved"])
        \/ /\ \E some \in SUBSET there :
                srv' = [m \in Msgs |-> IF m \in some THEN cmd[s].dest ELSE srv[m]]
           /\ Ends(s)
     /\ UNCHANGED <<cache, numbers, sync, dirty, conn, names, bell, left>>

\* one batch: rows moved (one that is gone comes back without its body), the
\* UIDs they were read under dropped, UIDs in the target assigned
MoveCommit(s) ==
  LET f == conn[s].folder
      ts == cmd[s].targets
      ms == [k \in DOMAIN ts |-> ts[k].msg]
      uids == [k \in DOMAIN ts |-> ts[k].uid]
  IN /\ cmd[s].op = "moved"
     /\ folder' = [m \in Msgs |-> IF m \in Range(ms) THEN cmd[s].dest ELSE folder[m]]
     /\ AssignUids(cmd[s].dest, ms,
          [m \in Msgs |-> [uid[m] EXCEPT ![f] = IF @ \in Range(uids) THEN 0 ELSE @]])
     /\ ExpungeUids(s, uids)
     /\ Ends(s)
     /\ UNCHANGED <<srv, body, deleted, validity, sync, dirty, bell, left>>

\* APPEND, and COPY of a message, once the server has stored the new one
AppendServer(s, m, f) ==
  /\ Rests(s) /\ srv[m] = "unborn" /\ Spend
  /\ srv' = [srv EXCEPT ![m] = f]
  /\ \/ Begins(s, [op |-> "append", dest |-> f, targets |-> <<[uid |-> 0, msg |-> m]>>,
                   done |-> <<>>, flag |-> TRUE])
     \/ \E i \in Visible(s), is_uid \in BOOLEAN :
          Begins(s, [op |-> "append", dest |-> f, targets |-> <<[uid |-> 0, msg |-> m]>>,
                     done |-> TargetsAt(s, {i}), flag |-> is_uid])
  /\ UNCHANGED <<cache, numbers, sync, dirty, conn, names, bell>>

AppendUpsert(s) ==
  /\ cmd[s].op = "append"
  /\ CacheItem(cmd[s].targets[1].msg, cmd[s].dest)
  /\ Begins(s, [cmd[s] EXCEPT !.op = "upserted"])
  /\ UNCHANGED <<srv, deleted, uidnext, validity, sync, dirty, conn, names, bell, left>>

AppendAssign(s) ==
  /\ cmd[s].op = "upserted"
  /\ AssignUids(cmd[s].dest, <<cmd[s].targets[1].msg>>, uid)
  /\ Begins(s, [cmd[s] EXCEPT !.op = "assigned"])
  /\ UNCHANGED <<srv, cache, validity, sync, dirty, conn, names, bell, left>>

\* the change is announced, and the session told if it looks at that folder;
\* the sources of a COPY are remembered
AppendFinish(s) ==
  LET copied == {t.msg : t \in Range(cmd[s].done)}
  IN /\ cmd[s].op = "assigned"
     /\ Ring
     /\ IF conn[s].folder = cmd[s].dest
        THEN ReportAfter(s, cmd[s].flag, copied)
        ELSE conn' = [conn EXCEPT ![s].copied = @ \cup copied] /\ UNCHANGED names
     /\ Ends(s)
     /\ UNCHANGED <<srv, cache, numbers, sync, dirty, left>>

\* IDLE reports what is there, and subscribes after that
Idle(s) ==
  /\ Rests(s)
  /\ Report(s, TRUE)
  /\ Begins(s, [Resting EXCEPT !.op = "subscribe"])
  /\ UNCHANGED <<srv, cache, numbers, sync, dirty, bell, left>>

IdleSubscribe(s) ==
  /\ cmd[s].op = "subscribe"
  /\ Begins(s, [Resting EXCEPT !.op = "idle"])
  /\ bell' = [bell EXCEPT ![s] = FALSE]
  /\ UNCHANGED <<srv, cache, numbers, sync, dirty, conn, names, left>>

\* an Email change, or having missed some, makes it report again
IdleWake(s) ==
  /\ cmd[s].op = "idle" /\ bell[s]
  /\ bell' = [bell EXCEPT ![s] = FALSE]
  /\ Report(s, TRUE)
  /\ UNCHANGED <<srv, cache, numbers, sync, dirty, cmd, left>>

\* DONE
IdleDone(s) ==
  /\ cmd[s].op = "idle"
  /\ Ends(s)
  /\ bell' = [bell EXCEPT ![s] = FALSE]
  /\ UNCHANGED <<srv, cache, numbers, sync, dirty, conn, names, left>>

Elsewhere(m) ==
  \/ Arrive(m)
  \/ \E f \in Folders : MovedElsewhere(m, f)
  \/ DeletedElsewhere(m)

SyncPass(m) == SyncFolder(m) \/ SyncUpsert(m) \/ SyncPrune(m)

Session(s) ==
  \/ \E f \in Folders, ro \in BOOLEAN : Select(s, f, ro)
  \/ Unselect(s) \/ Noop(s) \/ Store(s) \/ Expunge(s) \/ Close(s) \/ Move(s)
  \/ \E m \in Msgs, f \in Folders : AppendServer(s, m, f)
  \/ Idle(s) \/ IdleDone(s)

\* what the bridge does of itself once a command has begun
Proceed(s) ==
  \/ StoreWrite(s) \/ ExpungeServer(s) \/ ExpungeCommit(s) \/ MoveServer(s)
  \/ MoveCommit(s) \/ AppendUpsert(s) \/ AppendAssign(s) \/ AppendFinish(s)
  \/ IdleSubscribe(s) \/ IdleWake(s)

NextOf(sessions) ==
  \/ \E m \in Msgs : Elsewhere(m) \/ SyncPass(m) \/ SyncRenumber(m) \/ Recache(m)
  \/ SyncAssign \/ SyncAnnounce \/ Repair
  \/ \E s \in sessions : Session(s) \/ Proceed(s)

Next == NextOf(Sessions)

Spec == Init /\ [][Next]_vars

\* Passes repeat, each goes over the whole account and ends; a command that
\* has begun goes on; a client with a mailbox open asks now and then.
MailFairness ==
  /\ \A m \in Msgs : SF_vars(SyncPass(m))
  /\ WF_vars(SyncAssign) /\ SF_vars(SyncAnnounce)
  /\ \A s \in Sessions : WF_vars(Proceed(s)) /\ SF_vars(Noop(s))

FairSpec == Spec /\ MailFairness

----------------------------------------------------------------------------
TypeOK ==
  /\ srv \in [Msgs -> Folders \cup {"unborn", "gone"}]
  /\ folder \in [Msgs -> Folders \cup {None}]
  /\ body \in [Msgs -> BOOLEAN] /\ deleted \in [Msgs -> BOOLEAN]
  /\ uid \in [Msgs -> [Folders -> Nat]]
  /\ uidnext \in [Folders -> Nat] /\ validity \in Nat
  /\ sync \in [msg : Msgs \cup {None}, into : Folders \cup {None}]
  /\ dirty \in BOOLEAN
  /\ conn \in [Sessions -> [folder : Folders \cup {None}, ro : BOOLEAN, uids : Seq(Nat),
                            valid : Nat, copied : SUBSET Msgs]]
  /\ names \in [Sessions -> Seq(Msgs)]
  /\ cmd \in [Sessions -> [op : Ops, dest : Folders \cup {None}, targets : Seq(Target),
                           done : Seq(Target), flag : BOOLEAN]]
  /\ bell \in [Sessions -> BOOLEAN]
  /\ left \in 0..MaxOps

(***************************************************************************)
(* The numbers the client counts and the UIDs the session keeps do not     *)
(* come apart: whatever the sessions, the pass and other clients did in    *)
(* between, a number for which the session holds a UID means, to the       *)
(* client, the message that has this UID in the cache, if one has it.  A   *)
(* command by number so never reaches another message.  (UID 0 stands for  *)
(* a row that was listed before it was numbered; a rebuilt cache counts    *)
(* UIDs afresh, under another UIDVALIDITY.)                                *)
(***************************************************************************)
SeqNamesMessage ==
  \A s \in Sessions :
    /\ Len(names[s]) = Len(conn[s].uids)
    /\ conn[s].folder # None /\ conn[s].valid = validity =>
         \A i \in DOMAIN conn[s].uids :
           \A m \in Holders(conn[s].uids[i], conn[s].folder) : names[s][i] = m

\* UIDs are not shared and not used twice: two messages of a folder have
\* different ones, and all that were given, or told to a session that is
\* still open under this UIDVALIDITY, lie below the next
NumberingSound ==
  /\ \A f \in Folders, m, n \in Msgs :
       uid[m][f] # 0 => uid[m][f] < uidnext[f] /\ (m # n => uid[m][f] # uid[n][f])
  /\ \A s \in Sessions :
       conn[s].folder # None /\ conn[s].valid = validity =>
         \A i \in DOMAIN conn[s].uids : conn[s].uids[i] < uidnext[conn[s].folder]

\* the messages the command of a session is about
Concerned(s) == {t.msg : t \in Range(cmd[s].targets \o cmd[s].done)}

\* A command that waited for the server writes by UID what it read before:
\* it still removes, moves and marks the messages it read, and no other.
TouchesOnlyTargets ==
  [][\A s \in Sessions :
       cmd[s].op \in {"store", "expunge", "close", "moved"} /\ cmd'[s].op = "none"
         /\ conn[s].valid = validity /\ conn[s].folder # None =>
       \A m \in Msgs \ Concerned(s) :
         folder'[m] = folder[m] /\ deleted'[m] = deleted[m] /\ uid'[m] = uid[m]]_vars

\* With a mailbox open and a client that asks, the client comes to see what
\* the server has in it, however the change got there.  (Not after a repair
\* of the cache: see NoRenumber.)
ViewsSettle ==
  \A s \in Sessions :
    []<>(\/ conn[s].folder = None \/ conn[s].valid # validity
         \/ cmd[s].op \in {"subscribe", "idle"}
         \/ Range(names[s]) = {m \in Msgs : srv[m] = conn[s].folder})

\* A client that listens in IDLE hears of a message that another client has
\* moved out of the mailbox.
MovesReachIdle ==
  \A s \in Sessions, m \in Msgs, f \in Folders :
    [](conn[s].folder = f /\ m \in Range(names[s]) /\ srv[m] \in Folders \ {f}
         => <>(cmd[s].op # "idle" \/ conn[s].folder # f
                \/ m \notin Range(names[s]) \/ srv[m] = f))

\* The number of a message changes only when the client is told: it keeps
\* meaning the message the client has there.
NoRenumber ==
  \A s \in Sessions : conn[s].folder # None =>
    \A i \in DOMAIN conn[s].uids :
      \A m \in Holders(conn[s].uids[i], conn[s].folder) : names[s][i] = m
=============================================================================
