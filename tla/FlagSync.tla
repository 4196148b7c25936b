------------------------------ MODULE FlagSync ------------------------------
(***************************************************************************)
(* Read marks and stars of one message, kept the same here and at Aster.   *)
(*                                                                         *)
(* A mail app changes flags over IMAP (STORE, or a FETCH that marks a      *)
(* message read) or JMAP (Email/set).  IMAP changes go to the local cache, *)
(* then into the table pending_flag_push, and a task pushes them to the    *)
(* Aster API.  The sync pass pushes again what is still pending, and       *)
(* copies the flags of Aster's listing into the cache, except those that   *)
(* are pending.  Every database call is atomic; everything between two of  *)
(* them interleaves.                                                       *)
(*                                                                         *)
(* Messages are independent of each other in all of this, so one message   *)
(* stands for all.  Flags that are not pushed (\Answered, \Deleted) are    *)
(* left out.                                                               *)
(***************************************************************************)
EXTENDS Naturals

CONSTANTS
  Flags,        (* the flags flag_field knows, as a set of numbers         *)
  Conns,        (* IMAP connections                                        *)
  JmapClients,  (* JMAP requests that may run                              *)
  Slots,        (* bound: push tasks alive at a time, a set of numbers     *)
  Poller,       (* the sync pass, as a pusher of pending rows              *)
  PushRetries,  (* READ_STATUS_RATE_LIMIT_RETRIES                          *)
  MaxFlagAttempts,  (* PENDING_FLAG_PUSH_MAX_ATTEMPTS                          *)
  MaxStores,    (* bound: flag changes by mail apps                        *)
  MaxWeb,       (* bound: flag changes by the user's other clients         *)
  MaxDrops,     (* bound: lost IMAP connections                            *)
  MaxFlagStops  (* bound: stops and crashes of the bridge                  *)

ASSUME FlagsAreIds == Flags \subseteq Nat /\ Slots \subseteq Nat
ASSUME PollerAssumption == Poller \notin Slots
ASSUME FlagBounds ==
  /\ PushRetries \in Nat /\ MaxFlagAttempts \in Nat \ {0}
  /\ MaxStores \in Nat /\ MaxWeb \in Nat /\ MaxDrops \in Nat /\ MaxFlagStops \in Nat

Pushers == Slots \cup {Poller}

VARIABLES
  local,    \* message_cache.flags
  pending,  \* pending_flag_push: the row of each flag
  conn,     \* where each IMAP connection stands in a STORE
  jmap,     \* where each JMAP request stands in Email/set
  task,     \* the push each pusher works on
  pass,     \* where the sync pass stands, and what it has read
  remote,   \* the flags at Aster
  late,     \* calls given up on that may still reach Aster
  (* what the properties remember *)
  wish,     \* each flag's last value set by a STORE, and if Aster has had it
  asked,    \* the values mail apps have asked for, of each flag
  web,      \* the flags as the user's other clients left them
  (* bounds *)
  stores, webs, drops, flagStops

rest == <<wish, asked, web, stores, webs, drops, flagStops>>
flagVars == <<local, pending, conn, jmap, task, pass, remote, late, rest>>

NothingPending  == [value |-> "none", attempts |-> 0, settled |-> FALSE]
NoTask == [phase |-> "none"]
NoWish == [value |-> "none", state |-> "none"]
IdleConn == [phase |-> "idle", view |-> {}, wanted |-> {}, changed |-> {}]
IdleJmap == [phase |-> "idle", wanted |-> {}, calls |-> {}]
IdlePass == [phase |-> "idle", todo |-> {}, listed |-> {}, seen |-> {}, wanted |-> {}]

Lowest(S) == CHOOSE f \in S : \A g \in S : f <= g

(* A flag's value, as rows and calls carry it.                             *)
Value(f, flags) == IF f \in flags THEN "on" ELSE "off"

With(flags, f, v) == IF v = "on" THEN flags \cup {f} ELSE flags \ {f}

Differ(old, new) == (old \ new) \cup (new \ old)

FlagInitWith(flags, phase) ==
  /\ local = flags /\ remote = flags /\ web = flags
  /\ pending = [f \in Flags |-> NothingPending]
  /\ conn = [c \in Conns |-> IdleConn]
  /\ jmap = [j \in JmapClients |-> IdleJmap]
  /\ task = [p \in Pushers |-> NoTask]
  /\ pass = [IdlePass EXCEPT !.phase = phase]
  /\ late = {}
  /\ wish = [f \in Flags |-> NoWish]
  /\ asked = [f \in Flags |-> {}]
  /\ stores = 0 /\ webs = 0 /\ drops = 0 /\ flagStops = 0
FlagInit == \E flags \in SUBSET Flags : FlagInitWith(flags, "idle")

-----------------------------------------------------------------------------
(* STORE on an IMAP connection.                                            *)

(* apply_flags.                                                            *)
ApplyFlags(flags, op, mask) ==
  CASE op = "add"     -> flags \cup mask
    [] op = "remove"  -> flags \ mask
    [] op = "replace" -> mask

(* The flags a command asks to set or clear.                               *)
Named(op, mask) ==
  CASE op = "add"     -> mask
    [] op = "remove"  -> mask
    [] op = "replace" -> Flags

(* A mail app asks that the flags in named get the values they have in new.*)
Ask(named, new) ==
  asked' = [f \in Flags |-> IF f \in named THEN asked[f] \cup {Value(f, new)} ELSE asked[f]]

(* The handler reads the mailbox (list_cached_message_meta), and then may  *)
(* wait for the network (store_tag_keywords).                              *)
StoreReads(c) ==
  /\ conn[c].phase = "idle" /\ stores < MaxStores
  /\ \E op \in {"add", "remove", "replace"}, mask \in SUBSET Flags \ {{}} :
       /\ conn' = [conn EXCEPT ![c] =
                     [phase |-> "read", view |-> local,
                      wanted |-> ApplyFlags(local, op, mask), changed |-> {}]]
       /\ Ask(Named(op, mask), ApplyFlags(local, op, mask))
  /\ stores' = stores + 1
  /\ UNCHANGED <<local, pending, jmap, task, pass, remote, late, wish, web,
                 webs, drops, flagStops>>

(* Mutant: the changes are taken against the cache as it is now.           *)
ChangesAgainstCache(c) == Differ(local, conn[c].wanted)

(* What the command changed, against the flags it had read.                *)
ChangedFlags(c) == Differ(conn[c].view, conn[c].wanted)

(* write_batch: the whole flags word is written.                           *)
StoreWrites(c) ==
  /\ conn[c].phase = "read"
  /\ LET new     == conn[c].wanted
         changed == ChangedFlags(c)
     IN  /\ local' = new
         /\ wish' = [f \in Flags |->
                       IF f \in changed THEN [value |-> Value(f, new), state |-> "owed"]
                                        ELSE wish[f]]
         /\ conn' = [conn EXCEPT ![c] =
                       IF changed = {} THEN IdleConn
                       ELSE [phase |-> "written", view |-> {}, wanted |-> new,
                             changed |-> changed]]
  /\ UNCHANGED <<pending, jmap, task, pass, remote, late, asked, web,
                 stores, webs, drops, flagStops>>

(* push_flag_status, after the untagged responses have been written to the *)
(* mail app: record_pending_flag_pushes, then the task.                    *)
StoreRecords(c) ==
  /\ conn[c].phase = "written"
  /\ LET f == Lowest(conn[c].changed)
         v == Value(f, conn[c].wanted)
     IN  /\ pending' = [pending EXCEPT ![f] =
                          [value |-> v, attempts |-> 0, settled |-> FALSE]]
         /\ \E p \in Slots :
              /\ task[p] = NoTask
              /\ \A q \in Slots : task[q] = NoTask => p <= q
              /\ task' = [task EXCEPT ![p] =
                            [phase |-> "check", flag |-> f, value |-> v,
                             mode |-> "bulk", tries |-> 0]]
         /\ conn' = [conn EXCEPT ![c] =
                       IF conn[c].changed = {f} THEN IdleConn
                       ELSE [conn[c] EXCEPT !.changed = @ \ {f}]]
  /\ UNCHANGED <<local, jmap, pass, remote, late, rest>>

(* The mail app's connection is lost, and with it the handler.             *)
ConnDrops(c) ==
  /\ conn[c].phase # "idle" /\ drops < MaxDrops
  /\ conn' = [conn EXCEPT ![c] = IdleConn]
  /\ drops' = drops + 1
  /\ UNCHANGED <<local, pending, jmap, task, pass, remote, late, wish, asked,
                 web, stores, webs, flagStops>>

-----------------------------------------------------------------------------
(* Aster, POST and PATCH of message metadata (external).                   *)

(* Aster sets one flag.                                                    *)
ServerSets(f, v) ==
  /\ remote' = With(remote, f, v)
  /\ wish' = [wish EXCEPT ![f] = IF @.value = v THEN [@ EXCEPT !.state = "there"] ELSE @]

(* Aster never sees the call, or refuses it.                               *)
ServerKeeps == UNCHANGED <<remote, wish>>

(* A call that sets f ends with a result: it arrived and was answered; it  *)
(* was refused; or no answer came, and it arrived, did not, or is late.    *)
Called(f, v, result) ==
  \/ result = "ok" /\ ServerSets(f, v) /\ UNCHANGED late
  \/ result \in {"limited", "refused", "transient"} /\ ServerKeeps /\ UNCHANGED late
  \/ result = "transient" /\ ServerSets(f, v) /\ UNCHANGED late
  \/ result = "transient" /\ ServerKeeps /\ late' = late \cup {<<f, v>>}

LateArrives(f, v) ==
  /\ <<f, v>> \in late
  /\ late' = late \ {<<f, v>>}
  /\ ServerSets(f, v)
  /\ UNCHANGED <<local, pending, conn, jmap, task, pass, asked, web, stores,
                 webs, drops, flagStops>>

(* The user changes the flag in another client.                            *)
WebSets(f) ==
  /\ webs < MaxWeb /\ webs' = webs + 1
  /\ \E v \in {"on", "off"} \ {Value(f, remote)} :
       remote' = With(remote, f, v) /\ web' = With(web, f, v)
  /\ wish' = [wish EXCEPT ![f] = NoWish]
  /\ UNCHANGED <<local, pending, conn, jmap, task, pass, late, asked, stores,
                 drops, flagStops>>

-----------------------------------------------------------------------------
(* Email/set over JMAP.                                                    *)

(* apply_update reads the flags and works out the wanted ones.             *)
JmapReads(j) ==
  /\ jmap[j].phase = "idle" /\ stores < MaxStores
  /\ \E wanted \in SUBSET Flags \ {local} :
       LET changed == Differ(local, wanted)
       IN  /\ jmap' = [jmap EXCEPT ![j] =
                         [phase |-> "calls", wanted |-> wanted, calls |-> changed]]
           /\ Ask(changed, wanted)
           /\ wish' = [f \in Flags |-> IF f \in changed THEN NoWish ELSE wish[f]]
  /\ stores' = stores + 1
  /\ UNCHANGED <<local, pending, conn, task, pass, remote, late, web, webs,
                 drops, flagStops>>

(* One awaited call for each changed flag; an error rejects the update.    *)
JmapCalls(j) ==
  /\ jmap[j].phase = "calls" /\ jmap[j].calls # {}
  /\ LET f == Lowest(jmap[j].calls)
     IN  \E result \in {"ok", "limited", "refused", "transient"} :
           /\ Called(f, Value(f, jmap[j].wanted), result)
           /\ jmap' = [jmap EXCEPT ![j] =
                         IF result = "ok" THEN [jmap[j] EXCEPT !.calls = @ \ {f}] ELSE IdleJmap]
  /\ UNCHANGED <<local, pending, conn, task, pass, asked, web, stores, webs,
                 drops, flagStops>>

(* set_message_flags_by_id, with the flags worked out before the calls.    *)
JmapWrites(j) ==
  /\ jmap[j].phase = "calls" /\ jmap[j].calls = {}
  /\ local' = jmap[j].wanted
  /\ jmap' = [jmap EXCEPT ![j] = IdleJmap]
  /\ UNCHANGED <<pending, conn, task, pass, remote, late, rest>>

-----------------------------------------------------------------------------
(* push_read_status_chunk, run by a task or by the sync pass.              *)

Working(p, phase) == task[p] # NoTask /\ task[p].phase = phase

(* read_status_still_wanted.                                               *)
Wanted(t) == Value(t.flag, local) = t.value

(* clear_pending_flag_pushes: only a row that still has this value goes.   *)
Cleared(t) ==
  [pending EXCEPT ![t.flag] = IF @.value = t.value THEN NothingPending ELSE @]

(* Mutant: a failed push is not counted.                                   *)
NotCounted(t) == pending

(* Mutant: a failed push is counted where no row is left.                  *)
CountedWithoutRow(t) == [pending EXCEPT ![t.flag].attempts = @ + 1]

(* note_failed_flag_push.                                                  *)
Failed(t) ==
  [pending EXCEPT ![t.flag] =
     IF @.value = t.value THEN [pending[t.flag] EXCEPT !.attempts = @ + 1] ELSE @]

Finish(p) == task' = [task EXCEPT ![p] = NoTask]

PushChecks(p) ==
  /\ Working(p, "check")
  /\ \/ /\ Wanted(task[p])
        /\ task' = [task EXCEPT ![p].phase = "wire"]
        /\ UNCHANGED pending
     \/ /\ ~Wanted(task[p])
        /\ pending' = Cleared(task[p])
        /\ Finish(p)
  /\ UNCHANGED <<local, conn, jmap, pass, remote, late, rest>>

(* The call: bulk_set_mailbox_flags, or set_mailbox_flags one by one.      *)
PushCalls(p) ==
  /\ Working(p, "wire")
  /\ \E result \in {"ok", "limited", "refused", "transient"} :
       /\ Called(task[p].flag, task[p].value, result)
       /\ task' = [task EXCEPT ![p].phase = result]
  /\ UNCHANGED <<local, pending, conn, jmap, pass, asked, web, stores, webs,
                 drops, flagStops>>

PushSucceeds(p) ==
  /\ Working(p, "ok")
  /\ pending' = Cleared(task[p])
  /\ Finish(p)
  /\ UNCHANGED <<local, conn, jmap, pass, remote, late, rest>>

Retries(p) == IF p = Poller THEN 0 ELSE PushRetries

(* In bulk only a rate limit is tried again; other errors lead to single   *)
(* calls.  A single call is also tried again after a transient error.      *)
MayRetry(p) ==
  /\ \/ task[p].phase = "limited"
     \/ task[p].phase = "transient" /\ task[p].mode = "single"
  /\ task[p].tries < Retries(p)

PushFails(p) ==
  /\ task[p] # NoTask /\ task[p].phase \in {"limited", "refused", "transient"}
  /\ \/ /\ MayRetry(p)
        /\ task' = [task EXCEPT ![p].phase = "check", ![p].tries = @ + 1]
        /\ UNCHANGED pending
     \/ /\ task[p].mode = "bulk" /\ task[p].phase # "limited"
        /\ task' = [task EXCEPT ![p].phase = "check", ![p].mode = "single", ![p].tries = 0]
        /\ UNCHANGED pending
     \/ /\ ~MayRetry(p) /\ (task[p].mode = "single" \/ task[p].phase = "limited")
        /\ pending' = Failed(task[p])
        /\ Finish(p)
  /\ UNCHANGED <<local, conn, jmap, pass, remote, late, rest>>

-----------------------------------------------------------------------------
(* The sync pass.                                                          *)

(* PENDING_FLAG_PUSH_SETTLE_MS passes for a row.                           *)
FlagTimePasses(f) ==
  /\ pending[f].value # "none" /\ ~pending[f].settled
  /\ pending' = [pending EXCEPT ![f].settled = TRUE]
  /\ UNCHANGED <<local, conn, jmap, task, pass, remote, late, rest>>

ExhaustedRows == {f \in Flags : pending[f].value # "none" /\ pending[f].attempts >= MaxFlagAttempts}

(* retry_pending_flag_pushes: drop_exhausted_flag_pushes, then             *)
(* pending_flag_pushes.                                                    *)
PassStarts ==
  /\ pass.phase = "idle"
  /\ LET gone == ExhaustedRows
         left == {f \in Flags \ gone : pending[f].value # "none" /\ pending[f].settled}
     IN  /\ pending' = [f \in Flags |-> IF f \in gone THEN NothingPending ELSE pending[f]]
         /\ wish' = [f \in Flags |-> IF f \in gone THEN NoWish ELSE wish[f]]
         /\ pass' = [IdlePass EXCEPT !.phase = "push",
                                     !.todo = {<<f, pending[f].value>> : f \in left}]
  /\ UNCHANGED <<local, conn, jmap, task, remote, late, asked, web, stores,
                 webs, drops, flagStops>>

(* One group after the other, each to its end.                             *)
PassPushes ==
  /\ pass.phase = "push" /\ task[Poller] = NoTask
  /\ \/ \E row \in pass.todo :
          /\ task' = [task EXCEPT ![Poller] =
                        [phase |-> "check", flag |-> row[1], value |-> row[2],
                         mode |-> "bulk", tries |-> 0]]
          /\ pass' = [pass EXCEPT !.todo = @ \ {row}]
     \/ /\ pass.todo = {}
        /\ pass' = [pass EXCEPT !.phase = "list"]
        /\ UNCHANGED task
  /\ UNCHANGED <<local, pending, conn, jmap, remote, late, rest>>

PassStep == UNCHANGED <<pending, conn, jmap, task, remote, late, rest>>

(* list_folder_page.                                                       *)
PassLists ==
  /\ pass.phase = "list"
  /\ pass' = [pass EXCEPT !.phase = "listed", !.listed = remote]
  /\ UNCHANGED local /\ PassStep

PassListFails ==
  /\ pass.phase = "list"
  /\ pass' = IdlePass
  /\ UNCHANGED local /\ PassStep

(* Mutant: Aster's listing can set a flag but not clear it.                *)
ServerFlagsOnlySet(flags, item) == flags \cup item

(* server_flags: an item of the listing gives every flag.                  *)
ServerFlags(flags, item) == item

(* cached_sync_states and cached_shortcut.                                 *)
PassReadsCache ==
  /\ pass.phase = "listed"
  /\ pass' = IF local = ServerFlags(local, pass.listed) THEN IdlePass
             ELSE [pass EXCEPT !.phase = "cached", !.seen = local]
  /\ UNCHANGED local /\ PassStep

(* pending_flag_values and with_pending_flags.  (The indexing of older     *)
(* mail writes listed flags too, without this look; it is not in here.)    *)
WithPending(flags) ==
  {f \in Flags : \/ pending[f].value = "on"
                 \/ pending[f].value = "none" /\ f \in flags}

PassReadsPending(phase, next) ==
  /\ pass.phase = phase
  /\ LET wanted == WithPending(ServerFlags(pass.seen, pass.listed))
     IN  pass' = IF wanted = pass.seen THEN IdlePass
                 ELSE [pass EXCEPT !.phase = next, !.wanted = wanted]
  /\ UNCHANGED local /\ PassStep

(* set_message_flags_if_unchanged.                                         *)
PassWritesIfUnchanged ==
  /\ pass.phase = "merged"
  /\ IF local = pass.seen
     THEN local' = pass.wanted /\ pass' = IdlePass
     ELSE pass' = [pass EXCEPT !.phase = "stale"] /\ UNCHANGED local
  /\ PassStep

(* reconcile_server_flags: read the flags, read what is pending, write.    *)
PassReadsAgain ==
  /\ pass.phase = "stale"
  /\ pass' = [pass EXCEPT !.phase = "reread", !.seen = local]
  /\ UNCHANGED local /\ PassStep

PassWrites ==
  /\ pass.phase = "remerged"
  /\ local' = pass.wanted
  /\ pass' = IdlePass
  /\ PassStep

-----------------------------------------------------------------------------
(* Every task of the bridge ends where it is; calls on the way may still   *)
(* arrive; the database keeps its rows.                                    *)
Restart ==
  /\ flagStops < MaxFlagStops /\ flagStops' = flagStops + 1
  /\ conn' = [c \in Conns |-> IdleConn]
  /\ jmap' = [j \in JmapClients |-> IdleJmap]
  /\ task' = [p \in Pushers |-> NoTask]
  /\ pass' = IdlePass
  /\ \E lost \in SUBSET {<<task[p].flag, task[p].value>> :
                           p \in {q \in Pushers : Working(q, "wire")}} :
       late' = late \cup lost
  /\ UNCHANGED <<local, pending, remote, wish, asked, web, stores, webs, drops>>

ConnStep(c) == StoreWrites(c) \/ StoreRecords(c)
JmapStep(j) == JmapCalls(j) \/ JmapWrites(j)
PushStep(p) == PushChecks(p) \/ PushCalls(p) \/ PushSucceeds(p) \/ PushFails(p)
PassGoesOn ==
  \/ PassStarts \/ PassPushes \/ PassReadsCache
  \/ PassReadsPending("cached", "merged") \/ PassWritesIfUnchanged
  \/ PassReadsAgain \/ PassReadsPending("reread", "remerged") \/ PassWrites

FlagNext ==
  \/ \E c \in Conns : StoreReads(c) \/ ConnStep(c) \/ ConnDrops(c)
  \/ \E j \in JmapClients : JmapReads(j) \/ JmapStep(j)
  \/ \E p \in Pushers : PushStep(p)
  \/ \E f \in Flags : WebSets(f) \/ FlagTimePasses(f)
  \/ \E f \in Flags, v \in {"on", "off"} : LateArrives(f, v)
  \/ PassGoesOn \/ PassLists \/ PassListFails
  \/ Restart

FlagSpec == FlagInit /\ [][FlagNext]_flagVars

(* Handlers, push tasks and sync passes go on, calls end, time passes, and *)
(* Aster answers a listing again and again.                                *)
FlagFairness ==
  /\ \A c \in Conns : WF_flagVars(ConnStep(c))
  /\ \A j \in JmapClients : WF_flagVars(JmapStep(j))
  /\ \A p \in Pushers : WF_flagVars(PushStep(p))
  /\ \A f \in Flags : WF_flagVars(FlagTimePasses(f))
  /\ WF_flagVars(PassGoesOn \/ PassLists \/ PassListFails)
  /\ SF_flagVars(PassLists)

FlagFairSpec == FlagSpec /\ FlagFairness

-----------------------------------------------------------------------------
(* Properties.                                                             *)

Values == {"on", "off", "none"}

FlagTypeOK ==
  /\ local \subseteq Flags /\ remote \subseteq Flags /\ web \subseteq Flags
  /\ pending \in [Flags -> [value : Values, attempts : Nat, settled : BOOLEAN]]
  /\ late \subseteq Flags \X {"on", "off"}
  /\ \A f \in Flags : pending[f].value = "none" => pending[f] = NothingPending
  /\ \A p \in Pushers : task[p] # NoTask => task[p].flag \in Flags

(* Read marks and stars end up the same here and at Aster, over lost       *)
(* connections, failing and late calls and changes made elsewhere.  *)
FlagsConverge == <>[](local = remote)

(* Every pending change is pushed or given up on: none is tried for ever.  *)
PendingSettles == \A f \in Flags : []<>(pending[f].value = "none")

(* Aster's flag is as the user's other clients left it, or has a value a   *)
(* mail app asked for: a command never pushes another client's old value.  *)
PushesWhatWasAsked ==
  \A f \in Flags : Value(f, remote) # Value(f, web) => Value(f, remote) \in asked[f]

(* "If a change can't reach Aster right away, Aster Bridge keeps it and    *)
(* tries again": a change Aster has not had, and the bridge has not given  *)
(* up on, is still in the cache.                                           *)
ChangeKept ==
  \A f \in Flags : wish[f].state = "owed" => Value(f, local) = wish[f].value
=============================================================================
