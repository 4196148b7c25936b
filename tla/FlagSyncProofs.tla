--------------------------- MODULE FlagSyncProofs --------------------------
(***************************************************************************)
(* What is pushed to Aster, for any number of connections, requests, push  *)
(* tasks and changes: the types, and that a value only reaches Aster when  *)
(* a mail app asked for it.                                                *)
(***************************************************************************)
EXTENDS FlagSync, WellFoundedInduction, TLAPS

OnOff == {"on", "off"}
Task == [phase : {"check", "wire", "ok", "limited", "refused", "transient"}, flag : Flags,
         value : OnOff, mode : {"bulk", "single"}, tries : Nat]

Shapes ==
  /\ conn \in [Conns -> [phase : {"idle", "read", "written"}, view : SUBSET Flags,
                         wanted : SUBSET Flags, changed : SUBSET Flags]]
  /\ \A c \in Conns : conn[c].phase = "written" => conn[c].changed # {}
  /\ jmap \in [JmapClients -> [phase : {"idle", "calls"}, wanted : SUBSET Flags, calls : SUBSET Flags]]
  /\ task \in [Pushers -> {NoTask} \cup Task]
  /\ pass \in [phase : {"idle", "push", "list", "listed", "cached", "merged", "stale", "reread",
                        "remerged"},
               todo : SUBSET (Flags \X OnOff), listed : SUBSET Flags, seen : SUBSET Flags,
               wanted : SUBSET Flags]
  /\ asked \in [Flags -> SUBSET OnOff]

(* Every value on its way to Aster, wherever it is, is one a mail app asked for. *)
OnTheWay ==
  /\ \A f \in Flags : pending[f].value # "none" => pending[f].value \in asked[f]
  /\ \A p \in Pushers : task[p] # NoTask => task[p].value \in asked[task[p].flag]
  /\ \A row \in pass.todo \cup late : row[2] \in asked[row[1]]
  /\ \A c \in Conns : \A f \in conn[c].changed : Value(f, conn[c].wanted) \in asked[f]
  /\ \A c \in Conns : conn[c].phase = "read" =>
       \A f \in Differ(conn[c].view, conn[c].wanted) : Value(f, conn[c].wanted) \in asked[f]
  /\ \A j \in JmapClients : \A f \in jmap[j].calls : Value(f, jmap[j].wanted) \in asked[f]

FlagIInv == FlagTypeOK /\ Shapes /\ OnTheWay /\ PushesWhatWasAsked

(* The lowest of some flags is one of them. *)
LEMMA LowestIsIn == ASSUME NEW S \in SUBSET Flags, S # {} PROVE Lowest(S) \in S
<1>1. S \subseteq Nat
  BY FlagsAreIds
<1> DEFINE Less == {ss \in Nat \X Nat : ss[1] < ss[2]}
<1>2. Less = OpToRel(<, Nat)
  BY DEF OpToRel
<1>3. IsWellFoundedOn(Less, Nat)
  BY <1>2, NatLessThanWellFounded, Zenon
<1>4. PICK f \in S : \A g \in S : ~ (<<g, f>> \in Less)
  <2> HIDE DEF Less
  <2> QED BY <1>1, <1>3, WFMin, Zenon
<1>5. \A g \in S : f <= g
  <2> TAKE g \in S
  <2>1. f \in Nat /\ g \in Nat /\ <<g, f>> \in Nat \X Nat
    BY <1>1
  <2>2. ~(g < f)
    BY <1>4, <2>1
  <2> QED BY <2>1, <2>2
<1> QED BY <1>5 DEF Lowest

(* Aster sets one flag to a value that was asked for. *)
LEMMA ServerSetsAsked ==
  ASSUME FlagIInv, NEW f \in Flags, NEW v \in OnOff, v \in asked[f], remote' = With(remote, f, v),
         web' = web, asked' = asked
  PROVE  remote' \subseteq Flags /\ PushesWhatWasAsked'
BY DEF FlagIInv, FlagTypeOK, PushesWhatWasAsked, Value, With, OnOff

(* A call that sets an asked value, whatever becomes of it. *)
LEMMA CalledAsked ==
  ASSUME FlagIInv, NEW f \in Flags, NEW v \in OnOff, v \in asked[f], NEW result,
         Called(f, v, result), web' = web, asked' = asked
  PROVE  /\ remote' \subseteq Flags /\ PushesWhatWasAsked'
         /\ late' \subseteq Flags \X OnOff /\ \A row \in late' : row[2] \in asked[row[1]]
<1>1. CASE ServerSets(f, v) /\ UNCHANGED late
  BY <1>1, ServerSetsAsked DEF ServerSets, FlagIInv, FlagTypeOK, OnTheWay, OnOff
<1>2. CASE ServerKeeps /\ late' \in {late, late \cup {<<f, v>>}}
  BY <1>2 DEF ServerKeeps, FlagIInv, FlagTypeOK, OnTheWay, PushesWhatWasAsked, OnOff
<1> QED BY <1>1, <1>2 DEF Called

LEMMA StoreReadsKeeps == ASSUME FlagIInv, NEW c \in Conns, StoreReads(c) PROVE FlagIInv'
<1> USE DEF StoreReads, rest, Ask, ApplyFlags, Named, Differ, Value
<1>1. FlagTypeOK'
  BY DEF FlagIInv, FlagTypeOK, Shapes, Values, OnOff, Pushers, NoTask, NothingPending, Task
<1>2. Shapes'
  BY DEF FlagIInv, FlagTypeOK, Shapes, OnOff, Pushers, NoTask, Task
<1>3. OnTheWay'
  BY DEF FlagIInv, FlagTypeOK, Shapes, OnTheWay, OnOff, Pushers, NoTask, Task, NothingPending
<1>4. PushesWhatWasAsked'
  BY DEF FlagIInv, FlagTypeOK, Shapes, PushesWhatWasAsked
<1> QED BY <1>1, <1>2, <1>3, <1>4 DEF FlagIInv

LEMMA StoreWritesKeeps == ASSUME FlagIInv, NEW c \in Conns, StoreWrites(c) PROVE FlagIInv'
<1> USE DEF StoreWrites, rest, ChangedFlags, Differ, IdleConn
<1>1. FlagTypeOK'
  BY DEF FlagIInv, FlagTypeOK, Shapes, Values, OnOff, Pushers, NoTask, NothingPending, Task
<1>2. Shapes'
  BY DEF FlagIInv, FlagTypeOK, Shapes, OnOff, Pushers, NoTask, Task
<1>3. OnTheWay'
  BY DEF FlagIInv, FlagTypeOK, Shapes, OnTheWay, OnOff, Pushers, NoTask, Task, NothingPending
<1>4. PushesWhatWasAsked'
  BY DEF FlagIInv, FlagTypeOK, Shapes, PushesWhatWasAsked
<1> QED BY <1>1, <1>2, <1>3, <1>4 DEF FlagIInv

LEMMA StoreRecordsKeeps == ASSUME FlagIInv, NEW c \in Conns, StoreRecords(c) PROVE FlagIInv'
<1> DEFINE f == Lowest(conn[c].changed)
           v == Value(f, conn[c].wanted)
           rest_of == [conn[c] EXCEPT !.changed = conn[c].changed \ {f}]
           new == [phase |-> "check", flag |-> f, value |-> v, mode |-> "bulk", tries |-> 0]
<1>1. f \in conn[c].changed /\ f \in Flags /\ v \in OnOff /\ v \in asked[f]
  <2>1. conn[c].changed \in SUBSET Flags /\ conn[c].changed # {}
    BY DEF StoreRecords, FlagIInv, Shapes
  <2>2. f \in conn[c].changed
    BY <2>1, LowestIsIn
  <2>3. \A g \in conn[c].changed : Value(g, conn[c].wanted) \in asked[g]
    BY DEF FlagIInv, OnTheWay
  <2> QED BY <2>1, <2>2, <2>3 DEF Value, OnOff
<1>2. pending' = [pending EXCEPT ![f] = [value |-> v, attempts |-> 0, settled |-> FALSE]]
  BY DEF StoreRecords
<1>3. PICK p \in Slots : task[p] = NoTask /\ task' = [task EXCEPT ![p] = new]
  BY DEF StoreRecords
<1>4. \/ conn' = [conn EXCEPT ![c] = IdleConn]
      \/ conn[c].changed # {f} /\ conn' = [conn EXCEPT ![c] = rest_of]
  <2>1. conn' = [conn EXCEPT ![c] = IF conn[c].changed = {f} THEN IdleConn
                                    ELSE [conn[c] EXCEPT !.changed = @ \ {f}]]
    BY DEF StoreRecords
  <2>2. CASE conn[c].changed = {f}
    BY <2>1, <2>2
  <2>3. CASE conn[c].changed # {f}
    <3>1. conn' = [conn EXCEPT ![c] = [conn[c] EXCEPT !.changed = conn[c].changed \ {f}]]
      BY <2>1, <2>3, Zenon
    <3> QED BY <3>1, <2>3
  <2> QED BY <2>2, <2>3
<1>5. UNCHANGED <<local, jmap, pass, remote, late, asked, web>>
  BY DEF StoreRecords, rest
<1>6. conn[c].phase = "written" /\ conn[c] \in [phase : {"idle", "read", "written"}, view : SUBSET Flags,
                         wanted : SUBSET Flags, changed : SUBSET Flags]
  BY DEF StoreRecords, FlagIInv, Shapes
<1>7. new \in Task
  BY <1>1 DEF Task
<1>12. /\ IdleConn \in [phase : {"idle", "read", "written"}, view : SUBSET Flags,
                         wanted : SUBSET Flags, changed : SUBSET Flags]
       /\ IdleConn.phase = "idle" /\ IdleConn.changed = {}
  BY DEF IdleConn
<1>13. /\ rest_of \in [phase : {"idle", "read", "written"}, view : SUBSET Flags,
                         wanted : SUBSET Flags, changed : SUBSET Flags]
       /\ rest_of.phase = "written" /\ rest_of.wanted = conn[c].wanted
       /\ rest_of.changed = conn[c].changed \ {f}
  BY <1>6
<1> HIDE DEF f, v, new, rest_of
<1>8. FlagTypeOK'
  <2>1. pending' \in [Flags -> [value : Values, attempts : Nat, settled : BOOLEAN]]
    BY <1>1, <1>2 DEF FlagIInv, FlagTypeOK, Values, OnOff
  <2>2. \A g \in Flags : pending'[g].value = "none" => pending'[g] = NothingPending
    BY <1>1, <1>2 DEF FlagIInv, FlagTypeOK, OnOff
  <2>3. \A q \in Pushers : task'[q] # NoTask => task'[q].flag \in Flags
    BY <1>3, <1>7 DEF FlagIInv, FlagTypeOK, Shapes, Task, Pushers
  <2> QED BY <2>1, <2>2, <2>3, <1>5 DEF FlagIInv, FlagTypeOK
<1>9. Shapes'
  <2>1. task' \in [Pushers -> {NoTask} \cup Task]
    BY <1>3, <1>7 DEF FlagIInv, Shapes, Pushers
  <2>2. /\ conn' \in [Conns -> [phase : {"idle", "read", "written"}, view : SUBSET Flags,
                         wanted : SUBSET Flags, changed : SUBSET Flags]]
        /\ \A d \in Conns : conn'[d].phase = "written" => conn'[d].changed # {}
    <3>1. conn[c].changed # {f} => conn[c].changed \ {f} # {}
      BY <1>1
    <3>2. CASE conn' = [conn EXCEPT ![c] = IdleConn]
      BY <3>2, <1>12 DEF FlagIInv, Shapes
    <3>3. CASE conn[c].changed # {f} /\ conn' = [conn EXCEPT ![c] = rest_of]
      BY <3>1, <3>3, <1>13 DEF FlagIInv, Shapes
    <3> QED BY <3>2, <3>3, <1>4
  <2> QED BY <2>1, <2>2, <1>5 DEF FlagIInv, Shapes
<1>10. OnTheWay'
  <2>1. \A g \in Flags : pending'[g].value # "none" => pending'[g].value \in asked'[g]
    BY <1>1, <1>2, <1>5 DEF FlagIInv, FlagTypeOK, OnTheWay
  <2>2. \A q \in Pushers : task'[q] # NoTask => task'[q].value \in asked'[task'[q].flag]
    <3>1. new.value \in asked[new.flag]
      BY <1>1 DEF new
    <3> QED BY <3>1, <1>3, <1>5 DEF FlagIInv, Shapes, OnTheWay, Pushers
  <2>3. /\ \A d \in Conns : \A g \in conn'[d].changed : Value(g, conn'[d].wanted) \in asked'[g]
        /\ \A d \in Conns : conn'[d].phase = "read" =>
             \A g \in Differ(conn'[d].view, conn'[d].wanted) : Value(g, conn'[d].wanted) \in asked'[g]
    BY <1>4, <1>5, <1>12, <1>13 DEF FlagIInv, Shapes, OnTheWay
  <2> QED BY <2>1, <2>2, <2>3, <1>5 DEF FlagIInv, OnTheWay
<1>11. PushesWhatWasAsked'
  BY <1>5 DEF FlagIInv, PushesWhatWasAsked
<1> QED BY <1>8, <1>9, <1>10, <1>11 DEF FlagIInv

LEMMA ConnDropsKeeps == ASSUME FlagIInv, NEW c \in Conns, ConnDrops(c) PROVE FlagIInv'
<1> USE DEF ConnDrops, rest, IdleConn
<1>1. FlagTypeOK'
  BY DEF FlagIInv, FlagTypeOK, Shapes, Values, OnOff, Pushers, NoTask, NothingPending, Task
<1>2. Shapes'
  BY DEF FlagIInv, FlagTypeOK, Shapes, OnOff, Pushers, NoTask, Task
<1>3. OnTheWay'
  BY DEF FlagIInv, FlagTypeOK, Shapes, OnTheWay, OnOff, Pushers, NoTask, Task, NothingPending
<1>4. PushesWhatWasAsked'
  BY DEF FlagIInv, FlagTypeOK, Shapes, PushesWhatWasAsked
<1> QED BY <1>1, <1>2, <1>3, <1>4 DEF FlagIInv

LEMMA JmapReadsKeeps == ASSUME FlagIInv, NEW j \in JmapClients, JmapReads(j) PROVE FlagIInv'
<1> USE DEF JmapReads, rest, Ask, Differ, Value
<1>1. FlagTypeOK'
  BY DEF FlagIInv, FlagTypeOK, Shapes, Values, OnOff, Pushers, NoTask, NothingPending, Task
<1>2. Shapes'
  BY DEF FlagIInv, FlagTypeOK, Shapes, OnOff, Pushers, NoTask, Task
<1>3. OnTheWay'
  BY DEF FlagIInv, FlagTypeOK, Shapes, OnTheWay, OnOff, Pushers, NoTask, Task, NothingPending
<1>4. PushesWhatWasAsked'
  BY DEF FlagIInv, FlagTypeOK, Shapes, PushesWhatWasAsked
<1> QED BY <1>1, <1>2, <1>3, <1>4 DEF FlagIInv

LEMMA JmapCallsKeeps == ASSUME FlagIInv, NEW j \in JmapClients, JmapCalls(j) PROVE FlagIInv'
<1> DEFINE f == Lowest(jmap[j].calls)
           v == Value(f, jmap[j].wanted)
           rest_of == [jmap[j] EXCEPT !.calls = jmap[j].calls \ {f}]
<1>1. f \in Flags /\ v \in OnOff /\ v \in asked[f]
  <2>1. jmap[j].calls \in SUBSET Flags /\ jmap[j].calls # {}
    BY DEF JmapCalls, FlagIInv, Shapes
  <2>2. f \in jmap[j].calls
    BY <2>1, LowestIsIn
  <2> QED BY <2>1, <2>2 DEF FlagIInv, OnTheWay, Value, OnOff
<1>2. PICK result \in {"ok", "limited", "refused", "transient"} :
        /\ Called(f, v, result)
        /\ jmap' = [jmap EXCEPT ![j] = IF result = "ok" THEN [jmap[j] EXCEPT !.calls = @ \ {f}] ELSE IdleJmap]
  BY DEF JmapCalls
<1>8. /\ rest_of \in [phase : {"idle", "calls"}, wanted : SUBSET Flags, calls : SUBSET Flags]
      /\ IdleJmap \in [phase : {"idle", "calls"}, wanted : SUBSET Flags, calls : SUBSET Flags]
      /\ rest_of.wanted = jmap[j].wanted /\ rest_of.calls \subseteq jmap[j].calls /\ IdleJmap.calls = {}
  BY DEF FlagIInv, Shapes, IdleJmap
<1>3. UNCHANGED <<local, pending, conn, task, pass, asked, web>>
  BY DEF JmapCalls
<1>9. jmap' = [jmap EXCEPT ![j] = rest_of] \/ jmap' = [jmap EXCEPT ![j] = IdleJmap]
  <2>1. CASE result = "ok"
    <3>1. jmap' = [jmap EXCEPT ![j] = [jmap[j] EXCEPT !.calls = jmap[j].calls \ {f}]]
      BY <1>2, <2>1, Zenon
    <3> QED BY <3>1
  <2>2. CASE result # "ok"
    BY <1>2, <2>2
  <2> QED BY <2>1, <2>2
<1> HIDE DEF f, v, rest_of
<1>4. /\ remote' \subseteq Flags /\ PushesWhatWasAsked'
      /\ late' \subseteq Flags \X OnOff /\ \A row \in late' : row[2] \in asked[row[1]]
  BY <1>1, <1>2, <1>3, CalledAsked
<1>5. FlagTypeOK'
  BY <1>3, <1>4 DEF FlagIInv, FlagTypeOK, OnOff
<1>6. Shapes'
  <2>1. jmap' \in [JmapClients -> [phase : {"idle", "calls"}, wanted : SUBSET Flags, calls : SUBSET Flags]]
    BY <1>8, <1>9 DEF FlagIInv, Shapes
  <2> QED BY <1>3, <2>1 DEF FlagIInv, Shapes
<1>7. OnTheWay'
  <2>1. \A k \in JmapClients : \A g \in jmap'[k].calls : Value(g, jmap'[k].wanted) \in asked[g]
    BY <1>8, <1>9 DEF FlagIInv, Shapes, OnTheWay
  <2> QED BY <2>1, <1>3, <1>4 DEF FlagIInv, OnTheWay
<1> QED BY <1>4, <1>5, <1>6, <1>7 DEF FlagIInv

LEMMA JmapWritesKeeps == ASSUME FlagIInv, NEW j \in JmapClients, JmapWrites(j) PROVE FlagIInv'
<1> USE DEF JmapWrites, rest, IdleJmap
<1>1. FlagTypeOK'
  BY DEF FlagIInv, FlagTypeOK, Shapes, Values, OnOff, Pushers, NoTask, NothingPending, Task
<1>2. Shapes'
  BY DEF FlagIInv, FlagTypeOK, Shapes, OnOff, Pushers, NoTask, Task
<1>3. OnTheWay'
  BY DEF FlagIInv, FlagTypeOK, Shapes, OnTheWay, OnOff, Pushers, NoTask, Task, NothingPending
<1>4. PushesWhatWasAsked'
  BY DEF FlagIInv, FlagTypeOK, Shapes, PushesWhatWasAsked
<1> QED BY <1>1, <1>2, <1>3, <1>4 DEF FlagIInv

LEMMA PushChecksKeeps == ASSUME FlagIInv, NEW p \in Pushers, PushChecks(p) PROVE FlagIInv'
<1>1. task[p] \in Task /\ task[p] # NoTask
  BY DEF PushChecks, Working, FlagIInv, Shapes
<1>2. UNCHANGED <<local, conn, jmap, pass, remote, late, asked, web>>
  BY DEF PushChecks, rest
<1>3. \/ pending' = pending
      \/ pending' = [pending EXCEPT ![task[p].flag] = NothingPending]
  BY DEF PushChecks, Cleared, FlagIInv, FlagTypeOK
<1>4. \/ task' = [task EXCEPT ![p].phase = "wire"]
      \/ task' = [task EXCEPT ![p] = NoTask]
  BY DEF PushChecks, Finish
<1>5. task' \in [Pushers -> {NoTask} \cup Task]
  BY <1>1, <1>4 DEF FlagIInv, Shapes, Task
<1>6. \A q \in Pushers : task'[q] # NoTask =>
        task[q] # NoTask /\ task'[q].flag = task[q].flag /\ task'[q].value = task[q].value
  BY <1>1, <1>4 DEF FlagIInv, Shapes, Task
<1>7. FlagTypeOK'
  <2>1. NothingPending \in [value : Values, attempts : Nat, settled : BOOLEAN]
    BY DEF NothingPending, Values
  <2>2. /\ pending' \in [Flags -> [value : Values, attempts : Nat, settled : BOOLEAN]]
        /\ \A f \in Flags : pending'[f].value = "none" => pending'[f] = NothingPending
    BY <2>1, <1>3 DEF FlagIInv, FlagTypeOK
  <2> QED BY <2>2, <1>2, <1>6 DEF FlagIInv, FlagTypeOK
<1>8. Shapes'
  BY <1>2, <1>5 DEF FlagIInv, Shapes
<1>9. OnTheWay'
  BY <1>2, <1>3, <1>6 DEF FlagIInv, FlagTypeOK, OnTheWay, NothingPending
<1>10. PushesWhatWasAsked'
  BY <1>2 DEF FlagIInv, PushesWhatWasAsked
<1> QED BY <1>7, <1>8, <1>9, <1>10 DEF FlagIInv

LEMMA PushCallsKeeps == ASSUME FlagIInv, NEW p \in Pushers, PushCalls(p) PROVE FlagIInv'
<1>1. task[p] \in Task /\ task[p] # NoTask
  BY DEF PushCalls, Working, FlagIInv, Shapes
<1>2. task[p].flag \in Flags /\ task[p].value \in OnOff /\ task[p].value \in asked[task[p].flag]
  BY <1>1 DEF Task, FlagIInv, OnTheWay
<1>3. PICK result \in {"ok", "limited", "refused", "transient"} :
        Called(task[p].flag, task[p].value, result) /\ task' = [task EXCEPT ![p].phase = result]
  BY DEF PushCalls
<1>4. UNCHANGED <<local, pending, conn, jmap, pass, asked, web>>
  BY DEF PushCalls
<1>5. /\ remote' \subseteq Flags /\ PushesWhatWasAsked'
      /\ late' \subseteq Flags \X OnOff /\ \A row \in late' : row[2] \in asked[row[1]]
  BY <1>2, <1>3, <1>4, CalledAsked
<1>6. task' \in [Pushers -> {NoTask} \cup Task]
  BY <1>1, <1>3 DEF FlagIInv, Shapes, Task
<1>7. \A q \in Pushers : task'[q] # NoTask =>
        task[q] # NoTask /\ task'[q].flag = task[q].flag /\ task'[q].value = task[q].value
  BY <1>1, <1>3 DEF FlagIInv, Shapes, Task
<1>8. FlagTypeOK'
  BY <1>4, <1>5, <1>7 DEF FlagIInv, FlagTypeOK, OnOff
<1>9. Shapes'
  BY <1>4, <1>6 DEF FlagIInv, Shapes
<1>10. OnTheWay'
  BY <1>4, <1>5, <1>7 DEF FlagIInv, OnTheWay
<1> QED BY <1>5, <1>8, <1>9, <1>10 DEF FlagIInv

LEMMA PushSucceedsKeeps == ASSUME FlagIInv, NEW p \in Pushers, PushSucceeds(p) PROVE FlagIInv'
<1> USE DEF PushSucceeds, rest, Cleared, Finish, Working
<1>1. FlagTypeOK'
  BY DEF FlagIInv, FlagTypeOK, Shapes, Values, OnOff, Pushers, NoTask, NothingPending, Task
<1>2. Shapes'
  BY DEF FlagIInv, FlagTypeOK, Shapes, OnOff, Pushers, NoTask, Task
<1>3. OnTheWay'
  BY DEF FlagIInv, FlagTypeOK, Shapes, OnTheWay, OnOff, Pushers, NoTask, Task, NothingPending
<1>4. PushesWhatWasAsked'
  BY DEF FlagIInv, FlagTypeOK, Shapes, PushesWhatWasAsked
<1> QED BY <1>1, <1>2, <1>3, <1>4 DEF FlagIInv

LEMMA PushFailsKeeps == ASSUME FlagIInv, NEW p \in Pushers, PushFails(p) PROVE FlagIInv'
<1>1. task[p] \in Task /\ task[p] # NoTask
  BY DEF PushFails, FlagIInv, Shapes
<1>2. UNCHANGED <<local, conn, jmap, pass, remote, late, asked, web>>
  BY DEF PushFails, rest
<1> DEFINE row == pending[task[p].flag]
<1>3. \/ pending' = pending
      \/ /\ row.value = task[p].value
         /\ pending' = [pending EXCEPT ![task[p].flag] = [row EXCEPT !.attempts = row.attempts + 1]]
  <2>1. CASE pending' = pending
    BY <2>1
  <2>2. CASE pending' = Failed(task[p])
    <3>1. pending' = [pending EXCEPT ![task[p].flag] =
                        IF @.value = task[p].value THEN [pending[task[p].flag] EXCEPT !.attempts = @ + 1] ELSE @]
      BY <2>2 DEF Failed
    <3>2. CASE row.value = task[p].value
      <4>1. pending' = [pending EXCEPT ![task[p].flag] =
                          [pending[task[p].flag] EXCEPT !.attempts = pending[task[p].flag].attempts + 1]]
        BY <3>1, <3>2, Zenon
      <4> QED BY <4>1, <3>2
    <3>3. CASE row.value # task[p].value
      BY <3>1, <3>3, <1>1 DEF FlagIInv, FlagTypeOK, Task
    <3> QED BY <3>2, <3>3
  <2> QED BY <2>1, <2>2 DEF PushFails
<1>4. \/ task' = [task EXCEPT ![p].phase = "check", ![p].tries = @ + 1]
      \/ task' = [task EXCEPT ![p].phase = "check", ![p].mode = "single", ![p].tries = 0]
      \/ task' = [task EXCEPT ![p] = NoTask]
  BY DEF PushFails, Finish
<1>5. task' \in [Pushers -> {NoTask} \cup Task]
  BY <1>1, <1>4 DEF FlagIInv, Shapes, Task
<1>6. \A q \in Pushers : task'[q] # NoTask =>
        task[q] # NoTask /\ task'[q].flag = task[q].flag /\ task'[q].value = task[q].value
  BY <1>1, <1>4 DEF FlagIInv, Shapes, Task
<1>7. task[p].flag \in Flags /\ task[p].value \in OnOff
  BY <1>1 DEF Task
<1>8. row \in [value : Values, attempts : Nat, settled : BOOLEAN]
  BY <1>7 DEF FlagIInv, FlagTypeOK
<1> DEFINE counted == [row EXCEPT !.attempts = row.attempts + 1]
<1>9. counted \in [value : Values, attempts : Nat, settled : BOOLEAN] /\ counted.value = row.value
  BY <1>8
<1>10. pending' = pending \/ (row.value \in OnOff /\ pending' = [pending EXCEPT ![task[p].flag] = counted])
  BY <1>3, <1>7
<1> HIDE DEF counted
<1>11. \A g \in Flags : pending'[g] = pending[g] \/ (pending'[g].value = pending[g].value /\ pending'[g].value \in OnOff)
  BY <1>7, <1>9, <1>10 DEF FlagIInv, FlagTypeOK
<1>12. FlagTypeOK'
  <2>1. pending' \in [Flags -> [value : Values, attempts : Nat, settled : BOOLEAN]]
    BY <1>7, <1>9, <1>10 DEF FlagIInv, FlagTypeOK
  <2>2. \A g \in Flags : pending'[g].value = "none" => pending'[g] = NothingPending
    BY <1>11 DEF FlagIInv, FlagTypeOK, OnOff
  <2> QED BY <2>1, <2>2, <1>2, <1>6 DEF FlagIInv, FlagTypeOK
<1>13. Shapes'
  BY <1>2, <1>5 DEF FlagIInv, Shapes
<1>14. OnTheWay'
  BY <1>2, <1>6, <1>11 DEF FlagIInv, OnTheWay
<1>15. PushesWhatWasAsked'
  BY <1>2 DEF FlagIInv, PushesWhatWasAsked
<1> QED BY <1>12, <1>13, <1>14, <1>15 DEF FlagIInv

LEMMA WebSetsKeeps == ASSUME FlagIInv, NEW f \in Flags, WebSets(f) PROVE FlagIInv'
<1> USE DEF WebSets, rest, Value, With
<1>1. FlagTypeOK'
  BY DEF FlagIInv, FlagTypeOK, Shapes, Values, OnOff, Pushers, NoTask, NothingPending, Task
<1>2. Shapes'
  BY DEF FlagIInv, FlagTypeOK, Shapes, OnOff, Pushers, NoTask, Task
<1>3. OnTheWay'
  BY DEF FlagIInv, FlagTypeOK, Shapes, OnTheWay, OnOff, Pushers, NoTask, Task, NothingPending
<1>4. PushesWhatWasAsked'
  BY DEF FlagIInv, FlagTypeOK, Shapes, PushesWhatWasAsked
<1> QED BY <1>1, <1>2, <1>3, <1>4 DEF FlagIInv

LEMMA FlagTimePassesKeeps == ASSUME FlagIInv, NEW f \in Flags, FlagTimePasses(f) PROVE FlagIInv'
<1> USE DEF FlagTimePasses, rest
<1>1. FlagTypeOK'
  <2> DEFINE row == [pending[f] EXCEPT !.settled = TRUE]
  <2>1. row \in [value : Values, attempts : Nat, settled : BOOLEAN] /\ row.value # "none"
    BY DEF FlagIInv, FlagTypeOK
  <2>2. pending' = [pending EXCEPT ![f] = row]
    BY DEF FlagIInv, FlagTypeOK
  <2> HIDE DEF row
  <2> QED BY <2>1, <2>2 DEF FlagIInv, FlagTypeOK
<1>2. Shapes'
  BY DEF FlagIInv, FlagTypeOK, Shapes, OnOff, Pushers, NoTask, Task
<1>3. OnTheWay'
  BY DEF FlagIInv, FlagTypeOK, Shapes, OnTheWay, OnOff, Pushers, NoTask, Task, NothingPending
<1>4. PushesWhatWasAsked'
  BY DEF FlagIInv, FlagTypeOK, Shapes, PushesWhatWasAsked
<1> QED BY <1>1, <1>2, <1>3, <1>4 DEF FlagIInv

LEMMA LateArrivesKeeps == ASSUME FlagIInv, NEW f \in Flags, NEW v \in OnOff, LateArrives(f, v) PROVE FlagIInv'
<1>1. <<f, v>> \in late /\ v \in asked[f] /\ late' = late \ {<<f, v>>} /\ remote' = With(remote, f, v)
  BY DEF LateArrives, ServerSets, FlagIInv, OnTheWay
<1>2. UNCHANGED <<local, pending, conn, jmap, task, pass, asked, web>>
  BY DEF LateArrives
<1>3. remote' \subseteq Flags /\ PushesWhatWasAsked'
  BY <1>1, <1>2, ServerSetsAsked
<1>4. FlagTypeOK'
  BY <1>1, <1>2, <1>3 DEF FlagIInv, FlagTypeOK
<1>5. Shapes' /\ OnTheWay'
  BY <1>1, <1>2 DEF FlagIInv, Shapes, OnTheWay
<1> QED BY <1>3, <1>4, <1>5 DEF FlagIInv

LEMMA PassStartsKeeps == ASSUME FlagIInv, PassStarts PROVE FlagIInv'
<1> USE DEF PassStarts, rest, ExhaustedRows, IdlePass
<1>1. FlagTypeOK'
  BY DEF FlagIInv, FlagTypeOK, Shapes, Values, OnOff, Pushers, NoTask, NothingPending, Task
<1>2. Shapes'
  <2> DEFINE left == {f \in Flags \ ExhaustedRows : pending[f].value # "none" /\ pending[f].settled}
             todo == {<<f, pending[f].value>> : f \in left}
  <2>1. \A f \in left : f \in Flags /\ pending[f].value \in OnOff
    BY DEF FlagIInv, FlagTypeOK, Values, OnOff
  <2>2. todo \in SUBSET (Flags \X OnOff)
    BY <2>1
  <2>3. pass' = [IdlePass EXCEPT !.phase = "push", !.todo = todo]
    OBVIOUS
  <2> HIDE DEF todo
  <2> QED BY <2>2, <2>3 DEF FlagIInv, Shapes
<1>3. OnTheWay'
  BY DEF FlagIInv, FlagTypeOK, Shapes, OnTheWay, OnOff, Pushers, NoTask, Task, NothingPending
<1>4. PushesWhatWasAsked'
  BY DEF FlagIInv, FlagTypeOK, Shapes, PushesWhatWasAsked
<1> QED BY <1>1, <1>2, <1>3, <1>4 DEF FlagIInv

LEMMA PassPushesKeeps == ASSUME FlagIInv, PassPushes PROVE FlagIInv'
<1> USE DEF PassPushes, rest
<1>1. FlagTypeOK'
  BY DEF FlagIInv, FlagTypeOK, Shapes, Values, OnOff, Pushers, NoTask, NothingPending, Task
<1>2. Shapes'
  <2>1. CASE \E row \in pass.todo :
          /\ task' = [task EXCEPT ![Poller] = [phase |-> "check", flag |-> row[1], value |-> row[2],
                                                mode |-> "bulk", tries |-> 0]]
          /\ pass' = [pass EXCEPT !.todo = @ \ {row}]
    <3>1. PICK row \in pass.todo :
          /\ task' = [task EXCEPT ![Poller] = [phase |-> "check", flag |-> row[1], value |-> row[2],
                                                mode |-> "bulk", tries |-> 0]]
          /\ pass' = [pass EXCEPT !.todo = @ \ {row}]
      BY <2>1
    <3>2. row \in Flags \X OnOff /\ pass.todo \subseteq Flags \X OnOff
      BY DEF FlagIInv, Shapes
    <3>3. [phase |-> "check", flag |-> row[1], value |-> row[2], mode |-> "bulk", tries |-> 0] \in Task
      BY <3>2 DEF Task
    <3>4. task' \in [Pushers -> {NoTask} \cup Task]
      BY <3>1, <3>3 DEF FlagIInv, Shapes, Pushers
    <3>5. pass'.todo \subseteq Flags \X OnOff /\ pass' \in [phase : {"push"}, todo : SUBSET (Flags \X OnOff),
               listed : SUBSET Flags, seen : SUBSET Flags, wanted : SUBSET Flags]
      BY <3>1, <3>2 DEF FlagIInv, Shapes
    <3> QED BY <3>4, <3>5 DEF FlagIInv, Shapes
  <2>2. CASE pass' = [pass EXCEPT !.phase = "list"] /\ UNCHANGED task
    BY <2>2 DEF FlagIInv, Shapes
  <2> QED BY <2>1, <2>2
<1>3. OnTheWay'
  BY DEF FlagIInv, FlagTypeOK, Shapes, OnTheWay, OnOff, Pushers, NoTask, Task, NothingPending
<1>4. PushesWhatWasAsked'
  BY DEF FlagIInv, FlagTypeOK, Shapes, PushesWhatWasAsked
<1> QED BY <1>1, <1>2, <1>3, <1>4 DEF FlagIInv

LEMMA PassListsKeeps == ASSUME FlagIInv, PassLists PROVE FlagIInv'
<1> USE DEF PassLists, rest, PassStep
<1>1. FlagTypeOK'
  BY DEF FlagIInv, FlagTypeOK, Shapes, Values, OnOff, Pushers, NoTask, NothingPending, Task
<1>2. Shapes'
  BY DEF FlagIInv, FlagTypeOK, Shapes, OnOff, Pushers, NoTask, Task
<1>3. OnTheWay'
  BY DEF FlagIInv, FlagTypeOK, Shapes, OnTheWay, OnOff, Pushers, NoTask, Task, NothingPending
<1>4. PushesWhatWasAsked'
  BY DEF FlagIInv, FlagTypeOK, Shapes, PushesWhatWasAsked
<1> QED BY <1>1, <1>2, <1>3, <1>4 DEF FlagIInv

LEMMA PassListFailsKeeps == ASSUME FlagIInv, PassListFails PROVE FlagIInv'
<1> USE DEF PassListFails, rest, IdlePass, PassStep
<1>1. FlagTypeOK'
  BY DEF FlagIInv, FlagTypeOK, Shapes, Values, OnOff, Pushers, NoTask, NothingPending, Task
<1>2. Shapes'
  BY DEF FlagIInv, FlagTypeOK, Shapes, OnOff, Pushers, NoTask, Task
<1>3. OnTheWay'
  BY DEF FlagIInv, FlagTypeOK, Shapes, OnTheWay, OnOff, Pushers, NoTask, Task, NothingPending
<1>4. PushesWhatWasAsked'
  BY DEF FlagIInv, FlagTypeOK, Shapes, PushesWhatWasAsked
<1> QED BY <1>1, <1>2, <1>3, <1>4 DEF FlagIInv

LEMMA PassReadsCacheKeeps == ASSUME FlagIInv, PassReadsCache PROVE FlagIInv'
<1> USE DEF PassReadsCache, rest, IdlePass, PassStep, ServerFlags
<1>1. FlagTypeOK'
  BY DEF FlagIInv, FlagTypeOK, Shapes, Values, OnOff, Pushers, NoTask, NothingPending, Task
<1>2. Shapes'
  BY DEF FlagIInv, FlagTypeOK, Shapes, OnOff, Pushers, NoTask, Task
<1>3. OnTheWay'
  BY DEF FlagIInv, FlagTypeOK, Shapes, OnTheWay, OnOff, Pushers, NoTask, Task, NothingPending
<1>4. PushesWhatWasAsked'
  BY DEF FlagIInv, FlagTypeOK, Shapes, PushesWhatWasAsked
<1> QED BY <1>1, <1>2, <1>3, <1>4 DEF FlagIInv

LEMMA PassWritesIfUnchangedKeeps == ASSUME FlagIInv, PassWritesIfUnchanged PROVE FlagIInv'
<1> USE DEF PassWritesIfUnchanged, rest, IdlePass, PassStep
<1>1. FlagTypeOK'
  BY DEF FlagIInv, FlagTypeOK, Shapes, Values, OnOff, Pushers, NoTask, NothingPending, Task
<1>2. Shapes'
  BY DEF FlagIInv, FlagTypeOK, Shapes, OnOff, Pushers, NoTask, Task
<1>3. OnTheWay'
  BY DEF FlagIInv, FlagTypeOK, Shapes, OnTheWay, OnOff, Pushers, NoTask, Task, NothingPending
<1>4. PushesWhatWasAsked'
  BY DEF FlagIInv, FlagTypeOK, Shapes, PushesWhatWasAsked
<1> QED BY <1>1, <1>2, <1>3, <1>4 DEF FlagIInv

LEMMA PassReadsAgainKeeps == ASSUME FlagIInv, PassReadsAgain PROVE FlagIInv'
<1> USE DEF PassReadsAgain, rest, PassStep
<1>1. FlagTypeOK'
  BY DEF FlagIInv, FlagTypeOK, Shapes, Values, OnOff, Pushers, NoTask, NothingPending, Task
<1>2. Shapes'
  BY DEF FlagIInv, FlagTypeOK, Shapes, OnOff, Pushers, NoTask, Task
<1>3. OnTheWay'
  BY DEF FlagIInv, FlagTypeOK, Shapes, OnTheWay, OnOff, Pushers, NoTask, Task, NothingPending
<1>4. PushesWhatWasAsked'
  BY DEF FlagIInv, FlagTypeOK, Shapes, PushesWhatWasAsked
<1> QED BY <1>1, <1>2, <1>3, <1>4 DEF FlagIInv

LEMMA PassWritesKeeps == ASSUME FlagIInv, PassWrites PROVE FlagIInv'
<1> USE DEF PassWrites, rest, IdlePass, PassStep
<1>1. FlagTypeOK'
  BY DEF FlagIInv, FlagTypeOK, Shapes, Values, OnOff, Pushers, NoTask, NothingPending, Task
<1>2. Shapes'
  BY DEF FlagIInv, FlagTypeOK, Shapes, OnOff, Pushers, NoTask, Task
<1>3. OnTheWay'
  BY DEF FlagIInv, FlagTypeOK, Shapes, OnTheWay, OnOff, Pushers, NoTask, Task, NothingPending
<1>4. PushesWhatWasAsked'
  BY DEF FlagIInv, FlagTypeOK, Shapes, PushesWhatWasAsked
<1> QED BY <1>1, <1>2, <1>3, <1>4 DEF FlagIInv

LEMMA RestartKeeps == ASSUME FlagIInv, Restart PROVE FlagIInv'
<1> USE DEF Restart, rest, IdleConn, IdleJmap, Working, IdlePass
<1>1. FlagTypeOK'
  <2> DEFINE wired == {<<task[p].flag, task[p].value>> : p \in {q \in Pushers : Working(q, "wire")}}
  <2>1. \A p \in Pushers : task[p] # NoTask => task[p] \in Task
    BY DEF FlagIInv, Shapes
  <2>2. wired \subseteq Flags \X OnOff
    BY <2>1 DEF Task
  <2>3. PICK lost \in SUBSET wired : late' = late \cup lost
    OBVIOUS
  <2>4. late' \subseteq Flags \X {"on", "off"}
    BY <2>2, <2>3 DEF FlagIInv, FlagTypeOK, OnOff
  <2>5. \A p \in Pushers : task'[p] = NoTask
    OBVIOUS
  <2> QED BY <2>4, <2>5 DEF FlagIInv, FlagTypeOK
<1>2. Shapes'
  BY DEF FlagIInv, FlagTypeOK, Shapes, OnOff, Pushers, NoTask, Task
<1>3. OnTheWay'
  BY DEF FlagIInv, FlagTypeOK, Shapes, OnTheWay, OnOff, Pushers, NoTask, Task, NothingPending
<1>4. PushesWhatWasAsked'
  BY DEF FlagIInv, FlagTypeOK, Shapes, PushesWhatWasAsked
<1> QED BY <1>1, <1>2, <1>3, <1>4 DEF FlagIInv

LEMMA PassReadsPendingKeeps ==
  ASSUME FlagIInv, NEW next \in {"merged", "remerged"}, NEW phase, PassReadsPending(phase, next)
  PROVE  FlagIInv'
<1> USE DEF PassReadsPending, rest, PassStep, IdlePass
<1>1. FlagTypeOK'
  BY DEF FlagIInv, FlagTypeOK
<1>2. WithPending(ServerFlags(pass.seen, pass.listed)) \subseteq Flags
  BY DEF WithPending
<1>3. Shapes'
  BY <1>2 DEF FlagIInv, Shapes
<1>4. OnTheWay'
  BY DEF FlagIInv, Shapes, OnTheWay
<1>5. PushesWhatWasAsked'
  BY DEF FlagIInv, PushesWhatWasAsked
<1> QED BY <1>1, <1>3, <1>4, <1>5 DEF FlagIInv

LEMMA FlagInitHolds == FlagInit => FlagIInv
<1> SUFFICES ASSUME FlagInit PROVE FlagIInv
  OBVIOUS
<1>1. PICK flags \in SUBSET Flags : FlagInitWith(flags, "idle")
  BY DEF FlagInit
<1> USE <1>1 DEF FlagInitWith, NothingPending, IdleConn, IdleJmap, IdlePass, NoTask
<1>2. FlagTypeOK
  BY DEF FlagTypeOK, Values
<1>3. Shapes
  BY DEF Shapes, OnOff, Pushers
<1>4. OnTheWay
  BY DEF OnTheWay, Differ
<1>5. PushesWhatWasAsked
  BY DEF PushesWhatWasAsked
<1> QED BY <1>2, <1>3, <1>4, <1>5 DEF FlagIInv

LEMMA FlagStepKeeps == FlagIInv /\ [FlagNext]_flagVars => FlagIInv'
<1> SUFFICES ASSUME FlagIInv, [FlagNext]_flagVars PROVE FlagIInv'
  OBVIOUS
<1>1. CASE \E c \in Conns : StoreReads(c) \/ ConnStep(c) \/ ConnDrops(c)
  BY <1>1, StoreReadsKeeps, StoreWritesKeeps, StoreRecordsKeeps, ConnDropsKeeps DEF ConnStep
<1>2. CASE \E j \in JmapClients : JmapReads(j) \/ JmapStep(j)
  BY <1>2, JmapReadsKeeps, JmapCallsKeeps, JmapWritesKeeps DEF JmapStep
<1>3. CASE \E p \in Pushers : PushStep(p)
  BY <1>3, PushChecksKeeps, PushCallsKeeps, PushSucceedsKeeps, PushFailsKeeps DEF PushStep
<1>4. CASE \/ \E f \in Flags : WebSets(f) \/ FlagTimePasses(f)
           \/ \E f \in Flags, v \in {"on", "off"} : LateArrives(f, v)
  BY <1>4, WebSetsKeeps, FlagTimePassesKeeps, LateArrivesKeeps DEF OnOff
<1>5. CASE PassGoesOn
  BY <1>5, PassStartsKeeps, PassPushesKeeps, PassReadsCacheKeeps, PassReadsPendingKeeps,
     PassWritesIfUnchangedKeeps, PassReadsAgainKeeps, PassWritesKeeps DEF PassGoesOn
<1>6. CASE PassLists \/ PassListFails \/ Restart
  BY <1>6, PassListsKeeps, PassListFailsKeeps, RestartKeeps
<1>7. CASE UNCHANGED flagVars
  BY <1>7 DEF flagVars, rest, FlagIInv, FlagTypeOK, Shapes, OnTheWay, PushesWhatWasAsked
<1> QED BY <1>1, <1>2, <1>3, <1>4, <1>5, <1>6, <1>7 DEF FlagNext

(* Flags, pending rows and tasks keep their types (STORE, Email/set, the push
   tasks and the sync pass together). *)
THEOREM FlagTypesHold == FlagSpec => []FlagTypeOK
<1>1. FlagIInv => FlagTypeOK
  BY DEF FlagIInv
<1> QED BY FlagInitHolds, FlagStepKeeps, <1>1, PTL DEF FlagSpec

(* However many connections, requests and tasks interleave, fail and are cut
   short, Aster's flag differs from what the user's other clients left only by
   a value a mail app asked for (push_flag_status, apply_update,
   retry_pending_flag_pushes). *)
THEOREM OnlyAskedIsPushed == FlagSpec => []PushesWhatWasAsked
<1>1. FlagIInv => PushesWhatWasAsked
  BY DEF FlagIInv
<1> QED BY FlagInitHolds, FlagStepKeeps, <1>1, PTL DEF FlagSpec
=============================================================================
