------------------------------- MODULE Drain --------------------------------
(***************************************************************************)
(* Stopping the bridge, so that the caller may then wipe its data.         *)
(*                                                                         *)
(* Everything that reads or writes the account's data runs under a WorkGuard*)
(* (a read guard of the lock "work"): the workers of the runtime, every    *)
(* connection and HTTP request, and blocking jobs, which outlive the task  *)
(* that started them.  Stopping sets the flag "closed", at which all but   *)
(* the blocking jobs end, aborts and awaits the tasks the runtime started, *)
(* and then takes the write side of the lock, which it gets when no guard  *)
(* is left.  Listeners hold no guard; they end only when aborted.          *)
(***************************************************************************)
EXTENDS FiniteSets

CONSTANTS
  Workers,    (* loops of the runtime that end only when closed            *)
  Listeners,  (* accept loops of the runtime                               *)
  Requests,   (* connections and HTTP requests that may come               *)
  Jobs,       (* blocking jobs that a request or a worker may start        *)
  Stoppers,   (* calls of stop_and_wait                                    *)
  Signals,    (* calls of stop alone: the stop signal, stop_runtime        *)
  Observers   (* calls of is_drained                                       *)

Work == Workers \cup Requests \cup Jobs
Tasks == Work \cup Listeners
StopCallers == Stoppers \cup Signals \cup Observers

ASSUME WorkersAssumption == Workers # {}
ASSUME NamesAssumption ==
  /\ Workers \cap (Requests \cup Jobs \cup Listeners) = {}
  /\ Requests \cap (Jobs \cup Listeners) = {} /\ Jobs \cap Listeners = {}
  /\ Stoppers \cap (Signals \cup Observers) = {} /\ Signals \cap Observers = {}

VARIABLES
  task,      \* where each task stands: not started, asked for a guard,
             \* running, over
  guards,    \* the tasks that hold a WorkGuard
  queued,    \* the stoppers that wait for the write side of the lock
  closed,    \* the flag of close_connections
  reasoned,  \* a stop reason has been sent: the bridge is not running
  handles,   \* Inner.handles: tasks not yet aborted by a stop
  stopping,  \* Inner.stopping: aborted tasks nobody awaits yet
  aborted,   \* tasks that have been aborted
  caller,    \* the step each caller is at
  mine       \* the handles each stopper took, to abort or to await

drainVars == <<task, guards, queued, closed, reasoned, handles, stopping, aborted,
          caller, mine>>

DrainInit ==
  /\ task = [t \in Tasks |-> IF t \in Workers \cup Listeners THEN "running" ELSE "new"]
  /\ guards = Workers
  /\ queued = {}
  /\ closed = FALSE /\ reasoned = FALSE
  /\ handles = Workers \cup Listeners
  /\ stopping = {} /\ aborted = {}
  /\ caller = [c \in StopCallers |-> "start"]
  /\ mine = [c \in StopCallers |-> {}]

Goes(t, state) == task' = [task EXCEPT ![t] = state]

UnchangedStop ==
  UNCHANGED <<queued, closed, reasoned, handles, stopping, aborted, caller, mine>>

-----------------------------------------------------------------------------
(* Work: ConnectionShutdown::hold and what runs under its guard.           *)

(* A request comes in; a job is started by work that runs.                 *)
MayStart(w) ==
  /\ task[w] = "new"
  /\ w \in Requests \/ (\E v \in Workers \cup Requests : w \in Jobs /\ task[v] = "running")

(* Mutant: the flag is looked at before the guard is taken, not after.     *)
HoldChecksFirst(w) ==
  /\ \/ MayStart(w) /\ ~closed /\ Goes(w, "asking") /\ UNCHANGED guards
     \/ MayStart(w) /\ closed /\ Goes(w, "over") /\ UNCHANGED guards
     \/ task[w] = "asking" /\ queued = {} /\ Goes(w, "running") /\ guards' = guards \cup {w}
  /\ UnchangedStop

(* try_read_owned, which fails while a writer waits; then the flag.        *)
Hold(w) ==
  /\ \/ MayStart(w) /\ queued = {} /\ Goes(w, "asking") /\ guards' = guards \cup {w}
     \/ MayStart(w) /\ queued # {} /\ Goes(w, "over") /\ UNCHANGED guards
     \/ task[w] = "asking" /\ ~closed /\ Goes(w, "running") /\ UNCHANGED guards
     \/ task[w] = "asking" /\ closed /\ Goes(w, "over") /\ guards' = guards \ {w}
  /\ UnchangedStop

(* Mutant: a cancelled future leaves its guard behind.                     *)
EndsKeepingGuard(w) ==
  /\ task[w] = "running"
  /\ Goes(w, "over") /\ UNCHANGED guards /\ UnchangedStop

(* Work ends; workers only when until_closed or an abort drops them.       *)
WorkEnds(w) ==
  /\ task[w] = "running"
  /\ w \in Workers => closed \/ w \in aborted
  /\ w \in Listeners => w \in aborted
  /\ Goes(w, "over") /\ guards' = guards \ {w} /\ UnchangedStop

-----------------------------------------------------------------------------
(* Inner::stop, stop_and_wait and is_drained.                              *)

Step(c, from, to) == caller[c] = from /\ caller' = [caller EXCEPT ![c] = to]

UnchangedWork == UNCHANGED <<task, guards>>

(* The reason is sent, if none was.                                        *)
SendsReason(c) ==
  /\ c \notin Observers /\ Step(c, "start", "reasoned")
  /\ reasoned' = TRUE
  /\ UnchangedWork /\ UNCHANGED <<queued, closed, handles, stopping, aborted, mine>>

ClosesConnections(c) ==
  /\ Step(c, "reasoned", "closed")
  /\ closed' = TRUE
  /\ UnchangedWork /\ UNCHANGED <<queued, reasoned, handles, stopping, aborted, mine>>

TakesHandles(c) ==
  /\ Step(c, "closed", "taken")
  /\ mine' = [mine EXCEPT ![c] = handles] /\ handles' = {}
  /\ UnchangedWork /\ UNCHANGED <<queued, closed, reasoned, stopping, aborted>>

(* Mutant: the handles are kept but not aborted.                           *)
KeepsHandles(c) ==
  /\ Step(c, "taken", "stopped")
  /\ stopping' = stopping \cup mine[c]
  /\ mine' = [mine EXCEPT ![c] = {}]
  /\ UnchangedWork /\ UNCHANGED <<queued, closed, reasoned, handles, aborted>>

(* The loop over the handles runs under the lock of "stopping".            *)
AbortsHandles(c) ==
  /\ Step(c, "taken", "stopped")
  /\ aborted' = aborted \cup mine[c] /\ stopping' = stopping \cup mine[c]
  /\ mine' = [mine EXCEPT ![c] = {}]
  /\ UnchangedWork /\ UNCHANGED <<queued, closed, reasoned, handles>>

TakesStopping(c) ==
  /\ c \in Stoppers /\ Step(c, "stopped", "awaiting")
  /\ mine' = [mine EXCEPT ![c] = stopping] /\ stopping' = {}
  /\ UnchangedWork /\ UNCHANGED <<queued, closed, reasoned, handles, aborted>>

(* Every awaited task is over; close_and_wait joins the lock's queue.      *)
AwaitsTasks(c) ==
  /\ \A t \in mine[c] : task[t] = "over"
  /\ Step(c, "awaiting", "queued")
  /\ queued' = queued \cup {c}
  /\ UnchangedWork
  /\ UNCHANGED <<closed, reasoned, handles, stopping, aborted, mine>>

(* The write guard is granted, and dropped at once.                        *)
GetsWrite(c) ==
  /\ guards = {} /\ Step(c, "queued", "done")
  /\ queued' = queued \ {c}
  /\ UnchangedWork
  /\ UNCHANGED <<closed, reasoned, handles, stopping, aborted, mine>>

(* is_drained: not running, then no task of "stopping" left, then the lock *)
(* is free.                                                                *)
SeesStopped(c) ==
  /\ c \in Observers
  /\ \/ reasoned /\ Step(c, "start", "seen")
     \/ Step(c, "seen", IF \A t \in stopping : task[t] = "over" THEN "settled" ELSE "start")
     \/ Step(c, "settled", IF guards = {} /\ queued = {} THEN "done" ELSE "start")
  /\ UnchangedWork
  /\ UNCHANGED <<queued, closed, reasoned, handles, stopping, aborted, mine>>

-----------------------------------------------------------------------------
StopStep(c) ==
  \/ SendsReason(c) \/ ClosesConnections(c) \/ TakesHandles(c) \/ AbortsHandles(c)
  \/ TakesStopping(c) \/ AwaitsTasks(c) \/ GetsWrite(c)

DrainNext ==
  \/ \E w \in Work : Hold(w)
  \/ \E t \in Tasks : WorkEnds(t)
  \/ \E c \in StopCallers : StopStep(c) \/ SeesStopped(c)

DrainSpec == DrainInit /\ [][DrainNext]_drainVars

(* Tasks are polled and blocking jobs end, a task that asked for a guard   *)
(* goes on, and a caller of stop goes on; nobody has to call it.           *)
DrainFairness ==
  /\ \A w \in Work : WF_drainVars(task[w] = "asking" /\ Hold(w))
  /\ \A t \in Tasks : WF_drainVars(WorkEnds(t))
  /\ \A c \in StopCallers : WF_drainVars(caller[c] # "start" /\ StopStep(c))

DrainFairSpec == DrainSpec /\ DrainFairness

-----------------------------------------------------------------------------
(* Properties.                                                             *)

(* Work has a guard exactly while it asks for it or runs: no guard is left *)
(* behind, which would hold up every later stop, and none is missing.      *)
GuardsMatch == guards = {w \in Work : task[w] \in {"asking", "running"}}

DrainTypeOK ==
  /\ task \in [Tasks -> {"new", "asking", "running", "over"}]
  /\ guards \subseteq Work /\ queued \subseteq StopCallers
  /\ closed \in BOOLEAN /\ reasoned \in BOOLEAN
  /\ handles \subseteq Tasks /\ stopping \subseteq Tasks /\ aborted \subseteq Tasks
  /\ caller \in [StopCallers -> {"start", "reasoned", "closed", "taken", "stopped",
                             "awaiting", "queued", "done", "seen", "settled"}]
  /\ mine \in [StopCallers -> SUBSET Tasks]
  /\ GuardsMatch

(* Once stop_and_wait has returned or is_drained has said yes, nothing     *)
(* touches the account's data any more: no work runs, and none begins.     *)
QuietOnceDrained ==
  \A c \in StopCallers : caller[c] = "done" => \A w \in Work : task[w] # "running"

(* Every stop that has begun to wait ends.                                 *)
StopCompletes ==
  \A c \in Stoppers : caller[c] = "reasoned" ~> caller[c] = "done"

(* The inductive invariant behind it.  The workers hold their guards until *)
(* the flag is set, so a lock without guards means that it is set; and     *)
(* with the flag set no task passes from asking to running.                *)
DrainInv ==
  /\ DrainTypeOK
  /\ ~closed => \A w \in Workers : task[w] = "running" \/ w \in aborted
  /\ aborted # {} => closed
  /\ \A c \in StopCallers : caller[c] \notin {"start", "reasoned", "seen", "settled"} => closed
  /\ \A c \in StopCallers : caller[c] = "done" => closed /\ \A w \in Work : task[w] # "running"
=============================================================================
