--------------------------- MODULE ServicesProofs ---------------------------
(***************************************************************************)
(* Three parts that run beside the mail: the drain of a stop, the refresh  *)
(* of the session's tokens, and the import job, for any number of tasks,   *)
(* callers and imports, whatever fails and in whatever order they run.     *)
(***************************************************************************)
EXTENDS Drain, TokenRefresh, ImportJob, TLAPS

-----------------------------------------------------------------------------
(* Shutdown: nothing runs once a stop has been waited for. *)

LEMMA InitHolds == DrainInit => DrainInv
BY NamesAssumption DEF DrainInit, DrainInv, DrainTypeOK, GuardsMatch, Work, Tasks, StopCallers

(* Tasks that ask for a guard, get it or are refused.                      *)
LEMMA HoldHolds == \A w \in Work : DrainInv /\ Hold(w) => DrainInv'
<1> SUFFICES ASSUME NEW w \in Work, DrainInv, Hold(w) PROVE DrainInv'
  OBVIOUS
<1> USE NamesAssumption DEF DrainInv, Hold, UnchangedStop, Goes, MayStart, Work,
                            Tasks, StopCallers
<1>1. CASE MayStart(w) /\ queued = {} /\ Goes(w, "asking") /\ guards' = guards \cup {w}
  BY <1>1 DEF DrainTypeOK, GuardsMatch
<1>2. CASE MayStart(w) /\ queued # {} /\ Goes(w, "over") /\ UNCHANGED guards
  BY <1>2 DEF DrainTypeOK, GuardsMatch
<1>3. CASE task[w] = "asking" /\ ~closed /\ Goes(w, "running") /\ UNCHANGED guards
  BY <1>3 DEF DrainTypeOK, GuardsMatch
<1>4. CASE task[w] = "asking" /\ closed /\ Goes(w, "over") /\ guards' = guards \ {w}
  BY <1>4 DEF DrainTypeOK, GuardsMatch
<1> QED BY <1>1, <1>2, <1>3, <1>4

LEMMA EndsHolds == \A t \in Tasks : DrainInv /\ WorkEnds(t) => DrainInv'
BY NamesAssumption
   DEF DrainInv, WorkEnds, UnchangedStop, Goes, DrainTypeOK, GuardsMatch, Work, Tasks, StopCallers

(* The steps of stop and of stop_and_wait up to the write side of the lock.*)
LEMMA StopHolds ==
  \A c \in StopCallers :
    /\ DrainInv
    /\ \/ SendsReason(c) \/ ClosesConnections(c) \/ TakesHandles(c)
       \/ AbortsHandles(c) \/ TakesStopping(c) \/ AwaitsTasks(c)
    => DrainInv'
<1> SUFFICES ASSUME NEW c \in StopCallers, DrainInv,
                    \/ SendsReason(c) \/ ClosesConnections(c) \/ TakesHandles(c)
                    \/ AbortsHandles(c) \/ TakesStopping(c) \/ AwaitsTasks(c)
             PROVE  DrainInv'
  OBVIOUS
<1> USE NamesAssumption DEF DrainInv, DrainTypeOK, GuardsMatch, Step, UnchangedWork,
                            StopCallers
<1>1. CASE SendsReason(c)
  <2>1. DrainTypeOK' BY <1>1 DEF SendsReason, Tasks, Work
  <2>2. \A d \in StopCallers : caller'[d] = "done" => caller[d] = "done"
    BY <1>1 DEF SendsReason
  <2>3. \A d \in StopCallers :
          caller'[d] \notin {"start", "reasoned", "seen", "settled"} => closed'
    BY <1>1 DEF SendsReason
  <2> QED BY <1>1, <2>1, <2>2, <2>3 DEF SendsReason
<1>2. CASE ClosesConnections(c) BY <1>2 DEF ClosesConnections
<1>3. CASE TakesHandles(c)
  <2>1. DrainTypeOK' BY <1>3 DEF TakesHandles, Tasks, Work
  <2>2. \A d \in StopCallers : caller'[d] = "done" => caller[d] = "done"
    BY <1>3 DEF TakesHandles
  <2>3. \A d \in StopCallers :
          caller'[d] \notin {"start", "reasoned", "seen", "settled"} => closed'
    BY <1>3 DEF TakesHandles
  <2> QED BY <1>3, <2>1, <2>2, <2>3 DEF TakesHandles
<1>4. CASE AbortsHandles(c)
  <2>1. DrainTypeOK' BY <1>4 DEF AbortsHandles, Tasks, Work
  <2>2. \A d \in StopCallers : caller'[d] = "done" => caller[d] = "done"
    BY <1>4 DEF AbortsHandles
  <2>3. \A d \in StopCallers :
          caller'[d] \notin {"start", "reasoned", "seen", "settled"} => closed'
    BY <1>4 DEF AbortsHandles
  <2> QED BY <1>4, <2>1, <2>2, <2>3 DEF AbortsHandles
<1>5. CASE TakesStopping(c) BY <1>5 DEF TakesStopping
<1>6. CASE AwaitsTasks(c)
  <2>1. DrainTypeOK' BY <1>6 DEF AwaitsTasks, Tasks, Work
  <2>2. \A d \in StopCallers : caller'[d] = "done" => caller[d] = "done"
    BY <1>6 DEF AwaitsTasks
  <2>3. \A d \in StopCallers :
          caller'[d] \notin {"start", "reasoned", "seen", "settled"} => closed'
    BY <1>6 DEF AwaitsTasks
  <2> QED BY <1>6, <2>1, <2>2, <2>3 DEF AwaitsTasks
<1> QED BY <1>1, <1>2, <1>3, <1>4, <1>5, <1>6

(* Without guards nothing runs, and the flag is set.                       *)
LEMMA NoGuardsNoWork ==
  DrainInv /\ guards = {} => closed /\ \A w \in Work : task[w] # "running"
BY WorkersAssumption DEF DrainInv, DrainTypeOK, GuardsMatch, Work

LEMMA DoneHolds ==
  \A c \in StopCallers : DrainInv /\ (GetsWrite(c) \/ SeesStopped(c)) => DrainInv'
<1> SUFFICES ASSUME NEW c \in StopCallers, DrainInv, GetsWrite(c) \/ SeesStopped(c)
             PROVE  DrainInv'
  OBVIOUS
<1> USE NamesAssumption DEF DrainInv, DrainTypeOK, GuardsMatch, Step, UnchangedWork,
                            StopCallers
<1>1. CASE GetsWrite(c) BY <1>1, NoGuardsNoWork DEF GetsWrite
<1>2. CASE SeesStopped(c) BY <1>2, NoGuardsNoWork DEF SeesStopped
<1> QED BY <1>1, <1>2

LEMMA StepHolds == DrainInv /\ [DrainNext]_drainVars => DrainInv'
<1> SUFFICES ASSUME DrainInv, [DrainNext]_drainVars PROVE DrainInv'
  OBVIOUS
<1>1. CASE \E w \in Work : Hold(w) BY <1>1, HoldHolds
<1>2. CASE \E t \in Tasks : WorkEnds(t) BY <1>2, EndsHolds
<1>3. CASE \E c \in StopCallers : StopStep(c) \/ SeesStopped(c)
  BY <1>3, StopHolds, DoneHolds DEF StopStep
<1>4. CASE UNCHANGED drainVars
  BY <1>4 DEF drainVars, DrainInv, DrainTypeOK, GuardsMatch
<1> QED BY <1>1, <1>2, <1>3, <1>4 DEF DrainNext

(* The invariant holds for any workers, listeners, requests, jobs and      *)
(* callers: the workers' guards, and the order of hold, carry it.          *)
THEOREM DrainInvariant == DrainSpec => []DrainInv
BY InitHolds, StepHolds, PTL DEF DrainSpec

(* Work and guards agree.                                                  *)
THEOREM TypeCorrect == DrainSpec => []DrainTypeOK
<1>1. DrainInv => DrainTypeOK BY DEF DrainInv
<1> QED BY <1>1, DrainInvariant, PTL

(* Once stop_and_wait has returned, or is_drained has said yes, no work    *)
(* runs and none begins.                                                   *)
THEOREM QuietAfterDrain == DrainSpec => []QuietOnceDrained
<1>1. DrainInv => QuietOnceDrained BY DEF DrainInv, QuietOnceDrained
<1> QED BY <1>1, DrainInvariant, PTL

-----------------------------------------------------------------------------
(* Tokens: the session never holds older ones than the backend issued. *)

Stages == {"idle", "gate", "refresh", "login", "store", "done", "settle"}
InGate == {"refresh", "login", "store", "done"}
Tokens == [access : {"new", "old", "none"}, refresh : {"new", "old", "none", "kept"}]

RefreshTypeOK ==
  /\ access \in {"new", "old"} /\ refresh \in {"new", "old", "none"}
  /\ pc \in [Refreshers -> Stages] /\ answer \in [Refreshers -> Tokens]
  /\ gate \in Refreshers \union {"free"}

(* One caller at a time is past REFRESH_GATE. *)
Gated == \A c \in Refreshers : pc[c] \in InGate <=> gate = c

(* An answer in hand is the newest there is, for nobody else could ask. *)
InHand ==
  \A c \in Refreshers : pc[c] = "store" =>
    /\ answer[c].access = "new" /\ answer[c].refresh \in {"new", "none", "kept"}
    /\ answer[c].refresh = "kept" => refresh = "new"

(* Otherwise the newest tokens are in the session, or their answer was lost. *)
Held ==
  ~lost =>
    /\ (\A c \in Refreshers : pc[c] # "store") => access = "new" /\ refresh \in {"new", "none"}
    /\ pc["loop"] = "refresh" => refresh = "new"

RefreshIInv == RefreshTypeOK /\ Gated /\ InHand /\ Held

LEMMA RefreshInitHolds == RefreshInit => RefreshIInv
BY DEF RefreshInit, RefreshInitWith, RefreshIInv, RefreshTypeOK, Gated, InHand, Held, Refreshers, Stages,
   InGate, Tokens, NoTokens

LEMMA TimerDueKeeps == ASSUME RefreshIInv, TimerDue PROVE RefreshIInv'
<1> USE DEF TimerDue, LoopBegins, At, session, backend, counts
<1>1. RefreshTypeOK'
  BY DEF RefreshIInv, RefreshTypeOK, Refreshers, Stages, Tokens, NoTokens, Issues, Older
<1>2. Gated'
  BY DEF RefreshIInv, RefreshTypeOK, Gated, Refreshers, InGate, Issues
<1>3. InHand'
  BY DEF RefreshIInv, RefreshTypeOK, Gated, InHand, Refreshers, InGate, Issues
<1>4. Held'
  BY DEF RefreshIInv, RefreshTypeOK, Gated, InHand, Held, Refreshers, InGate, Issues
<1> QED BY <1>1, <1>2, <1>3, <1>4 DEF RefreshIInv

LEMMA RequestTakenKeeps == ASSUME RefreshIInv, RequestTaken PROVE RefreshIInv'
<1> USE DEF RequestTaken, LoopBegins, At, session, backend, counts
<1>1. RefreshTypeOK'
  BY DEF RefreshIInv, RefreshTypeOK, Refreshers, Stages, Tokens, NoTokens, Issues, Older
<1>2. Gated'
  BY DEF RefreshIInv, RefreshTypeOK, Gated, Refreshers, InGate, Issues
<1>3. InHand'
  BY DEF RefreshIInv, RefreshTypeOK, Gated, InHand, Refreshers, InGate, Issues
<1>4. Held'
  BY DEF RefreshIInv, RefreshTypeOK, Gated, InHand, Held, Refreshers, InGate, Issues
<1> QED BY <1>1, <1>2, <1>3, <1>4 DEF RefreshIInv

LEMMA GapPassesKeeps == ASSUME RefreshIInv, GapPasses PROVE RefreshIInv'
<1> USE DEF GapPasses, At, session, backend, counts
<1>1. RefreshTypeOK'
  BY DEF RefreshIInv, RefreshTypeOK, Refreshers, Stages, Tokens, NoTokens, Issues, Older
<1>2. Gated'
  BY DEF RefreshIInv, RefreshTypeOK, Gated, Refreshers, InGate, Issues
<1>3. InHand'
  BY DEF RefreshIInv, RefreshTypeOK, Gated, InHand, Refreshers, InGate, Issues
<1>4. Held'
  BY DEF RefreshIInv, RefreshTypeOK, Gated, InHand, Held, Refreshers, InGate, Issues
<1> QED BY <1>1, <1>2, <1>3, <1>4 DEF RefreshIInv

LEMMA HealBeginsKeeps == ASSUME RefreshIInv, HealBegins PROVE RefreshIInv'
<1> USE DEF HealBegins, At, session, backend, counts
<1>1. RefreshTypeOK'
  BY DEF RefreshIInv, RefreshTypeOK, Refreshers, Stages, Tokens, NoTokens, Issues, Older
<1>2. Gated'
  BY DEF RefreshIInv, RefreshTypeOK, Gated, Refreshers, InGate, Issues
<1>3. InHand'
  BY DEF RefreshIInv, RefreshTypeOK, Gated, InHand, Refreshers, InGate, Issues
<1>4. Held'
  BY DEF RefreshIInv, RefreshTypeOK, Gated, InHand, Held, Refreshers, InGate, Issues
<1> QED BY <1>1, <1>2, <1>3, <1>4 DEF RefreshIInv

LEMMA AsksRefreshKeeps == ASSUME RefreshIInv, AsksRefresh PROVE RefreshIInv'
<1> USE DEF AsksRefresh, At, session, backend, counts
<1>1. RefreshTypeOK'
  BY DEF RefreshIInv, RefreshTypeOK, Refreshers, Stages, Tokens, NoTokens, Issues, Older
<1>2. Gated'
  BY DEF RefreshIInv, RefreshTypeOK, Gated, Refreshers, InGate, Issues
<1>3. InHand'
  BY DEF RefreshIInv, RefreshTypeOK, Gated, InHand, Refreshers, InGate, Issues
<1>4. Held'
  BY DEF RefreshIInv, RefreshTypeOK, Gated, InHand, Held, Refreshers, InGate, Issues
<1> QED BY <1>1, <1>2, <1>3, <1>4 DEF RefreshIInv

LEMMA SettlesKeeps == ASSUME RefreshIInv, Settles PROVE RefreshIInv'
<1> USE DEF Settles, At, session, backend, counts
<1>1. RefreshTypeOK'
  BY DEF RefreshIInv, RefreshTypeOK, Refreshers, Stages, Tokens, NoTokens, Issues, Older
<1>2. Gated'
  BY DEF RefreshIInv, RefreshTypeOK, Gated, Refreshers, InGate, Issues
<1>3. InHand'
  BY DEF RefreshIInv, RefreshTypeOK, Gated, InHand, Refreshers, InGate, Issues
<1>4. Held'
  BY DEF RefreshIInv, RefreshTypeOK, Gated, InHand, Held, Refreshers, InGate, Issues
<1> QED BY <1>1, <1>2, <1>3, <1>4 DEF RefreshIInv

LEMMA CallRefusedKeeps == ASSUME RefreshIInv, CallRefused PROVE RefreshIInv'
<1> USE DEF CallRefused, At, session, backend, counts
<1>1. RefreshTypeOK'
  BY DEF RefreshIInv, RefreshTypeOK, Refreshers, Stages, Tokens, NoTokens, Issues, Older
<1>2. Gated'
  BY DEF RefreshIInv, RefreshTypeOK, Gated, Refreshers, InGate, Issues
<1>3. InHand'
  BY DEF RefreshIInv, RefreshTypeOK, Gated, InHand, Refreshers, InGate, Issues
<1>4. Held'
  BY DEF RefreshIInv, RefreshTypeOK, Gated, InHand, Held, Refreshers, InGate, Issues
<1> QED BY <1>1, <1>2, <1>3, <1>4 DEF RefreshIInv

LEMMA EnvironmentKeeps == ASSUME RefreshIInv, Environment PROVE RefreshIInv'
<1> USE DEF Environment, At, session, backend, counts
<1>1. RefreshTypeOK'
  BY DEF RefreshIInv, RefreshTypeOK, Refreshers, Stages, Tokens, NoTokens, Issues, Older
<1>2. Gated'
  BY DEF RefreshIInv, RefreshTypeOK, Gated, Refreshers, InGate, Issues
<1>3. InHand'
  BY DEF RefreshIInv, RefreshTypeOK, Gated, InHand, Refreshers, InGate, Issues
<1>4. Held'
  BY DEF RefreshIInv, RefreshTypeOK, Gated, InHand, Held, Refreshers, InGate, Issues
<1> QED BY <1>1, <1>2, <1>3, <1>4 DEF RefreshIInv

LEMMA TakesGateKeeps == ASSUME RefreshIInv, NEW c \in Refreshers, TakesGate(c) PROVE RefreshIInv'
<1> USE DEF TakesGate, At, session, backend, counts
<1>1. RefreshTypeOK'
  BY DEF RefreshIInv, RefreshTypeOK, Refreshers, Stages, Tokens, NoTokens, Issues, Older
<1>2. Gated'
  BY DEF RefreshIInv, RefreshTypeOK, Gated, Refreshers, InGate, Issues
<1>3. InHand'
  BY DEF RefreshIInv, RefreshTypeOK, Gated, InHand, Refreshers, InGate, Issues
<1>4. Held'
  BY DEF RefreshIInv, RefreshTypeOK, Gated, InHand, Held, Refreshers, InGate, Issues
<1> QED BY <1>1, <1>2, <1>3, <1>4 DEF RefreshIInv

LEMMA AsksLoginKeeps == ASSUME RefreshIInv, NEW c \in Refreshers, AsksLogin(c) PROVE RefreshIInv'
<1> USE DEF AsksLogin, At, session, backend, counts
<1>1. RefreshTypeOK'
  BY DEF RefreshIInv, RefreshTypeOK, Refreshers, Stages, Tokens, NoTokens, Issues, Older
<1>2. Gated'
  BY DEF RefreshIInv, RefreshTypeOK, Gated, Refreshers, InGate, Issues
<1>3. InHand'
  BY DEF RefreshIInv, RefreshTypeOK, Gated, InHand, Refreshers, InGate, Issues
<1>4. Held'
  BY DEF RefreshIInv, RefreshTypeOK, Gated, InHand, Held, Refreshers, InGate, Issues
<1> QED BY <1>1, <1>2, <1>3, <1>4 DEF RefreshIInv

LEMMA StoresKeeps == ASSUME RefreshIInv, NEW c \in Refreshers, Stores(c) PROVE RefreshIInv'
<1> USE DEF Stores, At, session, backend, counts
<1>1. RefreshTypeOK'
  <2>1. access' = "new" /\ refresh' \in {"new", "old", "none"}
    BY DEF RefreshIInv, RefreshTypeOK, InHand
  <2>2. answer' \in [Refreshers -> Tokens]
    BY DEF RefreshIInv, RefreshTypeOK, Tokens, NoTokens
  <2>3. pc' \in [Refreshers -> Stages]
    BY DEF RefreshIInv, RefreshTypeOK, Stages
  <2> QED BY <2>1, <2>2, <2>3 DEF RefreshIInv, RefreshTypeOK
<1>2. Gated'
  BY DEF RefreshIInv, RefreshTypeOK, Gated, Refreshers, InGate, Issues
<1>3. InHand'
  BY DEF RefreshIInv, RefreshTypeOK, Gated, InHand, Refreshers, InGate, Issues
<1>4. Held'
  BY DEF RefreshIInv, RefreshTypeOK, Gated, InHand, Held, Refreshers, InGate, Issues
<1> QED BY <1>1, <1>2, <1>3, <1>4 DEF RefreshIInv

LEMMA LeavesGateKeeps == ASSUME RefreshIInv, NEW c \in Refreshers, LeavesGate(c) PROVE RefreshIInv'
<1> USE DEF LeavesGate, At, session, backend, counts
<1>1. RefreshTypeOK'
  BY DEF RefreshIInv, RefreshTypeOK, Refreshers, Stages, Tokens, NoTokens, Issues, Older
<1>2. Gated'
  BY DEF RefreshIInv, RefreshTypeOK, Gated, Refreshers, InGate, Issues
<1>3. InHand'
  BY DEF RefreshIInv, RefreshTypeOK, Gated, InHand, Refreshers, InGate, Issues
<1>4. Held'
  BY DEF RefreshIInv, RefreshTypeOK, Gated, InHand, Held, Refreshers, InGate, Issues
<1> QED BY <1>1, <1>2, <1>3, <1>4 DEF RefreshIInv

LEMMA RefreshStepKeeps == RefreshIInv /\ [RefreshNext]_refreshVars => RefreshIInv'
<1> SUFFICES ASSUME RefreshIInv, [RefreshNext]_refreshVars PROVE RefreshIInv'
  OBVIOUS
<1>1. CASE RefreshNext
  BY <1>1, TimerDueKeeps, RequestTakenKeeps, GapPassesKeeps, HealBeginsKeeps, AsksRefreshKeeps, SettlesKeeps, CallRefusedKeeps, EnvironmentKeeps,
     TakesGateKeeps, AsksLoginKeeps, StoresKeeps, LeavesGateKeeps DEF RefreshNext, CallerStep
<1>2. CASE UNCHANGED refreshVars
  BY <1>2 DEF refreshVars, session, backend, counts, RefreshIInv, RefreshTypeOK, Gated, InHand, Held
<1> QED BY <1>1, <1>2

(* Whenever nobody is past the gate the session holds the newest tokens issued,
   unless their answer was lost (REFRESH_GATE, refresh_access_token). *)
THEOREM NewestIsHeld == RefreshSpec => []NewestHeld
<1>1. RefreshIInv => NewestHeld
  BY DEF RefreshIInv, Gated, Held, NewestHeld, Refreshers, InGate
<1> QED BY RefreshInitHolds, RefreshStepKeeps, <1>1, PTL DEF RefreshSpec

-----------------------------------------------------------------------------
(* Imports: a message that was stored is whole. *)

ImportPlaces == {"idle", "job", "closer", "store", "upload", "keep", "done"}
ImportEnds == {"none", "stored", "duplicate", "failed", "left"}

ImportTypeOK ==
  /\ copy \in {"absent", "bare", "whole"} /\ abandoned \in BOOLEAN
  /\ at \in [Imports -> ImportPlaces]
  /\ ended \in [Imports -> ImportEnds]
  /\ retried \in [Imports -> BOOLEAN]

(* One import completes the copy, and it is the one that put it there. *)
OneCompletes ==
  \A i \in Imports :
    /\ at[i] = "upload" => copy = "bare" /\ \A k \in Imports : at[k] = "upload" => k = i
    /\ at[i] = "keep" => copy = "whole"

ImportInv == ImportTypeOK /\ OneCompletes /\ StoredIsWhole

LEMMA ImportStarts == ImportInit => ImportInv
BY DEF ImportInit, ImportInv, ImportTypeOK, ImportPlaces, ImportEnds, OneCompletes, StoredIsWhole

(* What is known of an import that has ended. *)
Known(i) == \/ ended[i] \notin {"stored", "duplicate"} \/ copy = "whole"
            \/ ended[i] = "duplicate" /\ (i \in early \/ abandoned)

(* A step of one import.  What it may do to the copy: put it there, or complete,
   remove or lose sight of the one it has put there. *)
LEMMA OneMoves ==
  ASSUME ImportInv, ImportTypeOK', NEW i \in Imports,
         \A k \in Imports \ {i} : at'[k] = at[k] /\ ended'[k] = ended[k],
         early \subseteq early', abandoned => abandoned', Known(i)',
         \/ copy' = copy /\ (at'[i] = "upload" <=> at[i] = "upload") /\ (at'[i] = "keep" => at[i] = "keep")
         \/ copy = "absent" /\ copy' = "bare" /\ at'[i] # "keep" /\ (at'[i] = "upload" \/ abandoned')
         \/ at[i] = "upload" /\ at'[i] \notin {"upload", "keep"}
              /\ (copy' = "absent" \/ (copy' = "bare" /\ abandoned'))
         \/ at[i] = "upload" /\ at'[i] # "upload" /\ copy' = "whole"
  PROVE  ImportInv'
<1>1. OneCompletes'
  BY DEF ImportInv, OneCompletes
<1>2. StoredIsWhole'
  <2>1. ASSUME NEW k \in Imports
        PROVE  /\ ended'[k] = "stored" => copy' = "whole"
               /\ ended'[k] = "duplicate" => copy' = "whole" \/ k \in early' \/ abandoned'
    BY <2>1 DEF ImportInv, OneCompletes, StoredIsWhole, Known
  <2>2. copy' = "bare" => abandoned' \/ \E k \in Imports : at'[k] = "upload"
    BY DEF ImportInv, OneCompletes, StoredIsWhole
  <2> QED BY <2>1, <2>2 DEF StoredIsWhole
<1> QED BY <1>1, <1>2 DEF ImportInv

LEMMA FinishesEffect ==
  ASSUME ImportTypeOK, NEW i \in Imports, NEW from \in ImportPlaces, NEW how \in ImportEnds,
         Finishes(i, from, how)
  PROVE  /\ at[i] = from /\ at'[i] = "done" /\ ended'[i] = how
         /\ \A k \in Imports \ {i} : at'[k] = at[k] /\ ended'[k] = ended[k]
         /\ at' \in [Imports -> ImportPlaces]
         /\ ended' \in [Imports -> ImportEnds]
         /\ retried' \in [Imports -> BOOLEAN]
BY DEF ImportTypeOK, ImportPlaces, ImportEnds, Finishes, MovesOn

LEMMA MovesOnEffect ==
  ASSUME ImportTypeOK, NEW i \in Imports, NEW from \in ImportPlaces,
         NEW there \in ImportPlaces,
         MovesOn(i, from, there)
  PROVE  /\ at[i] = from /\ at'[i] = there /\ \A k \in Imports \ {i} : at'[k] = at[k]
         /\ at' \in [Imports -> ImportPlaces]
BY DEF ImportTypeOK, ImportPlaces, MovesOn

(* What was known before is known as long as the copy stays. *)
LEMMA KnownBefore == ASSUME ImportInv, NEW i \in Imports PROVE Known(i)
BY DEF ImportInv, ImportTypeOK, ImportEnds, StoredIsWhole, Known

LEMMA ImportStoresKeeps ==
  ASSUME ImportInv, NEW i \in Imports, StoresOnServer(i) PROVE ImportInv'
<1>1. ImportTypeOK /\ at[i] = "store" /\ Known(i)
  BY KnownBefore DEF StoresOnServer, ImportInv
<1>2. CASE /\ copy = "absent" /\ copy' = "bare" /\ UNCHANGED <<retried, ended, early>>
           /\ MovesOn(i, "store", "upload") /\ UNCHANGED abandoned
  <2>1. "store" \in ImportPlaces /\ "upload" \in ImportPlaces
    BY DEF ImportPlaces
  <2>2. at'[i] = "upload" /\ (\A k \in Imports \ {i} : at'[k] = at[k]) /\ at' \in [Imports -> ImportPlaces]
    BY <1>1, <1>2, <2>1, MovesOnEffect
  <2>3. ImportTypeOK'
    BY <1>1, <1>2, <2>2 DEF ImportTypeOK
  <2>4. Known(i)'
    BY <1>1, <1>2 DEF Known
  <2>5. abandoned => abandoned'
    BY <1>2
  <2> QED BY <1>1, <1>2, <2>2, <2>3, <2>4, <2>5, OneMoves
<1>6. CASE /\ copy = "absent" /\ copy' = "bare" /\ UNCHANGED <<retried, ended, early>>
           /\ UNCHANGED at /\ abandoned' = TRUE
  <2>1. ImportTypeOK'
    BY <1>1, <1>6 DEF ImportTypeOK
  <2>2. Known(i)'
    BY <1>1, <1>6 DEF Known
  <2> QED BY <1>1, <1>6, <2>1, <2>2, OneMoves
<1>3. CASE /\ copy # "absent" /\ Finishes(i, "store", "duplicate") /\ UNCHANGED <<copy, abandoned>>
           /\ early' = IF \E k \in Imports : at[k] = "upload" THEN early \union {i} ELSE early
  <2>1. /\ at'[i] = "done" /\ ended'[i] = "duplicate"
        /\ \A k \in Imports \ {i} : at'[k] = at[k] /\ ended'[k] = ended[k]
    BY <1>1, <1>3, FinishesEffect DEF ImportPlaces, ImportEnds
  <2>2. ImportTypeOK'
    BY <1>1, <1>3, FinishesEffect DEF ImportTypeOK, ImportPlaces, ImportEnds
  <2>3. copy = "bare" => abandoned \/ i \in early'
    BY <1>3 DEF ImportInv, StoredIsWhole
  <2>4. Known(i)' /\ early \subseteq early'
    BY <1>1, <1>3, <2>1, <2>3 DEF Known, ImportTypeOK
  <2> QED BY <1>1, <1>3, <2>1, <2>2, <2>4, OneMoves
<1>4. CASE Finishes(i, "store", "failed") /\ UNCHANGED theCopy
  <2>1. /\ at'[i] = "done" /\ ended'[i] = "failed"
        /\ \A k \in Imports \ {i} : at'[k] = at[k] /\ ended'[k] = ended[k]
    BY <1>1, <1>4, FinishesEffect DEF ImportPlaces, ImportEnds
  <2>2. ImportTypeOK' /\ Known(i)'
    BY <1>1, <1>4, <2>1, FinishesEffect DEF ImportTypeOK, ImportPlaces, ImportEnds, Known, theCopy
  <2> QED BY <1>1, <1>4, <2>1, <2>2, OneMoves DEF theCopy
<1>5. CASE Refused(i) /\ UNCHANGED theCopy
  <2>1. CASE Finishes(i, "store", "failed")
    BY <1>4, <1>5, <2>1
  <2>2. CASE /\ retried' = [retried EXCEPT ![i] = TRUE] /\ MovesOn(i, "store", "job") /\ UNCHANGED ended
    <3>1. ImportTypeOK'
      BY <1>1, <1>5, <2>2, MovesOnEffect DEF ImportTypeOK, ImportPlaces, theCopy
    <3>2. at'[i] = "job" /\ \A k \in Imports \ {i} : at'[k] = at[k]
      BY <1>1, <2>2, MovesOnEffect DEF ImportPlaces
    <3>3. Known(i)'
      BY <1>1, <1>5, <2>2 DEF Known, theCopy
    <3> QED BY <1>1, <1>5, <2>2, <3>1, <3>2, <3>3, OneMoves DEF theCopy
  <2> QED BY <1>5, <2>1, <2>2 DEF Refused
<1> QED BY <1>2, <1>3, <1>4, <1>5, <1>6 DEF StoresOnServer, theCopy

LEMMA UploadsKeep == ASSUME ImportInv, NEW i \in Imports, Uploads(i) PROVE ImportInv'
<1>1. ImportTypeOK /\ Known(i) /\ UNCHANGED early
  BY KnownBefore DEF Uploads, ImportInv
<1>2. CASE copy' = "whole" /\ MovesOn(i, "upload", "keep") /\ UNCHANGED <<retried, ended, abandoned>>
  <2>1. ImportTypeOK' /\ Known(i)'
    BY <1>1, <1>2, MovesOnEffect DEF ImportTypeOK, ImportPlaces, Known
  <2> QED BY <1>1, <1>2, <2>1, MovesOnEffect, OneMoves DEF ImportPlaces
<1>3. CASE Finishes(i, "upload", "left") /\ abandoned' = TRUE /\ UNCHANGED copy
  <2>1. /\ at[i] = "upload" /\ at'[i] = "done" /\ ended'[i] = "left"
        /\ \A k \in Imports \ {i} : at'[k] = at[k] /\ ended'[k] = ended[k]
    BY <1>1, <1>3, FinishesEffect DEF ImportPlaces, ImportEnds
  <2>2. ImportTypeOK' /\ Known(i)'
    BY <1>1, <1>3, <2>1, FinishesEffect DEF ImportTypeOK, ImportPlaces, ImportEnds, Known
  <2>3. copy' = "bare"
    BY <1>3, <2>1 DEF ImportInv, OneCompletes
  <2> QED BY <1>1, <1>3, <2>1, <2>2, <2>3, OneMoves
<1>4. CASE Finishes(i, "upload", "failed") /\ copy' = "absent" /\ UNCHANGED abandoned
  <2>1. /\ at[i] = "upload" /\ at'[i] = "done" /\ ended'[i] = "failed"
        /\ \A k \in Imports \ {i} : at'[k] = at[k] /\ ended'[k] = ended[k]
    BY <1>1, <1>4, FinishesEffect DEF ImportPlaces, ImportEnds
  <2>2. ImportTypeOK' /\ Known(i)'
    BY <1>1, <1>4, <2>1, FinishesEffect DEF ImportTypeOK, ImportPlaces, ImportEnds, Known
  <2>3. abandoned => abandoned'
    BY <1>4
  <2> QED BY <1>1, <1>4, <2>1, <2>2, <2>3, OneMoves
<1> QED BY <1>2, <1>3, <1>4 DEF Uploads

LEMMA KeepsKeeps == ASSUME ImportInv, NEW i \in Imports, KeepsLocally(i) PROVE ImportInv'
<1>1. ImportTypeOK /\ UNCHANGED theCopy /\ (Finishes(i, "keep", "stored") \/ Finishes(i, "keep", "left"))
  BY DEF KeepsLocally, ImportInv
<1>2. /\ at[i] = "keep" /\ at'[i] = "done"
      /\ \A k \in Imports \ {i} : at'[k] = at[k] /\ ended'[k] = ended[k]
  BY <1>1, FinishesEffect DEF ImportPlaces, ImportEnds
<1>3. ImportTypeOK'
  BY <1>1, FinishesEffect DEF ImportTypeOK, ImportPlaces, ImportEnds, theCopy
<1>4. copy' = "whole"
  BY <1>1, <1>2 DEF ImportInv, OneCompletes, theCopy
<1> QED BY <1>1, <1>2, <1>3, <1>4, OneMoves DEF theCopy, Known

(* Taking a job and looking for a closer do not touch the message. *)
LEMMA JobStepsKeep ==
  ASSUME ImportInv, NEW i \in Imports, GetsJob(i) \/ NoJobToBeHad(i) \/ SpawnsCloser(i) \/ ClientAppends(i)
  PROVE  ImportInv'
<1>1. ImportTypeOK /\ Known(i) /\ UNCHANGED theCopy
  BY KnownBefore DEF GetsJob, NoJobToBeHad, SpawnsCloser, ClientAppends, ImportInv
<1>2. CASE NoJobToBeHad(i)
  <2>1. Finishes(i, "job", "failed")
    BY <1>2 DEF NoJobToBeHad
  <2>2. /\ at[i] = "job" /\ at'[i] = "done" /\ ended'[i] = "failed"
        /\ \A k \in Imports \ {i} : at'[k] = at[k] /\ ended'[k] = ended[k]
    BY <1>1, <2>1, FinishesEffect DEF ImportPlaces, ImportEnds
  <2>3. ImportTypeOK' /\ Known(i)'
    BY <1>1, <2>1, <2>2, FinishesEffect DEF ImportTypeOK, ImportPlaces, ImportEnds, Known, theCopy
  <2> QED BY <1>1, <2>2, <2>3, OneMoves DEF theCopy
<1>3. CASE GetsJob(i) \/ SpawnsCloser(i) \/ ClientAppends(i)
  <2>1. PICK there \in {"job", "closer", "store"} :
          at' = [at EXCEPT ![i] = there] /\ UNCHANGED <<retried, ended>>
    BY <1>3 DEF GetsJob, SpawnsCloser, ClientAppends, MovesOn
  <2>2. at[i] \in {"idle", "job", "closer"}
    BY <1>3 DEF GetsJob, SpawnsCloser, ClientAppends, MovesOn
  <2>3. /\ ImportTypeOK' /\ at'[i] = there /\ Known(i)'
        /\ \A k \in Imports \ {i} : at'[k] = at[k]
    BY <1>1, <2>1 DEF ImportTypeOK, ImportPlaces, Known, theCopy
  <2> QED BY <1>1, <2>1, <2>2, <2>3, OneMoves DEF theCopy
<1> QED BY <1>2, <1>3

(* The client, its deadline and the closer do not touch the imports. *)
LEMMA OthersKeep ==
  ASSUME ImportInv, UNCHANGED <<theCopy, at, retried, ended>> PROVE ImportInv'
BY DEF theCopy, ImportInv, ImportTypeOK, OneCompletes, StoredIsWhole

LEMMA ImportStepKeeps == ASSUME ImportInv, [ImportNext]_importVars PROVE ImportInv'
<1>1. ASSUME NEW i \in Imports, ClientAppends(i) \/ ImportStep(i)
      PROVE  ImportInv'
  BY <1>1, ImportStoresKeeps, UploadsKeep, KeepsKeeps, JobStepsKeep DEF ImportStep
<1>2. CASE \/ \E i \in Imports : ClientAnswered(i)
           \/ Deadline \/ GoesQuiet \/ CloserStep \/ UNCHANGED importVars
  <2>1. UNCHANGED <<theCopy, at, retried, ended>>
    BY <1>2 DEF ClientAnswered, Deadline, GoesQuiet, CloserStep, CloserTakes, CloserCompletes,
                CloserEnds, importVars, theCopy
  <2> QED BY <2>1, OthersKeep
<1> QED BY <1>1, <1>2 DEF ImportNext

(* Whatever imports of a message cross each other, fail half way or outlive their
   command, a message said to be stored is whole on the server, and one said to
   be there already is, unless another import was completing it or one had lost
   sight of it (import_message). *)
THEOREM StoredMessagesAreWhole == ImportSpec => []StoredIsWhole
<1>1. ImportInv => StoredIsWhole
  BY DEF ImportInv
<1> QED BY <1>1, ImportStarts, ImportStepKeeps, PTL DEF ImportSpec
=============================================================================
