---------------------------- MODULE TokenRefresh ---------------------------
(***************************************************************************)
(* Keeping the session's tokens fresh: the refresh loop and the key reload *)
(* of the sync pass share the session behind REFRESH_GATE; an access token *)
(* that is refused requests an early refresh; a device that is refused     *)
(* stops scheduled syncing and, for the command line client, the bridge.   *)
(* A token is only told apart by whether the backend issued a later one.    *)
(***************************************************************************)
EXTENDS Naturals

CONSTANTS
  Profile,         \* "cli" or "desktop"
  RevokedAfter     \* DEVICE_REVOKED_AFTER_FAILURES

ASSUME RefreshAssumption == Profile \in {"cli", "desktop"} /\ RevokedAfter \in Nat \ {0}

VARIABLES
  access, refresh, \* the session's tokens: "new" (the last issued) or "old"; refresh may be "none"
  valid,           \* the backend takes the access token it issued last
  accepts, reached,  \* the backend takes the device; it can be reached
  pc,              \* what the refresh loop ("loop") and the key reload ("heal") are doing
  seen,            \* the refresh token is the one the loop saw before the gate
  answer,          \* tokens a caller was answered with and has not stored yet
  gate,            \* who holds REFRESH_GATE
  outcome,         \* how the loop's refresh ended
  failing,         \* consecutive_failures > 0
  definitive,      \* definitive_failures
  rejected,        \* SESSION_REJECTED
  requested,       \* REFRESH_REQUESTED holds a permit
  justTried,       \* EARLY_REFRESH_MIN_GAP has not passed since the last attempt
  stopped,         \* the loop ended with DeviceRevoked
  lost             \* observation only: an answer with tokens never arrived

session == <<access, refresh>>
backend == <<valid, accepts, reached>>
counts == <<failing, definitive, rejected, stopped>>
refreshVars == <<session, backend, pc, seen, answer, gate, outcome, counts, requested, justTried, lost>>

Refreshers == {"loop", "heal"}
NoTokens == [access |-> "none", refresh |-> "none"]
Older(token) == IF token = "new" THEN "old" ELSE token

RefreshInitWith(ended) ==
  /\ access = "new" /\ refresh \in {"new", "none"}
  /\ valid = TRUE /\ accepts = TRUE /\ reached = TRUE
  /\ pc = [c \in Refreshers |-> "idle"] /\ seen = TRUE
  /\ answer = [c \in Refreshers |-> NoTokens] /\ gate = "free" /\ outcome = "ok"
  /\ failing = FALSE /\ definitive = 0 /\ rejected = FALSE /\ stopped = ended
  /\ requested = FALSE /\ justTried = TRUE /\ lost = FALSE

RefreshInit == RefreshInitWith(FALSE)

At(c, here, there) == pc[c] = here /\ pc' = [pc EXCEPT ![c] = there]

(* The loop's timer, or a request that is neither too soon nor during an
   outage; other requests are dropped. *)
LoopBegins ==
  /\ ~stopped /\ At("loop", "idle", "gate")
  /\ seen' = TRUE /\ justTried' = TRUE
  /\ UNCHANGED <<session, backend, answer, gate, outcome, counts, lost>>

TimerDue == LoopBegins /\ UNCHANGED requested

RequestTaken ==
  /\ requested /\ requested' = FALSE
  /\ \/ ~failing /\ ~justTried /\ LoopBegins
     \/ /\ failing \/ justTried
        /\ ~stopped /\ pc["loop"] = "idle"
        /\ UNCHANGED <<session, backend, pc, seen, answer, gate, outcome, counts, justTried, lost>>

GapPasses ==
  /\ justTried /\ justTried' = FALSE
  /\ UNCHANGED <<session, backend, pc, seen, answer, gate, outcome, counts, requested, lost>>

(* heal_inbound_keys, from a sync pass: reload_vault_keys. *)
HealBegins ==
  /\ ~stopped /\ At("heal", "idle", "gate")
  /\ UNCHANGED <<session, backend, seen, answer, gate, outcome, counts, requested, justTried, lost>>

(* Mutant: the key reload does not wait for the gate. *)
TakesGateMut(c) ==
  /\ c = "heal" \/ gate = "free"
  /\ gate' = IF c = "heal" THEN gate ELSE c
  /\ At(c, "gate", IF c = "loop" /\ ~seen THEN "done"
                   ELSE IF c = "loop" /\ refresh # "none" THEN "refresh" ELSE "login")
  /\ outcome' = IF c = "loop" THEN "ok" ELSE outcome
  /\ UNCHANGED <<session, backend, seen, answer, counts, requested, justTried, lost>>

(* The gate taken, the loop is done when the refresh token has changed since it
   looked; without one it signs in with the device key, as the reload does. *)
TakesGate(c) ==
  /\ gate = "free" /\ gate' = c
  /\ At(c, "gate", IF c = "loop" /\ ~seen THEN "done"
                   ELSE IF c = "loop" /\ refresh # "none" THEN "refresh" ELSE "login")
  /\ outcome' = IF c = "loop" THEN "ok" ELSE outcome
  /\ UNCHANGED <<session, backend, seen, answer, counts, requested, justTried, lost>>

(* The backend issues tokens: those issued before are older from here on. *)
Issues(c, newRefresh, there) ==
  /\ access' = Older(access)
  /\ refresh' = IF newRefresh = "kept" THEN refresh ELSE Older(refresh)
  /\ valid' = TRUE
  /\ answer' = [d \in Refreshers |->
       IF d = c /\ there = "store"
       THEN [access |-> "new", refresh |-> newRefresh]
       ELSE [access |-> Older(answer[d].access),
             refresh |-> IF newRefresh = "kept" THEN answer[d].refresh ELSE Older(answer[d].refresh)]]
  /\ lost' = (lost \/ there # "store")
  /\ pc' = [pc EXCEPT ![c] = there]
  /\ UNCHANGED <<accepts, reached>>

(* refresh_session.  Tokens issued in an answer that is lost, or that brings no
   access token, stay unknown. *)
AsksRefresh ==
  /\ pc["loop"] = "refresh"
  /\ \/ /\ reached /\ accepts /\ refresh = "new" /\ UNCHANGED <<outcome, requested>>
        /\ \E rotated \in {"new", "kept"} : Issues("loop", rotated, "store")
     \/ /\ refresh = "new" /\ accepts /\ ~reached
        /\ Issues("loop", "new", "done") /\ outcome' = "network" /\ UNCHANGED requested
     \/ /\ ~reached /\ At("loop", "refresh", "done")
        /\ outcome' \in {"network", "busy"}
        /\ UNCHANGED <<session, backend, answer, requested, lost>>
     \/ /\ reached /\ ~(accepts /\ refresh = "new")
        /\ At("loop", "refresh", "login") /\ requested' = TRUE
        /\ UNCHANGED <<session, backend, answer, outcome, lost>>
  /\ UNCHANGED <<seen, gate, counts, justTried>>

(* device_challenge and device_login. *)
AsksLogin(c) ==
  /\ pc[c] = "login"
  /\ \/ /\ reached /\ accepts /\ UNCHANGED <<outcome, requested>>
        /\ \E r \in {"new", "none"} : Issues(c, r, "store")
     \/ /\ ~reached /\ accepts /\ Issues(c, "new", "done") /\ UNCHANGED requested
        /\ outcome' = IF c = "loop" THEN "network" ELSE outcome
     \/ /\ ~reached /\ At(c, "login", "done")
        /\ outcome' \in IF c = "loop" THEN {"network", "busy"} ELSE {outcome}
        /\ UNCHANGED <<session, backend, answer, requested, lost>>
     \/ /\ reached /\ ~accepts /\ At(c, "login", "done") /\ requested' = TRUE
        /\ outcome' = IF c = "loop" THEN "refused" ELSE outcome
        /\ UNCHANGED <<session, backend, answer, lost>>
  /\ UNCHANGED <<seen, gate, counts, justTried>>

(* The answer is written to the session; a refresh that brought no refresh
   token keeps the one there is. *)
Stores(c) ==
  /\ At(c, "store", "done")
  /\ access' = answer[c].access
  /\ refresh' = IF answer[c].refresh = "kept" THEN refresh ELSE answer[c].refresh
  /\ seen' = (seen /\ answer[c].refresh = "kept")
  /\ answer' = [answer EXCEPT ![c] = NoTokens]
  /\ lost' = (lost /\ answer[c].access # "new")
  /\ UNCHANGED <<backend, gate, outcome, counts, requested, justTried>>

LeavesGate(c) ==
  /\ At(c, "done", IF c = "loop" THEN "settle" ELSE "idle")
  /\ gate' = IF gate = c THEN "free" ELSE gate
  /\ UNCHANGED <<session, backend, seen, answer, outcome, counts, requested, justTried, lost>>

(* Mutant: a refresh that worked leaves the session marked as rejected. *)
SettlesMut ==
  /\ At("loop", "settle", "idle")
  /\ failing' = (outcome \notin {"ok", "network"} \/ (outcome = "network" /\ failing))
  /\ definitive' = IF outcome = "refused" /\ definitive < RevokedAfter THEN definitive + 1
                   ELSE IF outcome = "network" THEN definitive ELSE 0
  /\ rejected' = (outcome = "refused" \/ rejected)
  /\ stopped' = (Profile = "cli" /\ outcome = "refused" /\ definitive' >= RevokedAfter)
  /\ UNCHANGED <<session, backend, seen, answer, gate, outcome, requested, justTried, lost>>

(* What the loop makes of it: success clears everything, a network error
   changes nothing, a refusal counts towards the revocation of the device. *)
Settles ==
  /\ At("loop", "settle", "idle")
  /\ \/ /\ outcome = "ok"
        /\ failing' = FALSE /\ definitive' = 0 /\ rejected' = FALSE /\ UNCHANGED stopped
     \/ outcome = "network" /\ UNCHANGED counts
     \/ /\ outcome = "busy"
        /\ failing' = TRUE /\ definitive' = 0 /\ UNCHANGED <<rejected, stopped>>
     \/ /\ outcome = "refused"
        /\ failing' = TRUE /\ rejected' = TRUE
        /\ definitive' = IF definitive < RevokedAfter THEN definitive + 1 ELSE definitive
        /\ stopped' = (Profile = "cli" /\ definitive' >= RevokedAfter)
  /\ UNCHANGED <<session, backend, seen, answer, gate, outcome, requested, justTried, lost>>

(* A request of a client or a triggered sync pass with a token that is not
   taken: 401, and an early refresh is requested. *)
CallRefused ==
  /\ reached /\ ~(valid /\ access = "new") /\ requested' = TRUE
  /\ UNCHANGED <<session, backend, pc, seen, answer, gate, outcome, counts, justTried, lost>>

(* The backend: a token expires (it outlives the call that brought it), the device is refused or taken again, the
   backend goes away or comes back. *)
Environment ==
  /\ \/ access = "new" /\ valid' = FALSE /\ UNCHANGED <<accepts, reached>>
     \/ accepts' = ~accepts /\ UNCHANGED <<valid, reached>>
     \/ reached' = ~reached /\ UNCHANGED <<valid, accepts>>
  /\ UNCHANGED <<session, pc, seen, answer, gate, outcome, counts, requested, justTried, lost>>

CallerStep(c) == \/ TakesGate(c) \/ AsksLogin(c) \/ Stores(c) \/ LeavesGate(c)
RefreshNext ==
  \/ TimerDue \/ RequestTaken \/ GapPasses \/ HealBegins \/ AsksRefresh \/ Settles
  \/ CallRefused \/ Environment
  \/ \E c \in Refreshers : CallerStep(c)

(* The timer fires and calls end (every request has a timeout); nothing is
   assumed of the backend, of the key reload or of requests. *)
RefreshFairness ==
  /\ WF_refreshVars(TimerDue) /\ WF_refreshVars(AsksRefresh)
  /\ WF_refreshVars(Settles) /\ SF_refreshVars(TakesGate("loop"))
  /\ \A c \in Refreshers : WF_refreshVars(CallerStep(c))

RefreshSpec == RefreshInit /\ [][RefreshNext]_refreshVars /\ RefreshFairness

-----------------------------------------------------------------------------
(* Properties *)

(* The session holds the newest tokens the backend issued whenever no caller is
   inside the gate, unless their answer was lost: the refresh loop and the key
   reload never overwrite each other with older ones.  (REFRESH_GATE,
   refresh_access_token, reload_vault_keys.) *)
NewestHeld ==
  /\ gate = "free" /\ ~lost => access = "new" /\ refresh \in {"new", "none"}
  /\ pc["loop"] = "refresh" /\ ~lost => refresh = "new"

(* Once the backend can be reached and takes the device for good, the session
   is good again and again and scheduled syncing resumes, or the bridge has
   stopped because the device was refused.  (runtime token refresh loop,
   set_session_rejected.) *)
SessionRecovers ==
  <>[](accepts /\ reached) => (<>[]stopped \/ (<>[]~rejected /\ []<>(access = "new" /\ valid)))
=============================================================================
