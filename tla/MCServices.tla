----------------------------- MODULE MCServices -----------------------------
(***************************************************************************)
(* Background services that share no state with each other, checked side   *)
(* by side: a behaviour moves one of them, so the states of the run are    *)
(* those of each service, not their product.  In the initial states of the *)
(* others no fair action is enabled; a token refresh loop that does not    *)
(* take part has ended.                                                    *)
(***************************************************************************)
EXTENDS Drain, TokenRefresh, ImportJob, Outbox

VARIABLE active

ServicesInit ==
  /\ active \in {"outbox", "stop", "tokens", "import"}
  /\ DrainInit /\ RefreshInitWith(active # "tokens") /\ ImportInit /\ Init
  /\ active # "tokens" => refresh = "new"

ServicesNext ==
  /\ UNCHANGED active
  /\ \/ active = "stop" /\ DrainNext /\ UNCHANGED <<refreshVars, importVars, vars>>
     \/ active = "tokens" /\ RefreshNext /\ UNCHANGED <<drainVars, importVars, vars>>
     \/ active = "import" /\ ImportNext /\ UNCHANGED <<drainVars, refreshVars, vars>>
     \/ active = "outbox" /\ Next /\ UNCHANGED <<drainVars, refreshVars, importVars>>

ServicesSpec ==
  /\ ServicesInit /\ [][ServicesNext]_<<active, drainVars, refreshVars, importVars, vars>>
  /\ Fairness /\ DrainFairness /\ RefreshFairness /\ ImportFairness
=============================================================================
