------------------------------ MODULE MCOutbound ------------------------------
(***************************************************************************)
(* What goes out, and what guards it, in one instance for TLC: the send    *)
(* path, campaigns, delivery retries, idempotency keys and configuration   *)
(* deployment.  They share no state, so a behaviour is one of the service  *)
(* that `focus` names, and the others rest.                                *)
(***************************************************************************)
EXTENDS SendPath, Campaign, DeliveryRetry, ConfigDeploy, Idempotency

CONSTANTS
  Odd,    \* the request that reuses the idempotency key with another body
  Alone   \* the send whose message no other send repeats

VARIABLE focus

MCHash == [r \in Requests |-> r = Odd]
MCKeyOf == [s \in Sends |-> s = Alone]
MCScopeOf == [v \in Versions |-> v = MaxVersion]

\* No action tells two process ids apart.
FirstPid == pid[CHOOSE d \in Deployers : TRUE] = 1

Resting == targetFile = 0 /\ pid = [d \in Deployers |-> 1]

MCInit ==
  /\ SendInit /\ CampInit /\ Init /\ DeployInit /\ KeyInit
  /\ focus \in {"send", "campaign", "retry", "deploy", "key"}
  /\ IF focus = "deploy" THEN FirstPid ELSE Resting

MCNext ==
  /\ UNCHANGED focus
  /\ \/ focus = "send" /\ SendNext /\ UNCHANGED <<campVars, vars, deployVars, recordVars>>
     \/ focus = "campaign" /\ CampNext /\ UNCHANGED <<sendVars, vars, deployVars, recordVars>>
     \/ focus = "retry" /\ Next /\ UNCHANGED <<sendVars, campVars, deployVars, recordVars>>
     \/ focus = "deploy" /\ DeployNext /\ UNCHANGED <<sendVars, campVars, vars, recordVars>>
     \/ focus = "key" /\ KeyNext /\ UNCHANGED <<sendVars, campVars, vars, deployVars>>

MCSpec == MCInit /\ [][MCNext]_<<focus, sendVars, campVars, vars, deployVars, recordVars>>

\* The fairness of the delivery retries; the others have safety properties only.
Retrying == focus = "retry"

MCFairSpec ==
  /\ MCSpec
  /\ WF_vars(Retrying /\ \E w \in Workers : Dispatch(w))
  /\ WF_vars(Retrying /\ \E j \in DispatchJobs : Recover(j))
  /\ WF_vars(Retrying /\ \E j \in DispatchJobs, w \in Workers : Take(j, w))

===============================================================================
