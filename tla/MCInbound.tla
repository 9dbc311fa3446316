------------------------------ MODULE MCInbound ------------------------------
(***************************************************************************)
(* What comes back from the engine, in one instance for TLC: pulling       *)
(* inbound messages, fanning them out, forwarding receipts.  The three     *)
(* share no state, so a behaviour is one of the service that `focus`       *)
(* names and the others rest.                                              *)
(***************************************************************************)
EXTENDS MoInbound, MoDelivery, DlrForward

VARIABLE focus

MCInit == MoInit /\ CallInit /\ FwdInit /\ focus \in {"poll", "deliver", "forward"}

MCNext ==
  /\ UNCHANGED focus
  /\ \/ focus = "poll" /\ MoNext /\ UNCHANGED <<callVars, fwdVars>>
     \/ focus = "deliver" /\ CallNext /\ UNCHANGED <<moVars, fwdVars>>
     \/ focus = "forward" /\ FwdNext /\ UNCHANGED <<moVars, callVars>>

MCVars == <<focus, moVars, callVars, fwdVars>>

\* The fairness of the service in focus.
MCFairness ==
  /\ \A w \in PollWorkers : WF_moVars(focus = "poll" /\ PollStep(w))
  /\ \A j \in PollJobs : WF_moVars(focus = "poll" /\ RecoverPoll(j))
  /\ WF_moVars(focus = "poll" /\ \E j \in PollJobs, w \in PollWorkers : TakePoll(j, w))
  /\ \A w \in Couriers : WF_callVars(focus = "deliver" /\ CallStep(w))
  /\ WF_callVars(focus = "deliver" /\ \E j \in CallJobs : RecoverCall(j))
  /\ WF_callVars(focus = "deliver" /\ \E j \in CallJobs, w \in Couriers : TakeCall(j, w))
  /\ \A x \in FwdSweeps :
       WF_fwdVars(/\ focus = "forward"
                  /\ ClaimReceipts(x) \/ \E r \in Receipts : CreateForward(x, r))
  /\ \A w \in Forwarders : WF_fwdVars(focus = "forward" /\ ForwardStep(w))
  /\ WF_fwdVars(focus = "forward" /\ \E r \in Receipts : RecoverForward(r))
  /\ WF_fwdVars(focus = "forward" /\ \E r \in Receipts, w \in Forwarders : TakeForward(r, w))

MCSpec == MCInit /\ [][MCNext]_MCVars /\ MCFairness

==============================================================================
