------------------------------ MODULE DlrForward ------------------------------
(***************************************************************************)
(* Forwarding delivery receipts to the URL the caller submitted: the       *)
(* dlr_forward_attempts rows, the sweeps that claim the engine's receipts, *)
(* and the dlr.forward.dispatch jobs that make the call.                   *)
(*                                                                         *)
(* A receipt is an engine DLR row with a dlr_url, inside the look-back     *)
(* window and within the page a sweep lists.  Its attempt row and its      *)
(* dispatch job (idempotency key dlr-forward:<attempt>) are named after    *)
(* it.  Sweeps run in dlr.forward.poll jobs; that they go on is the chain  *)
(* of MoInbound.  The queue is the abstract one that JobQueue implements.  *)
(***************************************************************************)
EXTENDS Naturals, FiniteSets

CONSTANTS
  Receipts,
  Forwarders,      \* workers that execute dispatch jobs
  FwdSweeps,       \* sweeps that may be in flight together
  NoForwarder,     \* NULL
  FwdLimit,        \* DLR_FORWARD_MAX_ATTEMPTS
  MaxFwdFaults     \* bound: crashes and rejected transactions

ASSUME FwdBounds == FwdLimit \in Nat \ {0} /\ MaxFwdFaults \in Nat
ASSUME FwdActors == NoForwarder \notin Forwarders

VARIABLES
  arrived,    \* receipts the engine recorded
  fwdPhase, fwdExec, fwdRuns,  \* the queue's view of the dispatch jobs
  fwdStatus,  \* dlr_forward_attempts.status, "none" before the INSERT
  claimed,    \* attempts a sweep inserted and has yet to create a job for
  fwdPc,      \* where a worker is in dispatch()
  fwdJob,     \* the receipt it forwards
  fwdFaults,
  dropped     \* history: claimed by a sweep that died, or its job cancelled

fwdQueue == <<fwdPhase, fwdExec, fwdRuns>>
fwdVars == <<arrived, fwdQueue, fwdStatus, claimed, fwdPc, fwdJob, fwdFaults, dropped>>

FQ == INSTANCE JobService
        WITH Jobs <- Receipts, Workers <- Forwarders, Nobody <- NoForwarder,
             Limit <- [r \in Receipts |-> FwdLimit],
             phase <- fwdPhase, executor <- fwdExec, runs <- fwdRuns

FwdInit ==
  /\ FQ!Init
  /\ arrived = {} /\ dropped = {}
  /\ fwdStatus = [r \in Receipts |-> "none"]
  /\ claimed = [x \in FwdSweeps |-> {}]
  /\ fwdPc = [w \in Forwarders |-> "idle"]
  /\ fwdJob = [w \in Forwarders |-> NoForwarder]
  /\ fwdFaults = 0

FwdFault == fwdFaults < MaxFwdFaults /\ fwdFaults' = fwdFaults + 1

\* The engine records a receipt.
Receipt(r) ==
  /\ r \notin arrived
  /\ arrived' = arrived \cup {r}
  /\ UNCHANGED <<fwdQueue, fwdStatus, claimed, fwdPc, fwdJob, fwdFaults, dropped>>

-----------------------------------------------------------------------------
(* The poll handler.                                                       *)

SweepAlone == UNCHANGED <<arrived, fwdPc, fwdJob>>

\* ON CONFLICT DO NOTHING: the unique index is the lock.
Unclaimed(r) == r \in arrived /\ fwdStatus[r] = "none"

\* sweep(): the attempt rows, in one transaction.
ClaimReceipts(x) ==
  /\ claimed[x] = {}
  /\ claimed' = [claimed EXCEPT ![x] = {r \in Receipts : Unclaimed(r)}]
  /\ claimed'[x] # {}
  /\ fwdStatus' = [r \in Receipts |-> IF r \in claimed'[x] THEN "pending" ELSE fwdStatus[r]]
  /\ UNCHANGED <<fwdQueue, fwdFaults, dropped>> /\ SweepAlone

\* Mutation: the handler stops after the first job.
CarryFirst(x, r) == claimed' = [claimed EXCEPT ![x] = {}]

CarryRest(x, r) == claimed' = [claimed EXCEPT ![x] = @ \ {r}]

\* One job for each, in a transaction of its own.
CreateForward(x, r) ==
  /\ r \in claimed[x]
  /\ CarryRest(x, r)
  /\ FQ!Submit(r)
  /\ UNCHANGED <<fwdStatus, fwdFaults, dropped>> /\ SweepAlone

\* The handler throws or dies: a later sweep finds the rows claimed.
SweepDies(x) ==
  /\ FwdFault
  /\ claimed[x] # {}
  /\ claimed' = [claimed EXCEPT ![x] = {}]
  /\ dropped' = dropped \cup claimed[x]
  /\ UNCHANGED <<fwdQueue, fwdStatus>> /\ SweepAlone

-----------------------------------------------------------------------------
(* dispatch().                                                             *)

FwdGoes(w, from, to) == fwdPc[w] = from /\ fwdPc' = [fwdPc EXCEPT ![w] = to]

ForwardAlone == UNCHANGED <<arrived, claimed, dropped>>

TakeForward(r, w) ==
  /\ FwdGoes(w, "idle", "load")
  /\ FQ!Take(r, w)
  /\ fwdJob' = [fwdJob EXCEPT ![w] = r]
  /\ UNCHANGED <<fwdStatus, fwdFaults>> /\ ForwardAlone

\* A delivered receipt is not sent again; one without a URL is dead, one to a
\* host that is not listed is refused.
CheckForward(w) ==
  /\ fwdPc[w] = "load"
  /\ \/ /\ fwdStatus[fwdJob[w]] = "delivered"
        /\ FwdGoes(w, "load", "end")
        /\ UNCHANGED fwdStatus
     \/ /\ fwdStatus[fwdJob[w]] # "delivered"
        /\ FwdGoes(w, "load", "call")
        /\ UNCHANGED fwdStatus
     \/ /\ fwdStatus[fwdJob[w]] # "delivered"
        /\ FwdGoes(w, "load", "end")
        /\ \E v \in {"dead_letter", "refused"} : fwdStatus' = [fwdStatus EXCEPT ![fwdJob[w]] = v]
  /\ UNCHANGED <<fwdQueue, fwdJob, fwdFaults>> /\ ForwardAlone

\* The call: 2xx, a status that a retry may change, or one that it may not.
CallUrl(w) ==
  /\ \E to \in {"complete", "recordRetry", "recordEnd"} : FwdGoes(w, "call", to)
  /\ UNCHANGED <<fwdQueue, fwdStatus, fwdJob, fwdFaults>> /\ ForwardAlone

\* complete() or record(), by the row's id alone.
WriteForward(w) ==
  /\ \/ /\ FwdGoes(w, "complete", "end")
        /\ fwdStatus' = [fwdStatus EXCEPT ![fwdJob[w]] = "delivered"]
     \/ /\ FwdGoes(w, "recordRetry", "retry") \/ FwdGoes(w, "recordEnd", "end")
        /\ fwdStatus' = [fwdStatus EXCEPT ![fwdJob[w]] = "failed"]
  /\ UNCHANGED <<fwdQueue, fwdJob, fwdFaults>> /\ ForwardAlone

\* complete() or record() is rejected inside the try block: recorded as a
\* failure to retry.
WriteRejected(w) ==
  /\ FwdFault
  /\ FwdGoes(w, "complete", "recordRetry") \/ FwdGoes(w, "recordEnd", "recordRetry")
  /\ UNCHANGED <<fwdQueue, fwdStatus, fwdJob>> /\ ForwardAlone

ForgetForward(w) ==
  /\ fwdPc' = [fwdPc EXCEPT ![w] = "idle"]
  /\ fwdJob' = [fwdJob EXCEPT ![w] = NoForwarder]

\* Mutation: one attempt too few.
AfterFailureEarly(r) == IF fwdRuns[r] + 1 < FwdLimit THEN "waiting" ELSE "over"

AfterFailure(r) == IF fwdRuns[r] < FwdLimit THEN "waiting" ELSE "over"

\* The queue hears of the job's end, unless the job was cancelled.
ForwardReports(w, next) ==
  /\ \/ FQ!Settle(fwdJob[w]) /\ fwdPhase'[fwdJob[w]] = next
     \/ fwdPhase[fwdJob[w]] = "over" /\ FQ!Lose(fwdJob[w])
  /\ ForgetForward(w)

\* dispatch() returned or threw.
EndForward(w) ==
  /\ \/ fwdPc[w] = "end" /\ ForwardReports(w, "over")
     \/ fwdPc[w] = "retry" /\ ForwardReports(w, AfterFailure(fwdJob[w]))
  /\ UNCHANGED <<fwdStatus, fwdFaults>> /\ ForwardAlone

\* Another transaction is rejected: the job is retried.
ThrowForward(w) ==
  /\ FwdFault
  /\ fwdPc[w] \in {"load", "recordRetry"}
  /\ ForwardReports(w, AfterFailure(fwdJob[w]))
  /\ UNCHANGED fwdStatus /\ ForwardAlone

\* The worker's process ends, or it cannot report the job's outcome.
CrashForward(w) ==
  /\ FwdFault
  /\ fwdPc[w] # "idle"
  /\ FQ!Lose(fwdJob[w])
  /\ ForgetForward(w)
  /\ UNCHANGED fwdStatus /\ ForwardAlone

\* POST /jobs/:id/cancel
CancelForward(r) ==
  /\ FQ!Withdraw(r)
  /\ dropped' = dropped \cup {r}
  /\ UNCHANGED <<arrived, fwdStatus, claimed, fwdPc, fwdJob, fwdFaults>>

\* The reaper gives the job back, or buries it.
RecoverForward(r) ==
  /\ FQ!Recover({r})
  /\ UNCHANGED <<fwdStatus, fwdPc, fwdJob, fwdFaults>> /\ ForwardAlone

-----------------------------------------------------------------------------
ForwardStep(w) == CheckForward(w) \/ CallUrl(w) \/ WriteForward(w) \/ EndForward(w)

FwdNext ==
  \/ \E r \in Receipts :
       \/ Receipt(r) \/ RecoverForward(r) \/ CancelForward(r)
       \/ \E w \in Forwarders : TakeForward(r, w)
  \/ \E x \in FwdSweeps :
       ClaimReceipts(x) \/ SweepDies(x) \/ \E r \in Receipts : CreateForward(x, r)
  \/ \E w \in Forwarders : ForwardStep(w) \/ WriteRejected(w) \/ ThrowForward(w)
                              \/ CrashForward(w)

FwdSpec == FwdInit /\ [][FwdNext]_fwdVars

\* Sweeps go on, a live worker goes on, some waiting job is taken, the reaper
\* runs; there are finitely many executions, so every job gets its turn.
FwdFairness ==
  /\ \A x \in FwdSweeps :
       WF_fwdVars(ClaimReceipts(x) \/ \E r \in Receipts : CreateForward(x, r))
  /\ \A w \in Forwarders : WF_fwdVars(ForwardStep(w))
  /\ WF_fwdVars(\E r \in Receipts : RecoverForward(r))
  /\ WF_fwdVars(\E r \in Receipts, w \in Forwarders : TakeForward(r, w))

FwdFairSpec == FwdSpec /\ FwdFairness

-----------------------------------------------------------------------------
(* Properties.                                                             *)

\* No claimed receipt is left with nobody to forward it: an attempt row that is
\* still pending has a sweep that will create its job or a job that is not over,
\* unless the sweep died, the job was cancelled or every attempt failed.
PendingIsCarried ==
  \A r \in Receipts :
    fwdStatus[r] = "pending" =>
      \/ \E x \in FwdSweeps : r \in claimed[x]
      \/ fwdPhase[r] \in {"waiting", "taken"}
      \/ r \in dropped
      \/ fwdFaults >= FwdLimit

\* "A receipt silently dropped and a receipt deliberately refused are different
\* facts": every receipt gets a verdict, whichever sweeps overlap and whatever
\* fails while it is forwarded, short of all its attempts; only a sweep that
\* dies between its attempt rows and their jobs, or an operator who cancels the
\* job, drops one.
EveryReceiptTried ==
  \A r \in Receipts :
    r \in arrived ~> fwdStatus[r] \notin {"none", "pending"} \/ r \in dropped
                       \/ fwdFaults >= FwdLimit

===============================================================================
