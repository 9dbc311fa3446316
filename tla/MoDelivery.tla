------------------------------ MODULE MoDelivery ------------------------------
(***************************************************************************)
(* Fanning one inbound message out to one destination: the mo_deliveries   *)
(* rows, the mo.delivery.dispatch jobs that call the destination, and the  *)
(* operator's two ways to try again.                                       *)
(*                                                                         *)
(* Row 0 is the one the ingest wrote, row r the one the r-th redispatch    *)
(* wrote.  Job <<r, k>> is row r's job after k manual retries.  Another    *)
(* destination, and another message, has rows and jobs of its own and      *)
(* shares nothing with this one.  The queue is the abstract one that       *)
(* JobQueue implements.                                                    *)
(***************************************************************************)
EXTENDS Naturals, FiniteSets

CONSTANTS
  Couriers,          \* workers that execute delivery jobs
  NoCourier,         \* NULL
  CallLimit,         \* max_attempts of the destination
  CallJobLimit,      \* MO_DELIVERY_MAX_ATTEMPTS
  MaxRedispatch,     \* bound: redispatches of the message
  MaxRetries,        \* bound: manual_retries of a row
  MaxCallJobs,       \* bound: delivery jobs of the message
  MaxCallFaults      \* bound: crashes and rejected transactions

ASSUME CallBounds == CallLimit \in Nat \ {0} /\ CallJobLimit \in Nat \ {0}
                     /\ MaxRedispatch \in Nat /\ MaxRetries \in Nat /\ MaxCallJobs \in Nat
                     /\ MaxCallFaults \in Nat
ASSUME CallActors == NoCourier \notin Couriers

VARIABLES
  callPhase, callExec, callRuns,  \* the queue's view of the delivery jobs
  moStatus,    \* mo_deliveries.status, "none" before the INSERT
  retries,     \* manual_retries
  callPc,      \* where a worker is in dispatch()
  callJob,     \* the job it executes
  callAnswer,  \* what the destination answered it
  calls,       \* history: calls made by a job
  callFaults,
  callCut,     \* history: rows one of whose jobs an operator cancelled
  overlapped   \* history: rows retried while an earlier job of theirs was live

callQueue == <<callPhase, callExec, callRuns>>
callVars == <<callQueue, moStatus, retries, callPc, callJob, callAnswer, calls, callFaults,
              callCut, overlapped>>

MoRowIds == 0..MaxRedispatch
CallJobs == MoRowIds \X (0..MaxRetries)

CQ == INSTANCE JobService
        WITH Jobs <- CallJobs, Workers <- Couriers, Nobody <- NoCourier,
             Limit <- [j \in CallJobs |-> CallJobLimit],
             phase <- callPhase, executor <- callExec, runs <- callRuns

CallInit ==
  /\ CQ!Init
  /\ moStatus = [r \in MoRowIds |-> "none"]
  /\ retries = [r \in MoRowIds |-> 0]
  /\ callPc = [w \in Couriers |-> "idle"]
  /\ callJob = [w \in Couriers |-> NoCourier]
  /\ callAnswer = [w \in Couriers |-> "none"]
  /\ calls = [j \in CallJobs |-> 0]
  /\ callFaults = 0
  /\ callCut = {} /\ overlapped = {}

CallFault == callFaults < MaxCallFaults /\ callFaults' = callFaults + 1

MyRow(w) == callJob[w][1]

\* A job that waits, or that a worker still executes.
LiveCall(j) == callPhase[j] \in {"waiting", "taken"} \/ callExec[j] # NoCourier

HasLiveCall(r) == \E k \in 0..MaxRetries : LiveCall(<<r, k>>)

-----------------------------------------------------------------------------
(* Ingest and the operator.                                                *)

\* createOn
EnqueueCall(j) ==
  /\ Cardinality({k \in CallJobs : callPhase[k] # "absent"}) < MaxCallJobs
  /\ CQ!Submit(j)

\* matchAndFanOut: the row and its job, in one transaction.
FanOut(r) ==
  /\ moStatus[r] = "none"
  /\ moStatus' = [moStatus EXCEPT ![r] = "pending"]
  /\ EnqueueCall(<<r, 0>>)
  /\ UNCHANGED <<retries, callPc, callJob, callAnswer, calls, callFaults, callCut, overlapped>>

\* ingestInClient
IngestMessage == FanOut(0)

\* Rows that a redispatch would deliver a second time.
LiveRow(r) == moStatus[r] \in {"pending", "running"}

\* redispatch: refused while a row is live, whatever its jobs do.
Redispatch(r) ==
  /\ r # 0 /\ moStatus[r - 1] # "none"
  /\ \A q \in MoRowIds : ~LiveRow(q)
  /\ FanOut(r)

\* Nothing sets the status 'cancelled', which is accepted too.
Retryable(r) == moStatus[r] \in {"failed", "dead_letter"}

\* retryDelivery: a new job, and the row starts over.  A row is 'failed' too
\* while its own job waits for its next attempt.
RetryDelivery(r) ==
  /\ Retryable(r) /\ retries[r] < MaxRetries
  /\ overlapped' = IF HasLiveCall(r) THEN overlapped \cup {r} ELSE overlapped
  /\ moStatus' = [moStatus EXCEPT ![r] = "pending"]
  /\ retries' = [retries EXCEPT ![r] = @ + 1]
  /\ EnqueueCall(<<r, retries[r] + 1>>)
  /\ UNCHANGED <<callPc, callJob, callAnswer, calls, callFaults, callCut>>

\* POST /jobs/:id/cancel
CancelCall(j) ==
  /\ CQ!Withdraw(j)
  /\ callCut' = callCut \cup {j[1]}
  /\ UNCHANGED <<moStatus, retries, callPc, callJob, callAnswer, calls, callFaults, overlapped>>

-----------------------------------------------------------------------------
(* dispatch().                                                             *)

CallGoes(w, from, to) == callPc[w] = from /\ callPc' = [callPc EXCEPT ![w] = to]

CallAside == UNCHANGED <<retries, callCut, overlapped>>

TakeCall(j, w) ==
  /\ CallGoes(w, "idle", "load")
  /\ CQ!Take(j, w)
  /\ callJob' = [callJob EXCEPT ![w] = j]
  /\ UNCHANGED <<moStatus, callAnswer, calls, callFaults>> /\ CallAside

\* Mutation: a delivered row is called again.
DoneAlreadyNever(r) == FALSE

DoneAlready(r) == moStatus[r] = "delivered"

\* The row is locked and marked running, unless it is done.  It is there, and
\* so is its message, which the foreign key ties to it: no code deletes either.
LoadRow(w) ==
  /\ callPc[w] = "load"
  /\ \/ /\ DoneAlready(MyRow(w))
        /\ CallGoes(w, "load", "done")
        /\ UNCHANGED moStatus
     \/ /\ ~DoneAlready(MyRow(w))
        /\ CallGoes(w, "load", "call")
        /\ moStatus' = [moStatus EXCEPT ![MyRow(w)] = "running"]
  /\ UNCHANGED <<callQueue, callJob, callAnswer, calls, callFaults>> /\ CallAside

\* attempt(): the destination is called and answers, or not; nothing is thrown.
CallDestination(w) ==
  /\ CallGoes(w, "call", "write")
  /\ calls' = [calls EXCEPT ![callJob[w]] = @ + 1]
  /\ \E a \in {"delivered", "failed"} : callAnswer' = [callAnswer EXCEPT ![w] = a]
  /\ UNCHANGED <<callQueue, moStatus, callJob, callFaults>> /\ CallAside

\* Mutation: one attempt too many.
OutOfCallsLate(n) == n > CallLimit

\* The destination's own budget, against the job's attempt number.
OutOfCalls(n) == n >= CallLimit

Attempted(w) == callRuns[callJob[w]]

\* The outcome is written by the row's id alone, and a failure thrown: for
\* good when the budget is spent.
WriteOutcome(w) ==
  /\ callPc[w] = "write"
  /\ moStatus' = [moStatus EXCEPT ![MyRow(w)] =
       IF callAnswer[w] = "delivered" THEN "delivered"
       ELSE IF OutOfCalls(Attempted(w)) THEN "dead_letter" ELSE "failed"]
  /\ CallGoes(w, "write", IF callAnswer[w] = "delivered" THEN "done"
                          ELSE IF OutOfCalls(Attempted(w)) THEN "bury" ELSE "retry")
  /\ UNCHANGED <<callQueue, callJob, callAnswer, calls, callFaults>> /\ CallAside

\* The worker forgets the job.
ForgetCall(w) ==
  /\ callPc' = [callPc EXCEPT ![w] = "idle"]
  /\ callJob' = [callJob EXCEPT ![w] = NoCourier]
  /\ callAnswer' = [callAnswer EXCEPT ![w] = "none"]

\* The queue hears of the job's end, unless the job was cancelled.
CallReports(w, next) ==
  /\ \/ CQ!Settle(callJob[w]) /\ callPhase'[callJob[w]] = next
     \/ callPhase[callJob[w]] = "over" /\ CQ!Lose(callJob[w])
  /\ ForgetCall(w)
  /\ UNCHANGED <<moStatus, calls>> /\ CallAside

\* Mutation: a job that threw is not retried.
AfterThrowOver(j) == "over"

\* failAttempt
AfterThrow(j) == IF callRuns[j] < CallJobLimit THEN "waiting" ELSE "over"

\* dispatch() returned, or threw PermanentJobError.
EndCall(w) ==
  /\ callPc[w] \in {"done", "bury"}
  /\ CallReports(w, "over")
  /\ UNCHANGED callFaults

\* dispatch() threw: the job is retried.
RetryCall(w) ==
  /\ callPc[w] = "retry"
  /\ CallReports(w, AfterThrow(callJob[w]))
  /\ UNCHANGED callFaults

\* A transaction of dispatch() is rejected, and the job retried.
ThrowCall(w) ==
  /\ CallFault
  /\ callPc[w] \in {"load", "write"}
  /\ CallReports(w, AfterThrow(callJob[w]))

\* The worker's process ends, or it cannot report the job's outcome.
CrashCall(w) ==
  /\ CallFault
  /\ callPc[w] # "idle"
  /\ CQ!Lose(callJob[w])
  /\ ForgetCall(w)
  /\ UNCHANGED <<moStatus, calls>> /\ CallAside

\* The reaper gives the job back, or buries it.
RecoverCall(j) ==
  /\ CQ!Recover({j})
  /\ UNCHANGED <<moStatus, callPc, callJob, callAnswer, calls, callFaults>> /\ CallAside

-----------------------------------------------------------------------------
CallStep(w) ==
  LoadRow(w) \/ CallDestination(w) \/ WriteOutcome(w) \/ EndCall(w) \/ RetryCall(w)

CallNext ==
  \/ IngestMessage
  \/ \E r \in MoRowIds : Redispatch(r) \/ RetryDelivery(r)
  \/ \E w \in Couriers : CallStep(w) \/ ThrowCall(w) \/ CrashCall(w)
  \/ \E j \in CallJobs : CancelCall(j) \/ RecoverCall(j) \/ \E w \in Couriers : TakeCall(j, w)

CallSpec == CallInit /\ [][CallNext]_callVars

\* A live worker goes on, some waiting job is taken, and the reaper runs; there
\* are finitely many executions, so every job gets its turn.
CallFairness ==
  /\ \A w \in Couriers : WF_callVars(CallStep(w))
  /\ WF_callVars(\E j \in CallJobs : RecoverCall(j))
  /\ WF_callVars(\E j \in CallJobs, w \in Couriers : TakeCall(j, w))

CallFairSpec == CallSpec /\ CallFairness

-----------------------------------------------------------------------------
(* Properties.                                                             *)

\* "Only a terminal FAILED delivery may be retried: a pending or running one
\* already has a worker": what was delivered stays so, through retried jobs,
\* crashes, cancellations and redispatches, unless the row was retried while an
\* earlier job of its own was live, whose outcome then comes last.
DeliveredStays ==
  [][\A r \in MoRowIds :
       moStatus[r] = "delivered" /\ r \notin overlapped => moStatus'[r] = "delivered"]_callVars

\* A destination is not called past "the limit the operator set": every job,
\* the ingest's, a redispatch's or a manual retry's, calls it at most CallLimit
\* times, and once more for each outcome that was lost before it was written.
CallsBounded == \A j \in CallJobs : calls[j] <= CallLimit + callFaults

\* "There is no path that leaves a delivery in `running`", or in any state its
\* operator cannot leave: a row settles unless one of its jobs is cancelled, or
\* as many faults happened as the job's limit leaves attempts beyond the
\* destination's own and the last of them.
DeliverySettles ==
  \A r \in MoRowIds :
    moStatus[r] # "none" ~>
      \/ moStatus[r] \in {"delivered", "dead_letter"}
      \/ r \in callCut \/ callFaults > CallJobLimit - CallLimit

===============================================================================
