--------------------------- MODULE DeliveryRetry ---------------------------
(***************************************************************************)
(* Re-sending what a carrier failed to deliver: the chain rows of          *)
(* message_delivery_retries with their attempt rows, the scans that read   *)
(* negative delivery reports from the engine, and the dispatch jobs that   *)
(* re-send.                                                                *)
(*                                                                         *)
(* A submission is <<c, n>>: chain c's original message when n = 0, its    *)
(* attempt number n otherwise.  A chain has one dispatch job for each      *)
(* value of the idempotency key delivery-retry:<chain>:<attempt>; the      *)
(* queue is the abstract one that JobQueue implements.                     *)
(*                                                                         *)
(* The engine's database is not JKANNEL's: spooled submissions and their   *)
(* reports commit there at once, and nothing takes them back.  Scans run   *)
(* from a job and from POST /delivery-retries/scan, so several may be in   *)
(* flight.  A scan that finds the engine down or no policy enabled changes *)
(* nothing and is left out.                                                *)
(***************************************************************************)
EXTENDS Naturals, FiniteSets

CONSTANTS
  Chains,              \* the original messages, all sent by this tenant
  Workers,             \* workers that execute dispatch jobs
  Scanners,            \* scans that may be in flight together
  Nobody,              \* NULL
  MaxAttempts,         \* max_attempts of a chain
  QueueAttempts,       \* DELIVERY_RETRY_DISPATCH_MAX_ATTEMPTS
  Cap,                 \* bound: the chains one scan may open or continue
  MaxFaults,           \* bound: crashes, rejected calls and cancelled jobs
  ReportsAfterCommit   \* whether a report never precedes the sender's COMMIT

ASSUME BudgetAssumption == MaxAttempts \in Nat \ {0} /\ QueueAttempts \in Nat \ {0}
ASSUME BoundAssumption == Cap \in Nat /\ MaxFaults \in Nat
ASSUME CarrierAssumption == ReportsAfterCommit \in BOOLEAN
ASSUME ActorsAssumption == Nobody \notin Workers /\ IsFiniteSet(Scanners)

VARIABLES
  phase, executor, runs,  \* the queue's view of the dispatch jobs
  status,     \* message_delivery_retries.status, "none" before the INSERT
  attempts,   \* message_delivery_retries.attempts
  row,        \* outcome in the attempt row of a submission, or "none"
  dlr,        \* dlr_event in that row, or "none"
  watermark,  \* delivery_retry_state.watermark_sql_id
  spooled,    \* submissions in send_sms
  failId,     \* place of a submission's report among the listed ones, 0 if none
  lastId,     \* newest listed report
  delivered,  \* submissions whose newest report is a delivery
  rejected,   \* submissions with a negative report that no scan lists
  pc,         \* where a worker is in dispatch()
  job,        \* the dispatch job it executes
  refs,       \* the submissions its first transaction saw
  fence,      \* the attempts its claim returned
  verdict,    \* the status it is about to finish the chain with
  spc,        \* where a scan is
  pos,        \* highest: the last report it ingested
  upto,       \* the last report its query returned
  budget,     \* what the storm cap leaves it
  open,       \* submissions it is asking the engine about
  ingested,   \* history: reports some scan ingested
  cancelled,  \* history: chains one of whose jobs an operator cancelled
  faults

queue    == <<phase, executor, runs>>
rows     == <<status, attempts, row, dlr>>
engine   == <<spooled, failId, lastId, delivered, rejected>>
dispatch == <<pc, job, refs, fence, verdict>>
scan     == <<spc, pos, upto, budget, open>>
vars     == <<queue, rows, watermark, engine, dispatch, scan, ingested, cancelled, faults>>

Numbers == 0..MaxAttempts
Submissions == Chains \X Numbers
DispatchJobs == Chains \X (1..MaxAttempts)
ChainOf(j) == j[1]

Queue == INSTANCE JobService
           WITH Jobs <- DispatchJobs, Limit <- [j \in DispatchJobs |-> QueueAttempts]

Open == {"pending", "retrying"}
Closed == {"delivered", "exhausted", "abandoned", "failed"}

DispatchSteps == {"load", "check", "claim", "choose", "send", "commit", "mark", "charge",
                  "refuse", "finish", "return"}
ScanSteps == {"idle", "query", "reports", "settle", "events", "settling", "record"}

\* Types.
TypeOK ==
  /\ phase \in [DispatchJobs -> {"absent", "waiting", "taken", "over"}]
  /\ executor \in [DispatchJobs -> Workers \cup {Nobody}]
  /\ runs \in [DispatchJobs -> 0..QueueAttempts]
  /\ status \in [Chains -> {"none", "resent"} \cup Open \cup Closed]
  /\ attempts \in [Chains -> Numbers]
  /\ row \in [Submissions -> {"none", "submitted", "refused", "no_bind"}]
  /\ dlr \in [Submissions -> {"none", "failed", "delivered"}]
  /\ watermark \in Nat /\ lastId \in Nat
  /\ failId \in [Submissions -> Nat]
  /\ spooled \in SUBSET Submissions /\ delivered \in SUBSET Submissions
  /\ rejected \in SUBSET Submissions
  /\ pc \in [Workers -> DispatchSteps \cup {"idle"}]
  /\ job \in [Workers -> DispatchJobs \cup {Nobody}]
  /\ refs \in [Workers -> SUBSET Submissions]
  /\ fence \in [Workers -> Numbers]
  /\ verdict \in [Workers -> Closed \cup {"none"}]
  /\ spc \in [Scanners -> ScanSteps]
  /\ pos \in [Scanners -> Nat] /\ upto \in [Scanners -> Nat]
  /\ budget \in [Scanners -> 0..Cap]
  /\ open \in [Scanners -> SUBSET Submissions]
  /\ ingested \in SUBSET Nat
  /\ cancelled \in SUBSET Chains
  /\ faults \in 0..MaxFaults

\* Every original message is in the engine and its decision row is committed.
Init ==
  /\ Queue!Init
  /\ status = [c \in Chains |-> "none"]
  /\ attempts = [c \in Chains |-> 0]
  /\ row = [s \in Submissions |-> IF s[2] = 0 THEN "submitted" ELSE "none"]
  /\ dlr = [s \in Submissions |-> "none"]
  /\ watermark = 0
  /\ spooled = Chains \X {0}
  /\ failId = [s \in Submissions |-> 0]
  /\ lastId = 0
  /\ delivered = {}
  /\ rejected = {}
  /\ pc = [w \in Workers |-> "idle"]
  /\ job = [w \in Workers |-> Nobody]
  /\ refs = [w \in Workers |-> {}]
  /\ fence = [w \in Workers |-> 0]
  /\ verdict = [w \in Workers |-> "none"]
  /\ spc = [x \in Scanners |-> "idle"]
  /\ pos = [x \in Scanners |-> 0]
  /\ upto = [x \in Scanners |-> 0]
  /\ budget = [x \in Scanners |-> 0]
  /\ open = [x \in Scanners |-> {}]
  /\ ingested = {}
  /\ cancelled = {}
  /\ faults = 0

Fault == faults < MaxFaults /\ faults' = faults + 1

Mine(w) == ChainOf(job[w])
Attempt(w) == <<Mine(w), fence[w]>>

-----------------------------------------------------------------------------
(* The engine.                                                             *)

\* The submission is in the engine but its sender has not committed yet.
InSeam(s) == \E w \in Workers : pc[w] \in {"commit", "mark"} /\ Attempt(w) = s

\* The carrier may report on s: one negative report per submission.
Reportable(s) ==
  /\ s \in spooled \ (delivered \cup rejected)
  /\ failId[s] = 0
  /\ ReportsAfterCommit => ~InSeam(s)

\* A negative report that some policy asks for: dlr_mask 2, or 16 where a
\* policy sets retry_on_rejected.  scannableEvents is the scans' filter, so
\* only these are numbered; the sql_ids between them are other reports'.
ReportFailure(s) ==
  /\ Reportable(s)
  /\ lastId' = lastId + 1
  /\ failId' = [failId EXCEPT ![s] = lastId + 1]
  /\ UNCHANGED <<queue, rows, watermark, spooled, delivered, rejected, dispatch, scan>>
  /\ UNCHANGED <<ingested, cancelled, faults>>

\* A rejection (dlr_mask 16) that no policy asks for: no scan ever reads it.
ReportRejection(s) ==
  /\ Reportable(s)
  /\ rejected' = rejected \cup {s}
  /\ UNCHANGED <<queue, rows, watermark, spooled, failId, lastId, delivered, dispatch, scan>>
  /\ UNCHANGED <<ingested, cancelled, faults>>

\* A delivery report, possibly after a negative one.
ReportDelivery(s) ==
  /\ s \in spooled \ delivered
  /\ delivered' = delivered \cup {s}
  /\ UNCHANGED <<queue, rows, watermark, spooled, failId, lastId, rejected, dispatch, scan>>
  /\ UNCHANGED <<ingested, cancelled, faults>>

-----------------------------------------------------------------------------
(* scan().                                                                 *)

\* What most steps of scan() leave alone.
ScanAside == UNCHANGED <<queue, rows, watermark, engine, dispatch, ingested, cancelled>>

ScanMoves(x, from, to) == spc[x] = from /\ spc' = [spc EXCEPT ![x] = to]

\* The locals of scan() go out of scope.
ScanEnds(x) ==
  /\ spc' = [spc EXCEPT ![x] = "idle"]
  /\ pos' = [pos EXCEPT ![x] = 0]
  /\ upto' = [upto EXCEPT ![x] = 0]
  /\ budget' = [budget EXCEPT ![x] = 0]
  /\ open' = [open EXCEPT ![x] = {}]

\* The watermark and the storm cap's budget, in one transaction.
Prepare(x) ==
  /\ ScanMoves(x, "idle", "query")
  /\ pos' = [pos EXCEPT ![x] = watermark]
  /\ \E b \in 0..Cap : budget' = [budget EXCEPT ![x] = b]
  /\ UNCHANGED <<upto, open, faults>> /\ ScanAside

\* findNegativeDeliveryReports, of the events that the policies ask for.
Query(x) ==
  /\ ScanMoves(x, "query", "reports")
  /\ upto' = [upto EXCEPT ![x] = lastId]
  /\ UNCHANGED <<pos, budget, open, faults>> /\ ScanAside

\* enqueueDispatch: the idempotency key makes a second enqueue a no-op.
EnqueueDispatch(c, n) ==
  IF phase[<<c, n>>] = "absent" THEN Queue!Submit(<<c, n>>) ELSE UNCHANGED queue

\* The report is counted against the scan's budget.
Charge(x) == budget' = [budget EXCEPT ![x] = @ - 1]

\* ingestReport, for an original message: the policy accepts the report, only
\* records it, or ignores it.  The unique index refuses a second chain.
OpenChain(x, c) ==
  \/ /\ status[c] = "none"
     /\ status' = [status EXCEPT ![c] = "pending"]
     /\ EnqueueDispatch(c, 1)
     /\ Charge(x)
  \/ /\ status[c] = "none"
     /\ status' = [status EXCEPT ![c] = "abandoned"]
     /\ Charge(x)
     /\ UNCHANGED queue
  \/ UNCHANGED <<status, queue, budget>>

\* Mutation: the last attempt's chain is left as it is.
ContinuableWithBudget(c) == status[c] = "resent" /\ attempts[c] < MaxAttempts

\* Only a chain that waits for this report goes on.
Continuable(c) == status[c] = "resent"

\* continueChain, for an attempt of ours.
ContinueChain(x, c) ==
  \/ /\ Continuable(c) /\ attempts[c] >= MaxAttempts
     /\ status' = [status EXCEPT ![c] = "exhausted"]
     /\ Charge(x)
     /\ UNCHANGED queue
  \/ /\ Continuable(c) /\ attempts[c] < MaxAttempts
     /\ status' = [status EXCEPT ![c] = "pending"]
     /\ EnqueueDispatch(c, attempts[c] + 1)
     /\ Charge(x)
  \/ /\ ~Continuable(c)
     /\ UNCHANGED <<status, queue, budget>>

\* ingestReport: an attempt is found by its message_ref; a submission with
\* neither attempt nor decision row is not ours.
IngestReport(x, s) ==
  \/ /\ s[2] = 0
     /\ OpenChain(x, s[1])
     /\ UNCHANGED dlr
  \/ /\ s[2] # 0 /\ row[s] = "submitted"
     /\ dlr' = [dlr EXCEPT ![s] = "failed"]
     /\ ContinueChain(x, s[1])
  \/ /\ s[2] # 0 /\ row[s] # "submitted"
     /\ UNCHANGED <<dlr, status, queue, budget>>

\* One report in its own transaction; the scan moves past what it ingested.
Ingest(x) ==
  /\ spc[x] = "reports" /\ pos[x] < upto[x] /\ budget[x] > 0
  /\ \E s \in Submissions : failId[s] = pos[x] + 1 /\ IngestReport(x, s)
  /\ pos' = [pos EXCEPT ![x] = @ + 1]
  /\ ingested' = ingested \cup {pos[x] + 1}
  /\ UNCHANGED <<attempts, row, watermark, engine, dispatch, spc, upto, open, cancelled, faults>>

\* Mutation: the failed report is skipped.
PastFailed(x) == pos' = [pos EXCEPT ![x] = @ + 1]

\* The watermark must not advance past a report that could not be used.
AtFailed(x) == UNCHANGED pos

\* A report's transaction is rejected: recordScan and stop.
IngestFails(x) ==
  /\ Fault
  /\ pos[x] < upto[x] /\ budget[x] > 0
  /\ ScanMoves(x, "reports", "record")
  /\ AtFailed(x)
  /\ UNCHANGED <<upto, budget, open>> /\ ScanAside

\* No report or no budget is left.
ReportsDone(x) ==
  /\ ScanMoves(x, "reports", "settle")
  /\ pos[x] >= upto[x] \/ budget[x] = 0
  /\ upto' = [upto EXCEPT ![x] = 0]
  /\ budget' = [budget EXCEPT ![x] = 0]
  /\ UNCHANGED <<pos, open, faults>> /\ ScanAside

\* The last attempt of a chain whose outcome is not known.
Unsettled(s) ==
  /\ status[s[1]] = "resent" /\ s[2] = attempts[s[1]]
  /\ row[s] = "submitted" /\ dlr[s] = "none"

\* settleResentChains: the open chains, and nothing more to do without one.
ReadResent(x) ==
  /\ open' = [open EXCEPT ![x] = {s \in Submissions : Unsettled(s)}]
  /\ IF open'[x] = {} THEN ScanMoves(x, "settle", "record") ELSE ScanMoves(x, "settle", "events")
  /\ UNCHANGED <<pos, upto, budget, faults>> /\ ScanAside

\* Mutation: any report counts as a delivery.
SettledAny(x) == open[x]

\* latestDeliveryEvents: what the engine reports as delivered.
Settled(x) == open[x] \cap delivered

AskEngine(x) ==
  /\ ScanMoves(x, "events", "settling")
  /\ open' = [open EXCEPT ![x] = Settled(x)]
  /\ UNCHANGED <<pos, upto, budget, faults>> /\ ScanAside

\* One chain in its own transaction; terminate matches the chain by id alone.
SettleChain(x, s) ==
  /\ spc[x] = "settling" /\ s \in open[x]
  /\ open' = [open EXCEPT ![x] = @ \ {s}]
  /\ dlr' = [dlr EXCEPT ![s] = "delivered"]
  /\ status' = [status EXCEPT ![s[1]] = "delivered"]
  /\ UNCHANGED <<queue, attempts, row, watermark, engine, dispatch, spc, pos, upto, budget>>
  /\ UNCHANGED <<ingested, cancelled, faults>>

SettleDone(x) ==
  /\ ScanMoves(x, "settling", "record")
  /\ open[x] = {}
  /\ UNCHANGED <<pos, upto, budget, open, faults>> /\ ScanAside

\* recordScan: GREATEST.
RecordScan(x) ==
  /\ spc[x] = "record"
  /\ ScanEnds(x)
  /\ watermark' = IF pos[x] > watermark THEN pos[x] ELSE watermark
  /\ UNCHANGED <<queue, rows, engine, dispatch, ingested, cancelled, faults>>

\* A scan dies, its transaction is rejected outside the loop, or recordScan's
\* is, which is swallowed.
ScanLost(x) ==
  /\ Fault
  /\ spc[x] # "idle"
  /\ ScanEnds(x)
  /\ ScanAside

-----------------------------------------------------------------------------
(* dispatch().                                                             *)

Goes(w, from, to) == pc[w] = from /\ pc' = [pc EXCEPT ![w] = to]

\* What every step of dispatch() leaves alone.
Aside == UNCHANGED <<watermark, failId, lastId, delivered, rejected, scan, ingested>>

Take(j, w) ==
  /\ Goes(w, "idle", "load")
  /\ Queue!Take(j, w)
  /\ job' = [job EXCEPT ![w] = j]
  /\ UNCHANGED <<rows, spooled, refs, fence, verdict, cancelled, faults>> /\ Aside

\* finish(): the chain is about to get its terminal status.
Finish(w, from, v) ==
  /\ Goes(w, from, "finish")
  /\ verdict' = [verdict EXCEPT ![w] = v]

\* The chain, its policy and its attempts, in one transaction.
Load(w) ==
  /\ pc[w] = "load"
  /\ \/ /\ status[Mine(w)] \notin Open
        /\ Goes(w, "load", "return")
        /\ UNCHANGED <<refs, verdict>>
     \/ /\ status[Mine(w)] \in Open  \* the policy was switched off
        /\ Finish(w, "load", "abandoned")
        /\ UNCHANGED refs
     \/ /\ status[Mine(w)] \in Open
        /\ Goes(w, "load", "check")
        /\ refs' = [refs EXCEPT ![w] =
             {s \in Submissions : s[1] = Mine(w) /\ row[s] = "submitted"}]
        /\ UNCHANGED verdict
  /\ UNCHANGED <<queue, rows, spooled, job, fence, cancelled, faults>> /\ Aside

\* The last read before anything is sent: a late delivery cancels the retry.
CheckEngine(w) ==
  /\ \/ refs[w] \cap delivered # {} /\ Finish(w, "check", "delivered")
     \/ refs[w] \cap delivered = {} /\ Goes(w, "check", "claim") /\ UNCHANGED verdict
  /\ refs' = [refs EXCEPT ![w] = {}]
  /\ UNCHANGED <<queue, rows, spooled, job, fence, cancelled, faults>> /\ Aside

AttemptLeft(c) == attempts[c] < MaxAttempts

\* Mutation: the attempt is counted when it is committed, not when claimed.
CountClaimLater(c) == UNCHANGED attempts

\* Committed before the send.
CountClaim(c) == attempts' = [attempts EXCEPT ![c] = @ + 1]

\* The claim, with the budget in its predicate; the count is the fence.
Claim(w) ==
  /\ pc[w] = "claim"
  /\ \/ /\ status[Mine(w)] \in Open /\ AttemptLeft(Mine(w))
        /\ Goes(w, "claim", "choose")
        /\ status' = [status EXCEPT ![Mine(w)] = "retrying"]
        /\ CountClaim(Mine(w))
        /\ fence' = [fence EXCEPT ![w] = attempts[Mine(w)] + 1]
        /\ UNCHANGED verdict
     \/ /\ ~(status[Mine(w)] \in Open /\ AttemptLeft(Mine(w)))
        /\ Finish(w, "claim", "exhausted")
        /\ UNCHANGED <<status, attempts, fence>>
  /\ UNCHANGED <<queue, row, dlr, spooled, job, refs, cancelled, faults>> /\ Aside

\* recordAttempt: ON CONFLICT DO NOTHING.
RecordAttempt(w, outcome) ==
  row' = [row EXCEPT ![Attempt(w)] = IF @ = "none" THEN outcome ELSE @]

\* chooseBind: an untried healthy bind, or none.
ChooseBind(w) ==
  /\ \/ Goes(w, "choose", "send") /\ UNCHANGED <<row, verdict>>
     \/ Finish(w, "choose", "exhausted") /\ RecordAttempt(w, "no_bind")
  /\ UNCHANGED <<queue, status, attempts, dlr, spooled, job, refs, fence, cancelled, faults>>
  /\ Aside

\* send(): refused by the send path, or INSERTed into the engine's database.
Send(w) ==
  /\ \/ Goes(w, "send", "refuse") /\ UNCHANGED spooled
     \/ Goes(w, "send", "commit") /\ spooled' = spooled \cup {Attempt(w)}
  /\ UNCHANGED <<queue, rows, job, refs, fence, verdict, cancelled, faults>> /\ Aside

\* Mutation: the fence does not look at the chain's status.
FencedByCount(w) == attempts[Mine(w)] = fence[w]

\* Mutation: the fence is the count from before the claim.
FencedBefore(w) == status[Mine(w)] = "retrying" /\ attempts[Mine(w)] + 1 = fence[w]

\* onSubmitted's WHERE EXISTS.
Fenced(w) == status[Mine(w)] = "retrying" /\ attempts[Mine(w)] = fence[w]

\* onSubmitted's INSERT, which locks nothing of the chain, or its throw, which
\* rolls back JKANNEL's half.
CheckFence(w) ==
  /\ \/ Goes(w, "commit", "mark") /\ Fenced(w)
     \/ Goes(w, "commit", "refuse") /\ ~Fenced(w)
  /\ UNCHANGED <<queue, rows, spooled, job, refs, fence, verdict, cancelled, faults>> /\ Aside

\* The UPDATE matches the count but not the status.
Resent(w) ==
  IF attempts[Mine(w)] = fence[w] THEN [status EXCEPT ![Mine(w)] = "resent"] ELSE status

\* onSubmitted's UPDATE and the COMMIT.
CommitSend(w) ==
  /\ Goes(w, "mark", "charge")
  /\ row' = [row EXCEPT ![Attempt(w)] = "submitted"]
  /\ status' = Resent(w)
  /\ UNCHANGED <<queue, attempts, dlr, spooled, job, refs, fence, verdict, cancelled, faults>>
  /\ Aside

\* The charge is written in a transaction of its own.
RecordCharge(w) ==
  /\ Goes(w, "charge", "return")
  /\ UNCHANGED <<queue, rows, spooled, job, refs, fence, verdict, cancelled, faults>> /\ Aside

\* Whatever send() or the transaction after it threw is recorded as a refusal.
Refuse(w) ==
  /\ Finish(w, "refuse", "failed")
  /\ RecordAttempt(w, "refused")
  /\ UNCHANGED <<queue, status, attempts, dlr, spooled, job, refs, fence, cancelled, faults>>
  /\ Aside

\* Mutation: the reason is returned but not written.
TerminateNothing(c, v) == UNCHANGED status

\* terminate: matches the chain by id alone.
Terminate(c, v) == status' = [status EXCEPT ![c] = v]

FinishChain(w) ==
  /\ pc[w] = "finish"
  /\ Goes(w, "finish", "return")
  /\ Terminate(Mine(w), verdict[w])
  /\ UNCHANGED <<queue, attempts, row, dlr, spooled, job, refs, fence, verdict, cancelled, faults>>
  /\ Aside

\* The locals of dispatch() go out of scope.
Forget(w) ==
  /\ pc' = [pc EXCEPT ![w] = "idle"]
  /\ job' = [job EXCEPT ![w] = Nobody]
  /\ refs' = [refs EXCEPT ![w] = {}]
  /\ fence' = [fence EXCEPT ![w] = 0]
  /\ verdict' = [verdict EXCEPT ![w] = "none"]

\* The worker reports the job done; a cancelled one it just drops.
Return(w) ==
  /\ pc[w] = "return"
  /\ \/ Queue!Settle(job[w]) /\ phase'[job[w]] = "over"
     \/ phase[job[w]] = "over" /\ Queue!Lose(job[w])
  /\ Forget(w)
  /\ UNCHANGED <<rows, spooled, cancelled, faults>> /\ Aside

-----------------------------------------------------------------------------
(* Faults.                                                                 *)

\* A transaction or an engine query outside the try block is rejected, and
\* the job fails: it is retried while it has attempts left.
Throw(w) ==
  /\ Fault
  /\ pc[w] \in {"load", "check", "claim", "choose", "finish"}
  /\ \/ /\ Queue!Settle(job[w])
        /\ phase'[job[w]] = IF runs[job[w]] < QueueAttempts THEN "waiting" ELSE "over"
     \/ phase[job[w]] = "over" /\ Queue!Lose(job[w])
  /\ Forget(w)
  /\ UNCHANGED <<rows, spooled, cancelled>> /\ Aside

\* A call inside the try block is rejected: the INSERT, which may have reached
\* the engine, the COMMIT, or the charge.
SendFails(w) ==
  /\ Fault
  /\ pc[w] \in {"send", "commit", "mark", "charge"}
  /\ pc' = [pc EXCEPT ![w] = "refuse"]
  /\ spooled' \in IF pc[w] = "send" THEN {spooled, spooled \cup {Attempt(w)}} ELSE {spooled}
  /\ UNCHANGED <<queue, rows, job, refs, fence, verdict, cancelled>> /\ Aside

\* recordAttempt's transaction is rejected, which is swallowed.
RecordLost(w) ==
  /\ Fault
  /\ \/ Finish(w, "choose", "exhausted")
     \/ Finish(w, "refuse", "failed")
  /\ UNCHANGED <<queue, rows, spooled, job, refs, fence, cancelled>> /\ Aside

\* The worker's process ends, or it cannot report the job's outcome.
Crash(w) ==
  /\ Fault
  /\ pc[w] # "idle"
  /\ Queue!Lose(job[w])
  /\ Forget(w)
  /\ UNCHANGED <<rows, spooled, cancelled>> /\ Aside

\* The reaper gives the job back, or buries it.
Recover(j) ==
  /\ Queue!Recover({j})
  /\ UNCHANGED <<rows, spooled, dispatch, cancelled, faults>> /\ Aside

\* POST /jobs/:id/cancel
CancelJob(j) ==
  /\ Fault
  /\ Queue!Withdraw(j)
  /\ cancelled' = cancelled \cup {ChainOf(j)}
  /\ UNCHANGED <<rows, spooled, dispatch>> /\ Aside

-----------------------------------------------------------------------------
Scan(x) ==
  \/ Prepare(x) \/ Query(x) \/ Ingest(x) \/ IngestFails(x) \/ ReportsDone(x)
  \/ ReadResent(x) \/ AskEngine(x) \/ SettleDone(x) \/ RecordScan(x) \/ ScanLost(x)
  \/ \E s \in Submissions : SettleChain(x, s)

Dispatch(w) ==
  \/ Load(w) \/ CheckEngine(w) \/ Claim(w) \/ ChooseBind(w) \/ Send(w) \/ CheckFence(w)
  \/ CommitSend(w) \/ RecordCharge(w) \/ Refuse(w) \/ FinishChain(w) \/ Return(w)

Next ==
  \/ \E s \in Submissions : ReportFailure(s) \/ ReportRejection(s) \/ ReportDelivery(s)
  \/ \E x \in Scanners : Scan(x)
  \/ \E w \in Workers : Dispatch(w) \/ Throw(w) \/ SendFails(w) \/ RecordLost(w) \/ Crash(w)
  \/ \E j \in DispatchJobs : Recover(j) \/ CancelJob(j) \/ \E w \in Workers : Take(j, w)

Spec == Init /\ [][Next]_vars

\* The jobs get on: some worker inside dispatch() goes on, some waiting job is
\* taken if a worker is free, and the reaper recovers lost ones.  Executions are
\* bounded, so that nothing more is needed for each of them to end.
Fairness ==
  /\ WF_vars(\E w \in Workers : Dispatch(w))
  /\ WF_vars(\E j \in DispatchJobs : Recover(j))
  /\ WF_vars(\E j \in DispatchJobs, w \in Workers : Take(j, w))

FairSpec == Spec /\ Fairness

-----------------------------------------------------------------------------
(* Properties.                                                             *)

\* "No crash-loop or duplicate dispatcher can exceed max_attempts submissions":
\* whatever is spooled was counted first.
SubmissionsCounted == \A s \in spooled : s[2] <= attempts[s[1]]

\* What the rows say happened did: a submitted attempt is in the engine, and a
\* recorded delivery report, the chain's included, is one the engine made.
RecordsAreTrue ==
  /\ \A s \in Submissions :
       /\ row[s] = "submitted" => s \in spooled
       /\ dlr[s] = "delivered" => s \in delivered
       /\ dlr[s] = "failed" => failId[s] # 0
  /\ \A c \in Chains : status[c] = "delivered" => \E s \in delivered : s[1] = c

\* No report is lost behind the watermark, whatever the storm cap, a rejected
\* transaction or another scan did: every one at or below it was ingested.
WatermarkCoversIngested == \A i \in 1..watermark : i \in ingested

\* Scans implement LogReader: whatever the storm cap, a rejected transaction or
\* another scan does, the watermark only moves forward, over reports that were
\* ingested, and a scan ingests nothing the engine has not reported.
Reader == INSTANCE LogReader WITH last <- lastId, done <- ingested, mark <- watermark

ImplementsLogReader == Reader!Spec

\* "That status means exactly 'a retry was submitted and its outcome is not
\* known yet'", as far as scans read: none has passed a listed failure of the
\* attempt that a resent chain waits for.  A rejection that no policy asks for
\* is known to the engine and to no scan, and its chain stays resent for good.
ResentMeansUnknown ==
  \A c \in Chains :
    status[c] = "resent" =>
      /\ row[<<c, attempts[c]>>] = "submitted"
      /\ failId[<<c, attempts[c]>>] = 0 \/ failId[<<c, attempts[c]>>] > watermark

\* The chain was ended between the fence check and the UPDATE of its sender.
EndedInSend(c) ==
  \E w \in Workers : pc[w] = "mark" /\ Attempt(w) = <<c, attempts[c]>>

\* A chain that was ended never sends on: no sender passes its fence, and only
\* its reason may be replaced.  UPDATE ... SET status='resent' without a status
\* guard is the one exception, for the sender that had passed the fence when
\* the chain ended; that takes a fault, or two scans at work.
ClosedStaysClosed ==
  [][\A c \in Chains : status[c] \in Closed =>
       /\ \A w \in Workers : pc[w] = "commit" /\ Mine(w) = c => pc'[w] # "mark"
       /\ status'[c] \notin Closed =>
            /\ faults > 0 \/ Cardinality(Scanners) # 1
            /\ EndedInSend(c) /\ status'[c] = "resent" /\ attempts'[c] = attempts[c]]_vars

\* While nothing fails and scans do not overlap, every spooled attempt has its
\* attempt row, or its sender is about to write it.
NoSendUnrecorded ==
  faults = 0 /\ Cardinality(Scanners) = 1 =>
    \A s \in spooled : row[s] = "submitted" \/ InSeam(s)

\* "Every early exit terminates the chain with a reason rather than leaving it
\* open", with fewer faults than a job has attempts and its jobs not cancelled.
OpenChainSettles ==
  \A c \in Chains : status[c] \in Open ~> status[c] \notin Open \/ c \in cancelled

=============================================================================
