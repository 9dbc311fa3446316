------------------------------ MODULE JobQueue ------------------------------
(***************************************************************************)
(* The durable job queue of one tenant: the rows of api_jobs, the          *)
(* JobsService statements that move them, and the JobWorker of every       *)
(* backend replica that claims, runs and settles them.                     *)
(*                                                                         *)
(* One JobsService statement runs in one tenant transaction, so it is one  *)
(* action here; everything a worker keeps in memory between two statements *)
(* (the claimed row's attempts, the batch budget, the belief that it holds *)
(* the advisory lock) is a variable of that worker, and any other actor    *)
(* may move between the two.                                               *)
(*                                                                         *)
(* Time.  Instants are kept relative to now(): due[j] is next_attempt_at   *)
(* minus now() and age[j] is now() minus heartbeat_at.  Tick moves both.   *)
(* due stops falling at -MaxLag and age stops rising one past StaleAfter,  *)
(* beyond which no statement of the code tells two instants apart, except  *)
(* the order of two jobs that are both overdue by MaxLag or more: that     *)
(* order is left open.                                                     *)
(***************************************************************************)
EXTENDS Integers, FiniteSets

CONSTANTS
  Jobs,               \* the ids of api_jobs rows
  Workers,            \* the JobWorker of each backend replica
  NoJob, NoWorker,    \* NULL
  MaxAttempts,        \* api_jobs.max_attempts, per job
  Handles,            \* Handles[w]: the jobs whose type replica w registers
  Batch,              \* JOB_WORKER_BATCH
  StaleAfter,         \* JOB_CLAIM_TIMEOUT_MS, in ticks
  BackoffBase,        \* JOB_RETRY_BASE_MS, in ticks
  BackoffMax,         \* JOB_RETRY_MAX_MS, in ticks
  MaxDelay,           \* bound: how far ahead a caller may put runAt, in ticks
  MaxLag,             \* bound: how long overdue a job may be told to be
  MaxFaults,          \* bound: number of crashes and failed database calls
  HeartbeatsReliable  \* whether a live worker's heartbeats reach the database

ASSUME JobsAssumption == NoJob \notin Jobs
ASSUME WorkersAssumption == NoWorker \notin Workers
ASSUME MaxAttemptsAssumption == MaxAttempts \in [Jobs -> Nat \ {0}]
ASSUME HandlesAssumption == Handles \in [Workers -> SUBSET Jobs]
ASSUME BoundsAssumption ==
  /\ Batch \in Nat \ {0} /\ StaleAfter \in Nat \ {0}
  /\ BackoffBase \in Nat \ {0} /\ BackoffMax \in Nat \ {0}
  /\ MaxDelay \in Nat /\ MaxLag \in Nat /\ MaxFaults \in Nat
ASSUME HeartbeatsAssumption == HeartbeatsReliable \in BOOLEAN

VARIABLES
  status,      \* api_jobs.status, "absent" before the INSERT
  attempts,    \* api_jobs.attempts
  due,         \* api_jobs.next_attempt_at - now(), meaningful while queued
  claimed_by,  \* api_jobs.claimed_by
  age,         \* now() - api_jobs.heartbeat_at, meaningful while running
  lock,        \* the session holding the worker advisory lock
  pc,          \* where each worker is in runCycle / drainTenant / execute
  cur,         \* the row a worker is executing
  att,         \* job.attempts as the worker read it when it claimed
  perm,        \* whether the error it is about to record is permanent
  budget,      \* claims left in the worker's batch
  returned,    \* history: the jobs whose handler has returned a result
  faults       \* how many faults have happened

rows   == <<status, attempts, due, claimed_by, age>>
locals == <<pc, cur, att, perm, budget>>
vars   == <<status, attempts, due, claimed_by, age, lock,
            pc, cur, att, perm, budget, returned, faults>>

Terminal == {"succeeded", "cancelled", "dead_letter"}
Status   == {"absent", "queued", "running"} \cup Terminal

\* The worker is inside execute(): its heartbeat interval is armed.
Busy == {"handling", "completing", "failing"}
PC   == {"idle", "reaping", "claiming", "dead"} \cup Busy

TypeOK ==
  /\ status \in [Jobs -> Status]
  /\ attempts \in [Jobs -> Nat]
  /\ due \in [Jobs -> Int]
  /\ claimed_by \in [Jobs -> Workers \cup {NoWorker}]
  /\ age \in [Jobs -> 0..(StaleAfter + 1)]
  /\ lock \in Workers \cup {NoWorker}
  /\ pc \in [Workers -> PC]
  /\ cur \in [Workers -> Jobs \cup {NoJob}]
  /\ att \in [Workers -> Nat]
  /\ perm \in [Workers -> BOOLEAN]
  /\ budget \in [Workers -> 0..Batch]
  /\ returned \in SUBSET Jobs
  /\ faults \in 0..MaxFaults

Init ==
  /\ status = [j \in Jobs |-> "absent"]
  /\ attempts = [j \in Jobs |-> 0]
  /\ due = [j \in Jobs |-> 0]
  /\ claimed_by = [j \in Jobs |-> NoWorker]
  /\ age = [j \in Jobs |-> 0]
  /\ lock = NoWorker
  /\ pc = [w \in Workers |-> "idle"]
  /\ cur = [w \in Workers |-> NoJob]
  /\ att = [w \in Workers |-> 0]
  /\ perm = [w \in Workers |-> FALSE]
  /\ budget = [w \in Workers |-> 0]
  /\ returned = {}
  /\ faults = 0

-----------------------------------------------------------------------------
(* Submission and the operator's statements.                               *)

\* JobsService.create / createOn.  The type must be registered by the replica
\* that takes the request; a replayed idempotency key changes nothing.
Create(j, delay) ==
  /\ status[j] = "absent"
  /\ \E w \in Workers : pc[w] # "dead" /\ j \in Handles[w]
  /\ status' = [status EXCEPT ![j] = "queued"]
  /\ due' = [due EXCEPT ![j] = delay]
  /\ UNCHANGED <<attempts, claimed_by, age, lock, locals, returned, faults>>

\* JobsService.cancel / cancelOn: also takes a row away from a running worker.
Cancel(j) ==
  /\ status[j] \in {"queued", "running"}
  /\ status' = [status EXCEPT ![j] = "cancelled"]
  /\ claimed_by' = [claimed_by EXCEPT ![j] = NoWorker]
  /\ age' = [age EXCEPT ![j] = 0]
  /\ UNCHANGED <<attempts, due, lock, locals, returned, faults>>

\* JobsService.rescheduleOn: a row that left queued is not moved.
Reschedule(j, delay) ==
  /\ status[j] = "queued"
  /\ due' = [due EXCEPT ![j] = delay]
  /\ UNCHANGED <<status, attempts, claimed_by, age, lock, locals, returned, faults>>

-----------------------------------------------------------------------------
(* The worker's cycle.                                                     *)

\* The locals of execute() go out of scope.
ForgetJob(w) ==
  /\ cur' = [cur EXCEPT ![w] = NoJob]
  /\ att' = [att EXCEPT ![w] = 0]
  /\ perm' = [perm EXCEPT ![w] = FALSE]

\* Leaving runCycle: the finally blocks unlock, close the lock's session and
\* clear this.running.  A session that already lost the lock releases nothing.
LeaveCycle(w) ==
  /\ pc' = [pc EXCEPT ![w] = "idle"]
  /\ ForgetJob(w)
  /\ budget' = [budget EXCEPT ![w] = 0]
  /\ lock' = IF lock = w THEN NoWorker ELSE lock

\* execute() has returned: back to the claim loop of drainTenant.
BackToClaiming(w) ==
  /\ pc' = [pc EXCEPT ![w] = "claiming"]
  /\ ForgetJob(w)
  /\ UNCHANGED <<budget, lock>>

\* runCycle up to drainAllTenants: this.running is clear and
\* pg_try_advisory_lock succeeds; when it fails the cycle returns null.
BeginCycle(w) ==
  /\ pc[w] = "idle"
  /\ lock = NoWorker
  /\ lock' = w
  /\ pc' = [pc EXCEPT ![w] = "reaping"]
  /\ UNCHANGED <<rows, cur, att, perm, budget, returned, faults>>

\* Mutations: a heartbeat exactly at the limit counts as lost; only rows that
\* nobody claimed are looked at.
StaleTooSoon(j) == status[j] = "running" /\ age[j] >= StaleAfter
StaleUnclaimed(j) == status[j] = "running" /\ claimed_by[j] = NoWorker /\ age[j] > StaleAfter

\* heartbeat_at < now() - claimTimeout
Stale(j) == status[j] = "running" /\ age[j] > StaleAfter

\* Mutation: one attempt too many.
SpentLate(j) == attempts[j] > MaxAttempts[j]

\* The reaper's own test for dead_letter, on the row.
Spent(j) == attempts[j] >= MaxAttempts[j]

\* JobsService.reapStuck at the head of drainTenant.
Reap(w) ==
  /\ pc[w] = "reaping"
  /\ status' = [j \in Jobs |->
       IF Stale(j)
       THEN IF Spent(j) THEN "dead_letter" ELSE "queued"
       ELSE status[j]]
  /\ due' = [j \in Jobs |->
       IF Stale(j) /\ ~Spent(j) THEN 0 ELSE due[j]]
  /\ claimed_by' = [j \in Jobs |-> IF Stale(j) THEN NoWorker ELSE claimed_by[j]]
  /\ age' = [j \in Jobs |-> IF Stale(j) THEN 0 ELSE age[j]]
  /\ pc' = [pc EXCEPT ![w] = "claiming"]
  /\ budget' = [budget EXCEPT ![w] = Batch]
  /\ UNCHANGED <<attempts, lock, cur, att, perm, returned, faults>>

\* Mutation: the claim forgets status='queued'.
ClaimableRunning(j) == status[j] \in {"queued", "running"} /\ due[j] <= 0

\* The oldest due row: ORDER BY next_attempt_at among those that are due.
Claimable(j) == status[j] = "queued" /\ due[j] <= 0
Oldest(j) == Claimable(j) /\ \A k \in Jobs : Claimable(k) => due[j] <= due[k]

\* attempts=attempts+1
ChargeAttempt(j) == attempts[j] + 1

\* The CHECK api_jobs_attempts_check on the row the claim would write.
ClaimAllowed(j) == ChargeAttempt(j) <= MaxAttempts[j] + 1

\* Mutation: the batch loop runs once too often.
BatchOverrun(w) == budget[w] >= 0

\* The bound of drainTenant's loop.
BatchLeft(w) == budget[w] > 0

\* JobsService.claimOn, then the head of execute(): a type this replica has no
\* handler for goes straight to failAttempt with permanent: true.
Claim(w, j) ==
  /\ pc[w] = "claiming" /\ BatchLeft(w)
  /\ Oldest(j) /\ ClaimAllowed(j)
  /\ status' = [status EXCEPT ![j] = "running"]
  /\ attempts' = [attempts EXCEPT ![j] = ChargeAttempt(j)]
  /\ claimed_by' = [claimed_by EXCEPT ![j] = w]
  /\ age' = [age EXCEPT ![j] = 0]
  /\ cur' = [cur EXCEPT ![w] = j]
  /\ att' = [att EXCEPT ![w] = ChargeAttempt(j)]
  /\ perm' = [perm EXCEPT ![w] = j \notin Handles[w]]
  /\ pc' = [pc EXCEPT ![w] = IF j \in Handles[w] THEN "handling" ELSE "failing"]
  /\ budget' = [budget EXCEPT ![w] = budget[w] - 1]
  /\ UNCHANGED <<due, lock, returned, faults>>

\* Nothing is due, the batch is spent, or the claim of the oldest due row
\* breaks the attempts CHECK and throws: the tenant's drain ends.
EndDrain(w) ==
  /\ pc[w] = "claiming"
  /\ \/ ~BatchLeft(w)
     \/ \A j \in Jobs : ~Claimable(j)
     \/ \E j \in Jobs : Oldest(j) /\ ~ClaimAllowed(j)
  /\ LeaveCycle(w)
  /\ UNCHANGED <<rows, returned, faults>>

-----------------------------------------------------------------------------
(* execute(): the handler, then completeJob or failAttempt.                *)

\* The heartbeat interval and context.progress, through reportProgress: any
\* running row with this id, whoever claimed it.
Heartbeat(w) ==
  /\ pc[w] \in Busy /\ cur[w] \in Handles[w]
  /\ status[cur[w]] = "running"
  /\ age' = [age EXCEPT ![cur[w]] = 0]
  /\ UNCHANGED <<status, attempts, due, claimed_by, lock, locals, returned, faults>>

\* await registration.handler(context) resolves.
HandlerReturns(w) ==
  /\ pc[w] = "handling"
  /\ pc' = [pc EXCEPT ![w] = "completing"]
  /\ returned' = returned \cup {cur[w]}
  /\ UNCHANGED <<rows, lock, cur, att, perm, budget, faults>>

\* Mutation: the catch block falls through to completeJob.
ThrowsIntoComplete(w, permanent) ==
  /\ pc[w] = "handling"
  /\ pc' = [pc EXCEPT ![w] = "completing"]
  /\ perm' = [perm EXCEPT ![w] = permanent]
  /\ UNCHANGED <<rows, lock, cur, att, budget, returned, faults>>

\* The handler rejects, with a PermanentJobError or with anything else.
HandlerThrows(w, permanent) ==
  /\ pc[w] = "handling"
  /\ pc' = [pc EXCEPT ![w] = "failing"]
  /\ perm' = [perm EXCEPT ![w] = permanent]
  /\ UNCHANGED <<rows, lock, cur, att, budget, returned, faults>>

\* Mutation: the settling UPDATEs match on the id alone.
HitAnyStatus(j) == status[j] # "absent"

\* Whether the settling UPDATE of completeJob or failAttempt finds its row:
\* both are guarded on status='running' alone, not on claimed_by.
Hit(j) == status[j] = "running"

\* JobsService.completeJob.
CompleteJob(w) ==
  LET j == cur[w]
      hit == Hit(j)
  IN /\ pc[w] = "completing"
     /\ status' = IF hit THEN [status EXCEPT ![j] = "succeeded"] ELSE status
     /\ claimed_by' = IF hit THEN [claimed_by EXCEPT ![j] = NoWorker] ELSE claimed_by
     /\ age' = IF hit THEN [age EXCEPT ![j] = 0] ELSE age
     /\ BackToClaiming(w)
     /\ UNCHANGED <<attempts, due, returned, faults>>

\* backoffMs(attempt)
Backoff(attempt) ==
  LET exponent == IF attempt - 1 > 20 THEN 20 ELSE IF attempt < 1 THEN 0 ELSE attempt - 1
      delay == BackoffBase * 2^exponent
  IN IF delay \in 0..BackoffMax THEN delay ELSE BackoffMax

\* Mutation: one attempt too many.
ExhaustedLate(w) == perm[w] \/ att[w] > MaxAttempts[cur[w]]

\* failAttempt's test for dead_letter, on the attempts the worker read when it
\* claimed.
Exhausted(w) == perm[w] \/ att[w] >= MaxAttempts[cur[w]]

\* JobsService.failAttempt.
FailAttempt(w) ==
  LET j == cur[w]
      hit == Hit(j)
      exhausted == Exhausted(w)
  IN /\ pc[w] = "failing"
     /\ status' = IF ~hit THEN status
                  ELSE [status EXCEPT ![j] = IF exhausted THEN "dead_letter" ELSE "queued"]
     /\ due' = IF hit /\ ~exhausted THEN [due EXCEPT ![j] = Backoff(att[w])] ELSE due
     /\ claimed_by' = IF hit THEN [claimed_by EXCEPT ![j] = NoWorker] ELSE claimed_by
     /\ age' = IF hit THEN [age EXCEPT ![j] = 0] ELSE age
     /\ BackToClaiming(w)
     /\ UNCHANGED <<attempts, returned, faults>>

-----------------------------------------------------------------------------
(* Faults: at most MaxFaults of them.                                      *)

Fault == faults < MaxFaults /\ faults' = faults + 1

\* reapStuck rejects: drainTenant's .catch goes on to the claims.
ReapFails(w) ==
  /\ Fault /\ pc[w] = "reaping"
  /\ pc' = [pc EXCEPT ![w] = "claiming"]
  /\ budget' = [budget EXCEPT ![w] = Batch]
  /\ UNCHANGED <<rows, lock, cur, att, perm, returned>>

\* claimNext rejects: drainAllTenants logs it and the cycle ends.
ClaimFails(w) ==
  /\ Fault /\ pc[w] = "claiming"
  /\ LeaveCycle(w)
  /\ UNCHANGED <<rows, returned>>

\* completeJob rejects: its catch block is the handler's own, so a finished
\* handler is recorded as a failed, retryable attempt.
CompleteFails(w) ==
  /\ Fault /\ pc[w] = "completing"
  /\ pc' = [pc EXCEPT ![w] = "failing"]
  /\ perm' = [perm EXCEPT ![w] = FALSE]
  /\ UNCHANGED <<rows, lock, cur, att, budget, returned>>

\* failAttempt rejects inside the catch block: execute() throws, the row stays
\* running until its heartbeat is stale, and the cycle ends.
FailAttemptFails(w) ==
  /\ Fault /\ pc[w] = "failing"
  /\ LeaveCycle(w)
  /\ UNCHANGED <<rows, returned>>

\* The replica's process dies.  The server has not noticed yet: the advisory
\* lock stays with its session.
Crash(w) ==
  /\ Fault /\ pc[w] # "dead"
  /\ pc' = [pc EXCEPT ![w] = "dead"]
  /\ ForgetJob(w)
  /\ budget' = [budget EXCEPT ![w] = 0]
  /\ UNCHANGED <<rows, lock, returned>>

\* A live worker's lock session is ended by the server (failover, keepalive)
\* while the worker, which runs no statement on it, goes on.
SessionDropped(w) ==
  /\ Fault /\ lock = w /\ pc[w] \notin {"idle", "dead"}
  /\ lock' = NoWorker
  /\ UNCHANGED <<rows, locals, returned>>

\* The server notices that the session of a process that died is gone.
SessionReaped(w) ==
  /\ lock = w /\ pc[w] \in {"idle", "dead"}
  /\ lock' = NoWorker
  /\ UNCHANGED <<rows, locals, returned, faults>>

Restart(w) ==
  /\ pc[w] = "dead"
  /\ pc' = [pc EXCEPT ![w] = "idle"]
  /\ UNCHANGED <<rows, lock, cur, att, perm, budget, returned, faults>>

-----------------------------------------------------------------------------
\* With reliable heartbeats a live worker refreshes its row before it is stale
\* (JOB_HEARTBEAT_MS is a twentieth of JOB_CLAIM_TIMEOUT_MS).
HeartbeatsInTime ==
  \A w \in Workers :
    pc[w] \in Busy /\ status[cur[w]] = "running" => age[cur[w]] < StaleAfter

\* One tick of the database's clock.
Tick ==
  /\ HeartbeatsReliable => HeartbeatsInTime
  /\ due' = [j \in Jobs |->
       IF status[j] = "queued" /\ due[j] > -MaxLag THEN due[j] - 1 ELSE due[j]]
  /\ age' = [j \in Jobs |->
       IF status[j] = "running" /\ age[j] <= StaleAfter THEN age[j] + 1 ELSE age[j]]
  /\ UNCHANGED <<status, attempts, claimed_by, lock, locals, returned, faults>>

Operator == \E j \in Jobs :
  \/ \E d \in 0..MaxDelay : Create(j, d)
  \/ \E d \in 0..MaxDelay : Reschedule(j, d)
  \/ Cancel(j)

Cycle(w) ==
  \/ BeginCycle(w) \/ Reap(w)
  \/ \E j \in Jobs : Claim(w, j)
  \/ EndDrain(w)

Execution(w) ==
  \/ Heartbeat(w) \/ HandlerReturns(w)
  \/ \E permanent \in BOOLEAN : HandlerThrows(w, permanent)
  \/ CompleteJob(w) \/ FailAttempt(w)

Failure(w) ==
  \/ ReapFails(w) \/ ClaimFails(w) \/ CompleteFails(w) \/ FailAttemptFails(w)
  \/ Crash(w) \/ SessionDropped(w)

Recovery(w) == SessionReaped(w) \/ Restart(w)

Next ==
  \/ Operator
  \/ \E w \in Workers : Cycle(w) \/ Execution(w) \/ Failure(w) \/ Recovery(w)
  \/ Tick

Spec == Init /\ [][Next]_vars

\* Fairness.  The interval timer keeps calling runCycle and every await in it
\* settles; handlers terminate; the supervisor restarts a dead replica and the
\* server ends its session; the clock advances.  Operators and faults are not
\* assumed to act.
Progress(w) ==
  \/ HandlerReturns(w)
  \/ \E permanent \in BOOLEAN : HandlerThrows(w, permanent)
  \/ CompleteJob(w) \/ FailAttempt(w)

Fairness ==
  /\ WF_vars(Tick)
  /\ \A w \in Workers :
       /\ WF_vars(Cycle(w)) /\ WF_vars(Progress(w))
       /\ WF_vars(Heartbeat(w)) /\ WF_vars(Recovery(w))

FairSpec == Spec /\ Fairness

-----------------------------------------------------------------------------
(* Properties.                                                             *)

Executing(w, j) == pc[w] \in Busy /\ cur[w] = j

\* jobs.service.ts promises that no row is ever executed twice concurrently:
\* two workers are never inside execute() for the same row.
ExclusiveExecution ==
  \A v, w \in Workers, j \in Jobs : Executing(v, j) /\ Executing(w, j) => v = w

\* A worker inside execute() still owns its row: the row is running under its
\* claim and carries the attempt number it read, or an operator cancelled it.
\* This is what makes the statements of completeJob and failAttempt, guarded
\* on the status alone, hit the worker's own claim and no other.
ExecutorOwnsRow ==
  \A w \in Workers, j \in Jobs :
    Executing(w, j) =>
      \/ /\ status[j] = "running" /\ claimed_by[j] = w
         /\ attempts[j] = att[w]
      \/ status[j] = "cancelled"

\* "until max_attempts is reached": no row is claimed more than max_attempts
\* times, and one that waits for another attempt has one left.
AttemptsBounded ==
  \A j \in Jobs :
    /\ attempts[j] <= MaxAttempts[j]
    /\ status[j] = "queued" => attempts[j] < MaxAttempts[j]

\* "never reported as success": a row is succeeded only when some execution of
\* its handler returned, whatever stale workers and the reaper did meanwhile.
SucceededMeansReturned ==
  \A j \in Jobs : status[j] = "succeeded" => j \in returned

\* A terminal row is never moved again: not by a worker that finishes late, not
\* by the reaper, not by an operator; and attempts never go down.
TerminalIsFinal ==
  [][\A j \in Jobs :
       /\ status[j] \in Terminal => status'[j] = status[j] /\ attempts'[j] = attempts[j]
       /\ attempts'[j] >= attempts[j]]_vars

\* "visible, never silently retried forever", and no row pinned in running by a
\* crash: a submitted job reaches a terminal state unless it is rescheduled
\* over and over.
EveryJobSettles ==
  \A j \in Jobs :
    \/ []<><<\E d \in 0..MaxDelay : Reschedule(j, d)>>_vars
    \/ (status[j] = "queued") ~> (status[j] \in Terminal)

-----------------------------------------------------------------------------
(* The strengthenings that make the invariants above inductive.            *)

\* A worker names a row exactly while it is inside execute().
BusyNamesRow ==
  \A w \in Workers : IF pc[w] \in Busy THEN cur[w] \in Jobs ELSE cur[w] = NoJob

\* A worker about to call completeJob has a handler result in hand.
CompletingHasReturned ==
  \A w \in Workers : pc[w] = "completing" => cur[w] \in returned

\* A row that was never submitted was never claimed.
AbsentUnclaimed == \A j \in Jobs : status[j] = "absent" => attempts[j] = 0

\* A row under a live execution is never old enough for reapStuck.
OwnedRowIsFresh ==
  \A w \in Workers, j \in Jobs :
    Executing(w, j) /\ status[j] = "running" => age[j] <= StaleAfter

\* What holds whatever the heartbeats do.
QueueInv ==
  /\ TypeOK /\ BusyNamesRow /\ AbsentUnclaimed
  /\ CompletingHasReturned /\ SucceededMeansReturned

\* What holds when heartbeats are reliable.
ClaimInv == OwnedRowIsFresh /\ ExclusiveExecution /\ ExecutorOwnsRow /\ AttemptsBounded

-----------------------------------------------------------------------------
(* The queue implements JobService when heartbeats are reliable.           *)

Phase(j) ==
  CASE status[j] = "absent"  -> "absent"
    [] status[j] = "queued"  -> "waiting"
    [] status[j] = "running" -> "taken"
    [] OTHER                 -> "over"

Executor(j) ==
  IF \E w \in Workers : Executing(w, j)
  THEN CHOOSE w \in Workers : Executing(w, j)
  ELSE NoWorker

Service == INSTANCE JobService WITH
  Nobody   <- NoWorker,
  Limit    <- MaxAttempts,
  phase    <- [j \in Jobs |-> Phase(j)],
  executor <- [j \in Jobs |-> Executor(j)],
  runs     <- attempts

\* Callers of the queue may reason with JobService: every step of the rows and
\* the workers is a step of it or changes nothing it speaks about.
ImplementsJobService == Service!Spec

=============================================================================
