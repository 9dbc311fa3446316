--------------------------- MODULE JobQueueProofs ---------------------------
(***************************************************************************)
(* Theorems about JobQueue for every set of jobs, workers and every bound. *)
(***************************************************************************)
EXTENDS JobQueue, TLAPS

\* A computed backoff never exceeds the ceiling and is never negative.
LEMMA BackoffType == \A a \in Nat : Backoff(a) \in 0..BackoffMax
BY BoundsAssumption DEF Backoff

\* In particular it is an integer, as due must be.
LEMMA BackoffInt == \A a \in Nat : Backoff(a) \in Int
BY BackoffType, BoundsAssumption

-----------------------------------------------------------------------------
\* The initial state satisfies what holds whatever the heartbeats do.
LEMMA InitQueueInv == Init => QueueInv
BY JobsAssumption, WorkersAssumption, BoundsAssumption
DEF Init, QueueInv, TypeOK, BusyNamesRow, AbsentUnclaimed, CompletingHasReturned,
    SucceededMeansReturned, Status, Terminal, PC, Busy

\* Every step preserves it: one case per action.
LEMMA NextQueueInv == QueueInv /\ [Next]_vars => QueueInv'
<1> SUFFICES ASSUME QueueInv, [Next]_vars PROVE QueueInv'
  OBVIOUS
<1> USE JobsAssumption, WorkersAssumption, MaxAttemptsAssumption, HandlesAssumption,
        BoundsAssumption
<1> USE DEF QueueInv, TypeOK, BusyNamesRow, AbsentUnclaimed, CompletingHasReturned,
            SucceededMeansReturned, Status, Terminal, PC, Busy, rows, locals
<1>1. ASSUME NEW j \in Jobs, NEW d \in 0..MaxDelay, Create(j, d) PROVE QueueInv'
  BY <1>1 DEF Create
<1>2. ASSUME NEW j \in Jobs, NEW d \in 0..MaxDelay, Reschedule(j, d) PROVE QueueInv'
  BY <1>2 DEF Reschedule
<1>3. ASSUME NEW j \in Jobs, Cancel(j) PROVE QueueInv'
  BY <1>3 DEF Cancel
<1>4. ASSUME NEW w \in Workers, NEW j \in Jobs, Claim(w, j) PROVE QueueInv'
  BY <1>4 DEF Claim, Oldest, Claimable, ClaimAllowed, ChargeAttempt, BatchLeft
<1>5. ASSUME NEW w \in Workers, NEW p \in BOOLEAN, HandlerThrows(w, p) PROVE QueueInv'
  BY <1>5 DEF HandlerThrows
<1>6. CASE Tick
  BY <1>6 DEF Tick
<1>7. CASE UNCHANGED vars
  BY <1>7 DEF vars
<1>8. ASSUME NEW w \in Workers, BeginCycle(w) PROVE QueueInv'
  BY <1>8 DEF BeginCycle
<1>9. ASSUME NEW w \in Workers, Reap(w) PROVE QueueInv'
  BY <1>9 DEF Reap, Stale, Spent
<1>10. ASSUME NEW w \in Workers, EndDrain(w) PROVE QueueInv'
  BY <1>10 DEF EndDrain, LeaveCycle, ForgetJob, BatchLeft
<1>11. ASSUME NEW w \in Workers, Heartbeat(w) PROVE QueueInv'
  BY <1>11 DEF Heartbeat
<1>12. ASSUME NEW w \in Workers, HandlerReturns(w) PROVE QueueInv'
  BY <1>12 DEF HandlerReturns
<1>13. ASSUME NEW w \in Workers, CompleteJob(w) PROVE QueueInv'
  BY <1>13 DEF CompleteJob, BackToClaiming, ForgetJob, Hit
<1>14. ASSUME NEW w \in Workers, FailAttempt(w) PROVE QueueInv'
  BY <1>14, BackoffInt DEF FailAttempt, BackToClaiming, ForgetJob, Hit, Exhausted
<1>15. ASSUME NEW w \in Workers, ReapFails(w) PROVE QueueInv'
  BY <1>15 DEF ReapFails, Fault
<1>16. ASSUME NEW w \in Workers, ClaimFails(w) PROVE QueueInv'
  BY <1>16 DEF ClaimFails, Fault, LeaveCycle, ForgetJob
<1>17. ASSUME NEW w \in Workers, CompleteFails(w) PROVE QueueInv'
  BY <1>17 DEF CompleteFails, Fault
<1>18. ASSUME NEW w \in Workers, FailAttemptFails(w) PROVE QueueInv'
  BY <1>18 DEF FailAttemptFails, Fault, LeaveCycle, ForgetJob
<1>19. ASSUME NEW w \in Workers, Crash(w) PROVE QueueInv'
  BY <1>19 DEF Crash, Fault, ForgetJob
<1>20. ASSUME NEW w \in Workers, SessionDropped(w) PROVE QueueInv'
  BY <1>20 DEF SessionDropped, Fault
<1>21. ASSUME NEW w \in Workers, SessionReaped(w) PROVE QueueInv'
  BY <1>21 DEF SessionReaped
<1>22. ASSUME NEW w \in Workers, Restart(w) PROVE QueueInv'
  BY <1>22 DEF Restart
<1> HIDE DEF QueueInv, rows, locals
<1>23. QED
  BY <1>1, <1>2, <1>3, <1>4, <1>5, <1>6, <1>7, <1>8, <1>9, <1>10, <1>11, <1>12, <1>13, <1>14,
     <1>15, <1>16, <1>17, <1>18, <1>19, <1>20, <1>21, <1>22
  DEF Next, Operator, Cycle, Execution, Failure, Recovery

\* Every variable keeps its type, and a job is recorded as succeeded only
\* after an execution of its handler returned.
THEOREM QueueInvHolds == Spec => []QueueInv
BY InitQueueInv, NextQueueInv, PTL DEF Spec

\* Type correctness of the queue.
THEOREM TypeCorrect == Spec => []TypeOK
BY QueueInvHolds, PTL DEF QueueInv

\* A success on record is never invented, however late, stale or unfenced the
\* statement that wrote it.
THEOREM NoInventedSuccess == Spec => []SucceededMeansReturned
BY QueueInvHolds, PTL DEF QueueInv

-----------------------------------------------------------------------------
\* No step moves a terminal row or lowers a row's attempts.
LEMMA StepTerminalIsFinal ==
  ASSUME QueueInv, [Next]_vars, NEW j \in Jobs
  PROVE  /\ status[j] \in Terminal => status'[j] = status[j] /\ attempts'[j] = attempts[j]
         /\ attempts'[j] >= attempts[j]
<1> USE DEF QueueInv, TypeOK, BusyNamesRow, Terminal, rows, locals
<1>1. ASSUME NEW k \in Jobs, NEW d \in 0..MaxDelay, Create(k, d) \/ Reschedule(k, d)
      PROVE  /\ status[j] \in Terminal => status'[j] = status[j]
             /\ attempts' = attempts
  BY <1>1 DEF Create, Reschedule
<1>2. ASSUME NEW w \in Workers, NEW k \in Jobs, Claim(w, k)
      PROVE  /\ status[j] \in Terminal => status'[j] = status[j] /\ attempts'[j] = attempts[j]
             /\ attempts'[j] >= attempts[j]
  BY <1>2 DEF Claim, Oldest, Claimable, ChargeAttempt, BatchLeft
<1>3. ASSUME NEW w \in Workers, Reap(w) \/ CompleteJob(w) \/ FailAttempt(w)
      PROVE  /\ status[j] \in Terminal => status'[j] = status[j]
             /\ attempts' = attempts
  BY <1>3 DEF Reap, Stale, CompleteJob, FailAttempt, Spent, Hit, Exhausted
<1>4. ASSUME NEW w \in Workers,
             \/ BeginCycle(w) \/ EndDrain(w) \/ Heartbeat(w) \/ HandlerReturns(w)
             \/ \E p \in BOOLEAN : HandlerThrows(w, p)
             \/ Failure(w) \/ Recovery(w)
      PROVE  UNCHANGED <<status, attempts>>
  BY <1>4 DEF BeginCycle, EndDrain, Heartbeat, HandlerReturns, HandlerThrows, Failure, BatchLeft,
              ReapFails, ClaimFails, CompleteFails, FailAttemptFails, Crash,
              SessionDropped, Recovery, SessionReaped, Restart
<1>5. CASE Tick \/ UNCHANGED vars
  BY <1>5 DEF Tick, vars
<1>6. ASSUME NEW k \in Jobs, Cancel(k)
      PROVE  /\ status[j] \in Terminal => status'[j] = status[j]
             /\ attempts' = attempts
  BY <1>6 DEF Cancel
<1>7. QED
  BY <1>1, <1>2, <1>3, <1>4, <1>5, <1>6 DEF Next, Operator, Cycle, Execution

\* A job that reached a terminal state keeps it: no late worker, reaper or
\* operator statement revives it, and attempts only grow.
THEOREM TerminalRowsStay == Spec => TerminalIsFinal
<1>1. QueueInv /\ [Next]_vars =>
        [\A j \in Jobs :
           /\ status[j] \in Terminal => status'[j] = status[j] /\ attempts'[j] = attempts[j]
           /\ attempts'[j] >= attempts[j]]_vars
  BY StepTerminalIsFinal
<1>2. QED
  BY <1>1, QueueInvHolds, PTL DEF Spec, TerminalIsFinal

-----------------------------------------------------------------------------
\* With reliable heartbeats: who executes a row owns it.
LEMMA InitClaimInv == Init => ClaimInv
BY MaxAttemptsAssumption
DEF Init, ClaimInv, OwnedRowIsFresh, ExclusiveExecution, ExecutorOwnsRow,
    AttemptsBounded, Executing, Busy

\* One case per action.  Reap needs OwnedRowIsFresh (it touches no owned row),
\* Claim needs ExecutorOwnsRow (no worker executes a queued row), FailAttempt
\* needs it too (the attempts it compares are the row's own).
LEMMA NextClaimInv ==
  ASSUME HeartbeatsReliable, QueueInv, QueueInv', ClaimInv, [Next]_vars
  PROVE  ClaimInv'
<1> USE JobsAssumption, WorkersAssumption, MaxAttemptsAssumption, BoundsAssumption
<1> USE DEF QueueInv, TypeOK, BusyNamesRow, AbsentUnclaimed, ClaimInv, OwnedRowIsFresh,
            ExclusiveExecution,
            ExecutorOwnsRow, AttemptsBounded, Executing, Status, Terminal, PC, Busy, rows, locals
<1>1. ASSUME NEW j \in Jobs, NEW d \in 0..MaxDelay, Create(j, d) PROVE ClaimInv'
  BY <1>1 DEF Create
<1>2. ASSUME NEW j \in Jobs, NEW d \in 0..MaxDelay, Reschedule(j, d) PROVE ClaimInv'
  BY <1>2 DEF Reschedule
<1>3. ASSUME NEW j \in Jobs, Cancel(j) PROVE ClaimInv'
  BY <1>3 DEF Cancel
<1>4. ASSUME NEW w \in Workers, NEW j \in Jobs, Claim(w, j) PROVE ClaimInv'
  BY <1>4 DEF Claim, Oldest, Claimable, ClaimAllowed, ChargeAttempt, BatchLeft
<1>5. ASSUME NEW w \in Workers, NEW p \in BOOLEAN, HandlerThrows(w, p) PROVE ClaimInv'
  BY <1>5 DEF HandlerThrows
<1>6. CASE Tick
  BY <1>6 DEF Tick, HeartbeatsInTime
<1>7. CASE UNCHANGED vars
  BY <1>7 DEF vars
<1>8. ASSUME NEW w \in Workers, BeginCycle(w) PROVE ClaimInv'
  BY <1>8 DEF BeginCycle
<1>9. ASSUME NEW w \in Workers, Reap(w) PROVE ClaimInv'
  BY <1>9 DEF Reap, Stale, Spent
<1>10. ASSUME NEW w \in Workers, EndDrain(w) PROVE ClaimInv'
  BY <1>10 DEF EndDrain, LeaveCycle, ForgetJob, BatchLeft
<1>11. ASSUME NEW w \in Workers, Heartbeat(w) PROVE ClaimInv'
  BY <1>11 DEF Heartbeat
<1>12. ASSUME NEW w \in Workers, HandlerReturns(w) PROVE ClaimInv'
  BY <1>12 DEF HandlerReturns
<1>13. ASSUME NEW w \in Workers, CompleteJob(w) PROVE ClaimInv'
  BY <1>13 DEF CompleteJob, BackToClaiming, ForgetJob, Hit
<1>14. ASSUME NEW w \in Workers, FailAttempt(w) PROVE ClaimInv'
  BY <1>14 DEF FailAttempt, BackToClaiming, ForgetJob, Hit, Exhausted
<1>15. ASSUME NEW w \in Workers, ReapFails(w) PROVE ClaimInv'
  BY <1>15 DEF ReapFails, Fault
<1>16. ASSUME NEW w \in Workers, ClaimFails(w) PROVE ClaimInv'
  BY <1>16 DEF ClaimFails, Fault, LeaveCycle, ForgetJob
<1>17. ASSUME NEW w \in Workers, CompleteFails(w) PROVE ClaimInv'
  BY <1>17 DEF CompleteFails, Fault
<1>18. ASSUME NEW w \in Workers, FailAttemptFails(w) PROVE ClaimInv'
  BY <1>18 DEF FailAttemptFails, Fault, LeaveCycle, ForgetJob
<1>19. ASSUME NEW w \in Workers, Crash(w) PROVE ClaimInv'
  BY <1>19 DEF Crash, Fault, ForgetJob
<1>20. ASSUME NEW w \in Workers, SessionDropped(w) PROVE ClaimInv'
  BY <1>20 DEF SessionDropped, Fault
<1>21. ASSUME NEW w \in Workers, SessionReaped(w) PROVE ClaimInv'
  BY <1>21 DEF SessionReaped
<1>22. ASSUME NEW w \in Workers, Restart(w) PROVE ClaimInv'
  BY <1>22 DEF Restart
<1>23. QED
  BY <1>1, <1>2, <1>3, <1>4, <1>5, <1>6, <1>7, <1>8, <1>9, <1>10, <1>11, <1>12, <1>13, <1>14,
     <1>15, <1>16, <1>17, <1>18, <1>19, <1>20, <1>21, <1>22
  DEF Next, Operator, Cycle, Execution, Failure, Recovery

\* With reliable heartbeats the claim invariant always holds.
THEOREM ClaimInvHolds == HeartbeatsReliable => (Spec => []ClaimInv)
<1> SUFFICES ASSUME HeartbeatsReliable PROVE Spec => []ClaimInv
  OBVIOUS
<1>1. QueueInv /\ QueueInv' /\ ClaimInv /\ [Next]_vars => ClaimInv'
  BY NextClaimInv
<1>2. QED
  BY <1>1, InitClaimInv, QueueInvHolds, PTL DEF Spec

\* No two workers inside execute() for one row, a worker's row is its own, and
\* no row is claimed more than max_attempts times.
THEOREM ReliableQueue ==
  HeartbeatsReliable =>
    (Spec => [](ExclusiveExecution /\ ExecutorOwnsRow /\ AttemptsBounded))
<1> SUFFICES ASSUME HeartbeatsReliable
             PROVE  Spec => [](ExclusiveExecution /\ ExecutorOwnsRow /\ AttemptsBounded)
  OBVIOUS
<1>1. ClaimInv => ExclusiveExecution /\ ExecutorOwnsRow /\ AttemptsBounded
  BY DEF ClaimInv
<1>2. Spec => []ClaimInv
  BY ClaimInvHolds
<1>3. QED
  BY <1>1, <1>2, PTL

-----------------------------------------------------------------------------
(* Refinement of JobService.                                               *)

\* Executor(j) names the worker inside execute() for j, if there is one.
LEMMA ExecutorIs ==
  ASSUME ExclusiveExecution, NEW j \in Jobs
  PROVE  /\ \A w \in Workers : Executing(w, j) => Executor(j) = w
         /\ (\A w \in Workers : ~Executing(w, j)) => Executor(j) = NoWorker
BY DEF ExclusiveExecution, Executor

\* The same, after a step.
LEMMA ExecutorIsPrimed ==
  ASSUME ExclusiveExecution', NEW j \in Jobs
  PROVE  /\ \A w \in Workers : Executing(w, j)' => Executor(j)' = w
         /\ (\A w \in Workers : ~Executing(w, j)') => Executor(j)' = NoWorker
BY DEF ExclusiveExecution, Executor

\* An execution that goes on keeps its executor.
LEMMA ExecutorKept ==
  ASSUME ExclusiveExecution, ExclusiveExecution', NEW j \in Jobs,
         \A w \in Workers : Executing(w, j)' <=> Executing(w, j)
  PROVE  Executor(j)' = Executor(j)
BY ExecutorIs, ExecutorIsPrimed

\* A step that moves no status, no attempts and no execution is a stutter.
LEMMA StutterStep ==
  ASSUME ExclusiveExecution, ExclusiveExecution', UNCHANGED <<status, attempts>>,
         \A w \in Workers, j \in Jobs : Executing(w, j)' <=> Executing(w, j)
  PROVE  UNCHANGED Service!vars
<1>1. \A j \in Jobs : Executor(j)' = Executor(j)
  BY ExecutorKept
<1>2. \A j \in Jobs : Phase(j)' = Phase(j)
  BY DEF Phase
<1>3. QED
  BY <1>1, <1>2 DEF Service!vars

\* The worker w leaves execute() for j, and nothing else about executions
\* changes.
LEMMA ExecutorLeaves ==
  ASSUME ExclusiveExecution, ExclusiveExecution', NEW w \in Workers, NEW j \in Jobs,
         Executing(w, j), pc'[w] \notin Busy,
         \A v \in Workers \ {w} : pc'[v] = pc[v] /\ cur'[v] = cur[v]
  PROVE  /\ Executor(j) = w /\ Executor(j)' = NoWorker
         /\ \A k \in Jobs \ {j} : Executor(k)' = Executor(k)
<1>1. Executor(j) = w
  BY ExecutorIs
<1>2. \A v \in Workers : ~Executing(v, j)'
  BY DEF ExclusiveExecution, Executing
<1>3. Executor(j)' = NoWorker
  BY <1>2, ExecutorIsPrimed
<1>4. ASSUME NEW k \in Jobs \ {j} PROVE Executor(k)' = Executor(k)
  <2>1. \A v \in Workers : Executing(v, k)' <=> Executing(v, k)
    BY DEF Executing
  <2>2. QED
    BY <2>1, ExecutorKept
<1>5. QED
  BY <1>1, <1>3, <1>4

\* The initial state of the queue is an initial state of the service.
LEMMA InitRefines == Init => Service!Init
<1> SUFFICES ASSUME Init PROVE Service!Init
  OBVIOUS
<1>1. \A w \in Workers, j \in Jobs : ~Executing(w, j)
  BY DEF Init, Executing, Busy
<1>2. \A j \in Jobs : Executor(j) = NoWorker
  BY <1>1 DEF Executor
<1>3. \A j \in Jobs : Phase(j) = "absent"
  BY DEF Init, Phase
<1>4. QED
  BY <1>2, <1>3 DEF Init, Service!Init

\* Every step of the queue is a step of the service or a stutter.
LEMMA NextRefines ==
  ASSUME QueueInv, QueueInv', ClaimInv, ClaimInv', [Next]_vars
  PROVE  [Service!Next]_Service!vars
<1> USE JobsAssumption, WorkersAssumption, MaxAttemptsAssumption
<1>a. /\ TypeOK /\ TypeOK' /\ BusyNamesRow /\ BusyNamesRow'
      /\ ExclusiveExecution /\ ExclusiveExecution' /\ ExecutorOwnsRow /\ AttemptsBounded
      /\ OwnedRowIsFresh
  BY DEF QueueInv, ClaimInv
<1>1. ASSUME NEW j \in Jobs, NEW d \in 0..MaxDelay, Create(j, d) PROVE Service!Submit(j)
  <2>1. \A k \in Jobs : Executor(k)' = Executor(k)
    BY <1>a, <1>1, ExecutorKept DEF Create, Executing, locals
  <2>2. Phase(j) = "absent" /\ attempts' = attempts
    BY <1>1 DEF Create, Phase
  <2>3. \A k \in Jobs : Phase(k)' = IF k = j THEN "waiting" ELSE Phase(k)
    BY <1>a, <1>1 DEF Create, Phase, TypeOK
  <2>4. QED
    BY <2>1, <2>2, <2>3 DEF Service!Submit
<1>2. ASSUME NEW j \in Jobs, Cancel(j) PROVE Service!Withdraw(j)
  <2>1. \A k \in Jobs : Executor(k)' = Executor(k)
    BY <1>a, <1>2, ExecutorKept DEF Cancel, Executing, locals
  <2>2. Phase(j) \in {"waiting", "taken"} /\ attempts' = attempts
    BY <1>2 DEF Cancel, Phase
  <2>3. \A k \in Jobs : Phase(k)' = IF k = j THEN "over" ELSE Phase(k)
    BY <1>a, <1>2 DEF Cancel, Phase, TypeOK
  <2>4. QED
    BY <2>1, <2>2, <2>3 DEF Service!Withdraw
<1>3. ASSUME NEW w \in Workers, Reap(w)
      PROVE  Service!Recover({j \in Jobs : Stale(j)})
  <2>1. \A k \in Jobs : Executor(k)' = Executor(k)
    BY <1>a, <1>3, ExecutorKept DEF Reap, Executing, Busy, TypeOK, Spent
  <2>2. \A j \in Jobs : Stale(j) => Phase(j) = "taken" /\ Executor(j) = NoWorker
    BY <1>a, ExecutorIs, BoundsAssumption DEF Stale, Phase, OwnedRowIsFresh, TypeOK
  <2>3. \A j \in Jobs : Phase(j)' = IF ~Stale(j) THEN Phase(j)
                                   ELSE IF attempts[j] < MaxAttempts[j] THEN "waiting" ELSE "over"
    BY <1>a, <1>3 DEF Reap, Phase, TypeOK, Spent
  <2>4. QED
    BY <1>3, <2>1, <2>2, <2>3 DEF Reap, Service!Recover, Spent
<1>4. ASSUME NEW w \in Workers, NEW j \in Jobs, Claim(w, j) PROVE Service!Take(j, w)
  <2>1. \A v \in Workers : ~Executing(v, j)
    BY <1>a, <1>4 DEF Claim, Oldest, Claimable, ExecutorOwnsRow, ChargeAttempt, BatchLeft
  <2>2. Executor(j) = NoWorker
    BY <1>a, <2>1, ExecutorIs
  <2>3. Executor(j)' = w
    BY <1>a, <1>4, ExecutorIsPrimed DEF Claim, Executing, Busy, TypeOK, ChargeAttempt, BatchLeft
  <2>4. \A k \in Jobs \ {j} : Executor(k)' = Executor(k)
    <3> SUFFICES ASSUME NEW k \in Jobs \ {j} PROVE Executor(k)' = Executor(k)
      OBVIOUS
    <3>1. \A v \in Workers : Executing(v, k)' <=> Executing(v, k)
      BY <1>a, <1>4 DEF Claim, Executing, Busy, TypeOK, ChargeAttempt, BatchLeft
    <3>2. QED
      BY <1>a, <3>1, ExecutorKept
  <2>5. /\ Phase(j) = "waiting" /\ attempts[j] < MaxAttempts[j]
        /\ \A k \in Jobs : Phase(k)' = IF k = j THEN "taken" ELSE Phase(k)
    BY <1>a, <1>4 DEF Claim, Oldest, Claimable, Phase, TypeOK, AttemptsBounded, ChargeAttempt,
       BatchLeft
  <2>6. \A k \in Jobs : Executor(k)' = IF k = j THEN w ELSE Executor(k)
    BY <2>3, <2>4
  <2>7. attempts' = [attempts EXCEPT ![j] = attempts[j] + 1]
    BY <1>4 DEF Claim, ChargeAttempt, BatchLeft
  <2>8. QED
    BY <2>2, <2>5, <2>6, <2>7 DEF Service!Take
<1>5. ASSUME NEW w \in Workers, CompleteJob(w) \/ FailAttempt(w)
      PROVE  \E j \in Jobs : Service!Settle(j) \/ Service!Lose(j)
  <2>1. PICK j \in Jobs : j = cur[w] /\ Executing(w, j)
    BY <1>a, <1>5 DEF BusyNamesRow, CompleteJob, FailAttempt, Busy, Executing, Hit, Exhausted
  <2>2. /\ Executor(j) = w /\ Executor(j)' = NoWorker
        /\ \A k \in Jobs : Executor(k)' = IF k = j THEN NoWorker ELSE Executor(k)
    <3>1. /\ pc'[w] \notin Busy
          /\ \A v \in Workers \ {w} : pc'[v] = pc[v] /\ cur'[v] = cur[v]
      BY <1>a, <1>5 DEF CompleteJob, FailAttempt, BackToClaiming, ForgetJob, Busy, TypeOK, Hit,
         Exhausted
    <3>2. QED
      BY <1>a, <2>1, <3>1, ExecutorLeaves
  <2>3. CASE status[j] = "running"
    <3>1. /\ attempts' = attempts /\ att[w] = attempts[j] /\ att[w] \in Nat
          /\ MaxAttempts[j] \in Nat
      BY <1>a, <1>5, <2>1, <2>3 DEF CompleteJob, FailAttempt, ExecutorOwnsRow, TypeOK, Hit,
         Exhausted
    <3>2. \/ status' = [status EXCEPT ![j] = "succeeded"]
          \/ status' = [status EXCEPT ![j] = "dead_letter"]
          \/ attempts[j] < MaxAttempts[j] /\ status' = [status EXCEPT ![j] = "queued"]
      BY <1>5, <2>1, <2>3, <3>1 DEF CompleteJob, FailAttempt, Hit, Exhausted
    <3>3. /\ Phase(j) = "taken"
          /\ \/ \A k \in Jobs : Phase(k)' = IF k = j THEN "over" ELSE Phase(k)
             \/ /\ attempts[j] < MaxAttempts[j]
                /\ \A k \in Jobs : Phase(k)' = IF k = j THEN "waiting" ELSE Phase(k)
      BY <1>a, <2>1, <2>3, <3>2 DEF Phase, TypeOK
    <3>4. Executor(j) # NoWorker
      BY <2>2
    <3>5. Service!Settle(j)
      BY <2>2, <3>1, <3>3, <3>4 DEF Service!Settle
    <3>6. QED
      BY <3>5
  <2>4. CASE status[j] # "running"
    <3>1. status' = status /\ attempts' = attempts
      BY <1>5, <2>1, <2>4 DEF CompleteJob, FailAttempt, Hit, Exhausted
    <3>2. status[j] = "cancelled"
      BY <1>a, <2>1, <2>4 DEF ExecutorOwnsRow
    <3>3. Phase(j) = "over" /\ \A k \in Jobs : Phase(k)' = Phase(k)
      BY <3>1, <3>2 DEF Phase
    <3>4. QED
      BY <2>1, <2>2, <3>1, <3>3 DEF Service!Lose
  <2>5. QED
    BY <2>3, <2>4
<1>6. ASSUME NEW w \in Workers, FailAttemptFails(w) \/ (Crash(w) /\ pc[w] \in Busy)
      PROVE  \E j \in Jobs : Service!Lose(j)
  <2>1. PICK j \in Jobs : j = cur[w] /\ Executing(w, j)
    BY <1>a, <1>6 DEF BusyNamesRow, FailAttemptFails, Busy, Executing
  <2>2. /\ Executor(j) = w /\ Executor(j)' = NoWorker
        /\ \A k \in Jobs : Executor(k)' = IF k = j THEN NoWorker ELSE Executor(k)
    <3>1. /\ pc'[w] \notin Busy
          /\ \A v \in Workers \ {w} : pc'[v] = pc[v] /\ cur'[v] = cur[v]
      BY <1>a, <1>6 DEF FailAttemptFails, LeaveCycle, Crash, ForgetJob, Busy, TypeOK
    <3>2. QED
      BY <1>a, <2>1, <3>1, ExecutorLeaves
  <2>3. status' = status /\ attempts' = attempts
    BY <1>6 DEF FailAttemptFails, Crash, rows
  <2>4. Phase(j) \in {"taken", "over"} /\ \A k \in Jobs : Phase(k)' = Phase(k)
    BY <1>a, <2>1, <2>3 DEF Phase, ExecutorOwnsRow
  <2>5. QED
    BY <2>1, <2>2, <2>3, <2>4 DEF Service!Lose
<1>7. ASSUME NEW w \in Workers,
             \/ BeginCycle(w) \/ EndDrain(w) \/ Heartbeat(w) \/ HandlerReturns(w)
             \/ \E p \in BOOLEAN : HandlerThrows(w, p)
             \/ ReapFails(w) \/ ClaimFails(w) \/ CompleteFails(w)
             \/ (Crash(w) /\ pc[w] \notin Busy)
             \/ SessionDropped(w) \/ Recovery(w)
      PROVE  UNCHANGED Service!vars
  <2>1. UNCHANGED <<status, attempts>>
    BY <1>7 DEF BeginCycle, EndDrain, Heartbeat, HandlerReturns, HandlerThrows, ReapFails,
       BatchLeft,
                ClaimFails, CompleteFails, Crash, SessionDropped, Recovery, SessionReaped,
                Restart, rows, locals
  <2>2. \A v \in Workers, j \in Jobs : Executing(v, j)' <=> Executing(v, j)
    BY <1>a, <1>7
    DEF BeginCycle, EndDrain, LeaveCycle, ForgetJob, Heartbeat, HandlerReturns, HandlerThrows,
       BatchLeft,
        ReapFails, ClaimFails, CompleteFails, Crash, SessionDropped, Recovery, SessionReaped,
        Restart, rows, locals, Executing, Busy, TypeOK, BusyNamesRow
  <2>3. QED
    BY <1>a, <2>1, <2>2, StutterStep
<1>8. ASSUME NEW j \in Jobs, NEW d \in 0..MaxDelay, Reschedule(j, d)
      PROVE  UNCHANGED Service!vars
  BY <1>a, <1>8, StutterStep DEF Reschedule, Executing, locals
<1>9. CASE Tick \/ UNCHANGED vars
  BY <1>a, <1>9, StutterStep DEF Tick, vars, Executing, locals
<1>10. ASSUME NEW w \in Workers, Cycle(w) \/ Execution(w) \/ Failure(w) \/ Recovery(w)
       PROVE  [Service!Next]_Service!vars
  <2>1. CASE \E j \in Jobs : Claim(w, j)
    BY <1>4, <2>1 DEF Service!Next
  <2>2. CASE Reap(w)
    BY <1>3, <2>2 DEF Service!Next
  <2>3. CASE CompleteJob(w) \/ FailAttempt(w)
    BY <1>5, <2>3 DEF Service!Next
  <2>4. CASE FailAttemptFails(w) \/ (Crash(w) /\ pc[w] \in Busy)
    BY <1>6, <2>4 DEF Service!Next
  <2>5. QED
    BY <1>7, <1>10, <2>1, <2>2, <2>3, <2>4 DEF Cycle, Execution, Failure
<1>11. CASE Operator
  BY <1>1, <1>2, <1>8, <1>11 DEF Operator, Service!Next
<1>12. QED
  BY <1>9, <1>10, <1>11 DEF Next

\* With reliable heartbeats the rows and workers implement the abstract job
\* service: exclusive, bounded executions and final outcomes.
THEOREM QueueImplementsService == HeartbeatsReliable => (Spec => ImplementsJobService)
<1> SUFFICES ASSUME HeartbeatsReliable PROVE Spec => ImplementsJobService
  OBVIOUS
<1>1. QueueInv /\ QueueInv' /\ ClaimInv /\ ClaimInv' /\ [Next]_vars
        => [Service!Next]_Service!vars
  BY NextRefines
<1>2. Spec => []ClaimInv
  BY ClaimInvHolds
<1>3. QED
  BY <1>1, <1>2, InitRefines, QueueInvHolds, PTL DEF Spec, ImplementsJobService, Service!Spec

=============================================================================
