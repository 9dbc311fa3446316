------------------------ MODULE ScheduledSendProofs ------------------------
(***************************************************************************)
(* Scheduled sends, for any holds, workers and bounds.                     *)
(*                                                                         *)
(* Every step of ScheduledSend is a step of JobQueue or leaves its         *)
(* variables alone (ReleaseRunsOnQueue), so what JobQueueProofs shows of   *)
(* the queue holds here.  On top of it HoldInv is inductive when           *)
(* heartbeats are reliable and releases prompt: exclusive execution makes  *)
(* a release the only writer of its hold from its claim on, promptness     *)
(* keeps the sweep away from it, and so the fence always matches.          *)
(* SpoolCovers is inductive in any regime: it counts, for each hold, the   *)
(* releases between their INSERT and their COMMIT.                         *)
(***************************************************************************)
EXTENDS ScheduledSend, JobQueueProofs, FiniteSetTheorems

-----------------------------------------------------------------------------
(* The queue underneath, and types.                                        *)

\* A step of the scheduled-send system is a step of the queue or a stutter:
\* release() reaches api_jobs only through the handler's return or throw.
LEMMA StepIsQueueStep ==
  ASSUME HoldTypeOK, [HoldNext]_allVars
  PROVE  [Next]_vars
<1>1. CASE HoldOperator
  <2>1. ASSUME NEW j \in Jobs, NEW d \in 1..MaxDelay, Create(j, d) \/ Reschedule(j, d)
        PROVE  Next
    <3>1. d \in 0..MaxDelay
      BY BoundsAssumption
    <3> QED
      BY <2>1, <3>1 DEF Next, Operator
  <2>2. ASSUME NEW j \in Jobs, Cancel(j) PROVE Next
    BY <2>2 DEF Next, Operator
  <2> QED
    BY <1>1, <2>1, <2>2 DEF HoldOperator, Schedule, CancelHold, RescheduleHold
<1>2. ASSUME NEW w \in Workers, NEW permanent \in BOOLEAN,
             HandlerReturns(w) \/ HandlerThrows(w, permanent)
      PROVE  Next
  BY <1>2 DEF Next, Execution
<1>3. \A w \in Workers : refused[w] \in BOOLEAN
  BY DEF HoldTypeOK
<1>4. ASSUME NEW w \in Workers, Release(w) PROVE [Next]_vars
  BY <1>2, <1>3, <1>4 DEF Release, SweepStalled, ClaimHold, NothingToRelease, Expire, SendRefused,
     Submit, CommitRelease, FencedOff, RecordFailure, GoTo, Returns, Throws
<1>5. ASSUME NEW w \in Workers, ReleaseFaults(w) PROVE [Next]_vars
  <2>1. CASE CrashInRelease(w)
    BY <2>1 DEF CrashInRelease, Next, Failure
  <2> QED
    BY <1>2, <1>3, <1>5, <2>1 DEF ReleaseFaults, SweepFails, ClaimHoldFails, SeamFails, RecordFails,
       GoTo, Throws
<1>6. ASSUME NEW w \in Workers, Settling(w) \/ Queue(w) PROVE Next
  BY <1>6 DEF Settling, Queue, Next, Execution, Failure
<1>7. CASE HoldTick
  BY <1>7 DEF HoldTick, Next
<1>8. CASE UNCHANGED allVars
  BY <1>8 DEF allVars
<1> QED
  BY <1>1, <1>4, <1>5, <1>6, <1>7, <1>8 DEF HoldNext

\* The worker's own loop never moves a worker out of its handler.
LEMMA QueueFrame ==
  ASSUME TypeOK, NEW w \in Workers, Settling(w) \/ Queue(w)
  PROVE  /\ UNCHANGED holdVars
         /\ \A v \in Workers : pc[v] = "handling" => pc'[v] = "handling" /\ cur'[v] = cur[v]
<1> USE DEF TypeOK, locals, rows
<1>1. CASE CompleteJob(w) \/ FailAttempt(w)
  BY <1>1 DEF Settling, Queue, CompleteJob, FailAttempt, BackToClaiming, ForgetJob
<1>2. CASE Cycle(w) \/ Heartbeat(w) \/ Recovery(w)
  BY <1>2 DEF Settling, Queue, Cycle, BeginCycle, Reap, Claim, EndDrain, LeaveCycle, ForgetJob,
     Heartbeat, Recovery, SessionReaped, Restart
<1>3. CASE ReapFails(w) \/ ClaimFails(w) \/ CompleteFails(w) \/ FailAttemptFails(w)
          \/ SessionDropped(w)
  BY <1>3 DEF Settling, Queue, ReapFails, ClaimFails, CompleteFails, FailAttemptFails,
     SessionDropped, LeaveCycle, ForgetJob
<1> QED
  BY <1>1, <1>2, <1>3 DEF Settling, Queue

\* Holds, fences and steps keep their types, and a worker has a step only
\* while its handler runs.
LEMMA HoldTypeStep ==
  ASSUME TypeOK, TypeOK', BusyNamesRow, HoldTypeOK, [HoldNext]_allVars
  PROVE  HoldTypeOK'
<1> USE BoundsAssumption, CeilingAssumption
    DEF HoldTypeOK, HoldTerminal, holdRows, release
<1>a. \A w \in Workers : pc[w] = "handling" => cur[w] \in Jobs
  BY DEF BusyNamesRow, Busy
<1>1. ASSUME NEW j \in Jobs, NEW d \in 1..MaxDelay, Schedule(j, d) PROVE HoldTypeOK'
  BY <1>1 DEF Schedule, Create, locals
<1>2. ASSUME NEW j \in Jobs, NEW d \in 1..MaxDelay, RescheduleHold(j, d) PROVE HoldTypeOK'
  BY <1>2 DEF RescheduleHold, Reschedule, locals
<1>3. ASSUME NEW j \in Jobs, CancelHold(j) PROVE HoldTypeOK'
  BY <1>3 DEF CancelHold, Cancel, locals, vars
<1>4. ASSUME NEW j \in Jobs, Cancel(j), UNCHANGED holdVars PROVE HoldTypeOK'
  BY <1>4 DEF Cancel, locals, holdVars
<1>5. ASSUME NEW w \in Workers, SweepStalled(w) \/ SweepFails(w) PROVE HoldTypeOK'
  <2>1. PastCeiling(cur[w]) \in BOOLEAN
    BY DEF PastCeiling
  <2>2. overdue' \in [Workers -> BOOLEAN]
    BY <1>5, <2>1 DEF SweepStalled, SweepFails
  <2> QED
    BY <1>5, <2>2 DEF SweepStalled, SweepFails, DbFault, GoTo, In, vars
<1>6. ASSUME NEW w \in Workers, ClaimHold(w) PROVE HoldTypeOK'
  BY <1>a, <1>6 DEF ClaimHold, GoTo, In, vars
<1>7. ASSUME NEW w \in Workers,
             NothingToRelease(w) \/ ClaimHoldFails(w) \/ Expire(w) \/ CommitRelease(w)
               \/ RecordFailure(w) \/ RecordFails(w)
      PROVE  HoldTypeOK'
  <2>a. Returns(w) \/ Throws(w, FALSE) \/ Throws(w, refused[w])
    BY <1>7 DEF NothingToRelease, ClaimHoldFails, Expire, CommitRelease, RecordFailure, RecordFails
  <2>b. dbFaults' \in 0..MaxDbFaults
    <3>1. dbFaults' = dbFaults \/ DbFault
      BY <1>7 DEF NothingToRelease, ClaimHoldFails, Expire, CommitRelease, RecordFailure,
         RecordFails
    <3> QED
      BY <3>1 DEF DbFault
  <2>1. UNCHANGED <<release_attempts, claimAge, sched, spool, seams>>
    BY <1>7 DEF NothingToRelease, ClaimHoldFails, Expire, CommitRelease, RecordFailure, RecordFails
  <2>c. pc[w] = "handling"
    BY <2>a DEF Returns, Throws, HandlerReturns, HandlerThrows
  <2>2. hold' \in [Jobs -> {"absent", "pending", "releasing"} \cup HoldTerminal]
    BY <1>a, <1>7, <2>c DEF NothingToRelease, ClaimHoldFails, Expire, CommitRelease, RecordFailure,
       RecordFails
  <2>3. ForgetRelease(w) /\ \A v \in Workers : v # w => pc'[v] = pc[v]
    BY <2>a DEF Returns, Throws, HandlerReturns, HandlerThrows, TypeOK
  <2> QED
    BY <2>1, <2>2, <2>3, <2>b DEF ForgetRelease
<1>8. ASSUME NEW w \in Workers, NEW permanent \in BOOLEAN, SendRefused(w, permanent)
      PROVE  HoldTypeOK'
  BY <1>8 DEF SendRefused, GoTo, In, vars
<1>9. ASSUME NEW w \in Workers, Submit(w) \/ FencedOff(w) \/ SeamFails(w) PROVE HoldTypeOK'
  BY <1>a, <1>9 DEF Submit, FencedOff, SeamFails, DbFault, GoTo, In, vars
<1>10. ASSUME NEW w \in Workers, CrashInRelease(w) PROVE HoldTypeOK'
  BY <1>a, <1>10 DEF CrashInRelease, Crash, ForgetRelease, In, TypeOK
<1>11. ASSUME NEW w \in Workers, Settling(w) \/ Queue(w) PROVE HoldTypeOK'
  BY <1>11, QueueFrame DEF holdVars
<1>12. CASE HoldTick
  BY <1>12 DEF HoldTick, Tick, locals
<1>13. CASE UNCHANGED allVars
  BY <1>13 DEF allVars, vars, holdVars
<1> QED
  BY <1>1, <1>2, <1>3, <1>4, <1>5, <1>6, <1>7, <1>8, <1>9, <1>10, <1>11, <1>12, <1>13
  DEF HoldNext, HoldOperator, Release, ReleaseFaults

\* The initial holds are well typed.
LEMMA InitHoldType == HoldInit => HoldTypeOK
  BY BoundsAssumption, CeilingAssumption DEF HoldInit, Init, HoldTypeOK

\* ScheduledSend keeps the queue's invariant and its own types together: each
\* is needed to see that a step of the one is a step of the other.
THEOREM HoldTypesHold == HoldSpec => [](QueueInv /\ HoldTypeOK)
<1>1. HoldInit => QueueInv /\ HoldTypeOK
  BY InitQueueInv, InitHoldType DEF HoldInit
<1>2. QueueInv /\ HoldTypeOK /\ [HoldNext]_allVars => (QueueInv /\ HoldTypeOK)'
  <2> SUFFICES ASSUME QueueInv, HoldTypeOK, [HoldNext]_allVars
               PROVE  QueueInv' /\ HoldTypeOK'
    OBVIOUS
  <2>1. QueueInv'
    BY StepIsQueueStep, NextQueueInv
  <2> QED
    BY <2>1, HoldTypeStep DEF QueueInv
<1>3. QED
  BY <1>1, <1>2, PTL DEF HoldSpec

\* Scheduled sends run on the queue as it is: every behaviour of holds,
\* releases and workers is a behaviour of JobQueue.
THEOREM ReleaseRunsOnQueue == HoldSpec => Spec
<1>1. HoldInit => Init
  BY DEF HoldInit
<1>2. HoldTypeOK /\ [HoldNext]_allVars => [Next]_vars
  BY StepIsQueueStep
<1>3. QED
  BY <1>1, <1>2, HoldTypesHold, PTL DEF HoldSpec, Spec

-----------------------------------------------------------------------------
(* The record of a hold, whatever the heartbeats do.                       *)

\* No step relabels a settled hold or moves the fence back: every write of
\* release() is guarded on status='releasing', the claim on pending or
\* releasing, the operator's on pending.
LEMMA StepSettledStays ==
  ASSUME BusyNamesRow, HoldTypeOK, [HoldNext]_allVars
  PROVE  \A j \in Jobs :
           /\ hold[j] \in HoldTerminal => hold'[j] = hold[j]
           /\ release_attempts'[j] >= release_attempts[j]
<1> USE DEF HoldTypeOK, HoldTerminal, holdRows
<1>a. \A w \in Workers : pc[w] = "handling" => cur[w] \in Jobs
  BY DEF BusyNamesRow, Busy
<1>1. CASE HoldOperator
  BY <1>1 DEF HoldOperator, Schedule, CancelHold, RescheduleHold, holdVars
<1>2. ASSUME NEW w \in Workers, ClaimHold(w)
      PROVE  \A j \in Jobs : /\ hold[j] \in HoldTerminal => hold'[j] = hold[j]
                             /\ release_attempts'[j] >= release_attempts[j]
  BY <1>a, <1>2 DEF ClaimHold, ClaimableHold, In
<1>3. ASSUME NEW w \in Workers, Release(w), ~ClaimHold(w)
      PROVE  /\ release_attempts' = release_attempts
             /\ \A j \in Jobs : hold[j] \in HoldTerminal => hold'[j] = hold[j]
  BY <1>a, <1>3 DEF Release, SweepStalled, NothingToRelease, Expire, SendRefused, Submit,
     CommitRelease, FencedOff, RecordFailure, Fenced, Stalled, In
<1>4. ASSUME NEW w \in Workers, ReleaseFaults(w) \/ Settling(w) \/ Queue(w)
      PROVE  hold' = hold /\ release_attempts' = release_attempts
  BY <1>4 DEF ReleaseFaults, SweepFails, ClaimHoldFails, SeamFails, RecordFails, CrashInRelease,
     Settling, Queue, holdVars
<1>5. CASE HoldTick \/ UNCHANGED allVars
  BY <1>5 DEF HoldTick, allVars, holdVars
<1> QED
  BY <1>1, <1>2, <1>3, <1>4, <1>5 DEF HoldNext

\* A settled hold is never reopened or relabelled and the fence never moves
\* back, with stale workers, sweeps and faults in any order.
THEOREM SettledHoldsStay == HoldSpec => SettledHoldStays
<1>1. QueueInv /\ HoldTypeOK /\ [HoldNext]_allVars =>
        [\A j \in Jobs :
           /\ hold[j] \in HoldTerminal => hold'[j] = hold[j]
           /\ release_attempts'[j] >= release_attempts[j]]_allVars
  BY StepSettledStays DEF QueueInv
<1>2. QED
  BY <1>1, HoldTypesHold, PTL DEF HoldSpec, SettledHoldStays

-----------------------------------------------------------------------------
(* What a released hold says of the spool, whatever the heartbeats do.     *)

\* The releases that have spooled j and whose transaction is still open.
OpenSends(j) == {w \in Workers : In(w, "spooled") /\ cur[w] = j}

Released(j) == IF hold[j] = "released" THEN 1 ELSE 0

\* Every cut-off send, every open one and the release itself have a send_sms
\* row each.  Sends that the fence turned away leave theirs behind, so the
\* spool may hold more.
SpoolCovers ==
  \A j \in Jobs : spool[j] >= seams[j] + Cardinality(OpenSends(j)) + Released(j)

\* There are finitely many open sends, and the bookkeeping counts.
LEMMA OpenSendsFinite ==
  ASSUME NEW j \in Jobs
  PROVE  IsFiniteSet(OpenSends(j)) /\ Cardinality(OpenSends(j)) \in Nat /\ Released(j) \in 0..1
  BY ReplicasAssumption, FS_Subset, FS_CardinalityType DEF OpenSends, Released

\* A step that opens and closes no send and writes none of the three counts.
LEMMA CoverUndisturbed ==
  ASSUME SpoolCovers, spool' = spool, seams' = seams,
         \A v \in Workers : In(v, "spooled")' <=> In(v, "spooled"),
         \A v \in Workers : In(v, "spooled") => cur'[v] = cur[v],
         \A j \in Jobs : hold'[j] = "released" <=> hold[j] = "released"
  PROVE  SpoolCovers'
<1>1. \A j \in Jobs : OpenSends(j)' = OpenSends(j) /\ Released(j)' = Released(j)
  BY DEF OpenSends, Released
<1> QED
  BY <1>1 DEF SpoolCovers

\* A step that closes the send of w: it is now the release, or a cut-off send,
\* or a row nobody counts.
LEMMA CoverClosed ==
  ASSUME SpoolCovers, HoldTypeOK, HoldTypeOK', NEW w \in Workers, NEW j \in Jobs,
         In(w, "spooled"), ~In(w, "spooled")', cur[w] = j,
         \A v \in Workers : v # w =>
           (In(v, "spooled")' <=> In(v, "spooled")) /\ (In(v, "spooled") => cur'[v] = cur[v]),
         spool' = spool,
         \A k \in Jobs : k # j => seams'[k] = seams[k] /\ hold'[k] = hold[k],
         seams'[j] + Released(j)' <= seams[j] + Released(j) + 1
  PROVE  SpoolCovers'
<1>1. OpenSends(j)' = OpenSends(j) \ {w} /\ w \in OpenSends(j)
  BY DEF OpenSends
<1>2. Cardinality(OpenSends(j)') = Cardinality(OpenSends(j)) - 1
  BY <1>1, OpenSendsFinite, FS_RemoveElement
<1>3. \A k \in Jobs : k # j => OpenSends(k)' = OpenSends(k) /\ Released(k)' = Released(k)
  BY DEF OpenSends, Released
<1>4. spool[j] \in Nat /\ seams[j] \in Nat /\ seams'[j] \in Nat
  BY DEF HoldTypeOK
<1>5. Released(j)' \in 0..1
  BY DEF Released
<1>6. spool'[j] >= seams'[j] + Cardinality(OpenSends(j))' + Released(j)'
  <2>1. spool[j] >= seams[j] + Cardinality(OpenSends(j)) + Released(j)
    BY DEF SpoolCovers
  <2> QED
    BY <1>2, <1>4, <1>5, <2>1, OpenSendsFinite
<1>7. \A k \in Jobs : k # j => spool'[k] >= seams'[k] + Cardinality(OpenSends(k))' + Released(k)'
  BY <1>3 DEF SpoolCovers
<1> QED
  BY <1>6, <1>7 DEF SpoolCovers

\* sqlbox.submit opens a send and writes its row.
LEMMA CoverOpened ==
  ASSUME QueueInv, HoldTypeOK, SpoolCovers, NEW w \in Workers, Submit(w)
  PROVE  SpoolCovers'
<1>1. /\ pc[w] = "handling" /\ step[w] = "send" /\ pc' = pc /\ cur' = cur
      /\ step' = [step EXCEPT ![w] = "spooled"]
      /\ hold' = hold /\ seams' = seams /\ spool' = [spool EXCEPT ![cur[w]] = spool[cur[w]] + 1]
  BY DEF Submit, GoTo, In, vars
<1>2. PICK j \in Jobs : j = cur[w]
  BY <1>1 DEF QueueInv, BusyNamesRow, Busy
<1>3. OpenSends(j)' = OpenSends(j) \cup {w} /\ w \notin OpenSends(j)
  BY <1>1, <1>2 DEF OpenSends, In, HoldTypeOK
<1>4. Cardinality(OpenSends(j)') = Cardinality(OpenSends(j)) + 1
  BY <1>3, OpenSendsFinite, FS_AddElement
<1>5. \A k \in Jobs : k # j => OpenSends(k)' = OpenSends(k)
  BY <1>1, <1>2 DEF OpenSends, In, HoldTypeOK
<1>6. \A k \in Jobs : Released(k)' = Released(k) /\ spool[k] \in Nat /\ seams[k] \in Nat
  BY <1>1 DEF Released, HoldTypeOK
<1>7. spool'[j] >= seams'[j] + Cardinality(OpenSends(j))' + Released(j)'
  <2>1. spool[j] >= seams[j] + Cardinality(OpenSends(j)) + Released(j)
    BY DEF SpoolCovers
  <2>2. spool'[j] = spool[j] + 1
    BY <1>1, <1>2 DEF HoldTypeOK
  <2> QED
    BY <1>1, <1>4, <1>6, <2>1, <2>2, OpenSendsFinite
<1>8. \A k \in Jobs : k # j => spool'[k] >= seams'[k] + Cardinality(OpenSends(k))' + Released(k)'
  BY <1>1, <1>2, <1>5, <1>6 DEF SpoolCovers, HoldTypeOK
<1> QED
  BY <1>7, <1>8 DEF SpoolCovers

\* Every step keeps the spool above the count: only a fenced commit makes a
\* hold released, and it closes a send that had its row.
LEMMA StepCovers ==
  ASSUME QueueInv, HoldTypeOK, HoldTypeOK', SpoolCovers, [HoldNext]_allVars
  PROVE  SpoolCovers'
<1> USE DEF holdRows, release
<1>a. \A w \in Workers : pc[w] = "handling" => cur[w] \in Jobs
  BY DEF QueueInv, BusyNamesRow, Busy
<1>b. /\ pc \in [Workers -> PC] /\ cur = [w \in Workers |-> cur[w]]
      /\ step = [w \in Workers |-> step[w]] /\ hold = [j \in Jobs |-> hold[j]]
      /\ spool \in [Jobs -> Nat] /\ seams \in [Jobs -> Nat]
      /\ \A w \in Workers : pc[w] # "handling" => step[w] = "begin"
  BY DEF QueueInv, TypeOK, HoldTypeOK
<1>1. CASE HoldOperator
  <2>1. PICK j \in Jobs :
          \/ \E d \in 1..MaxDelay : Schedule(j, d)
          \/ \E d \in 1..MaxDelay : RescheduleHold(j, d)
          \/ CancelHold(j)
          \/ Cancel(j) /\ UNCHANGED holdVars
    BY <1>1 DEF HoldOperator
  <2>2. pc' = pc /\ cur' = cur /\ step' = step /\ spool' = spool /\ seams' = seams
    BY <2>1 DEF Schedule, Create, RescheduleHold, Reschedule, CancelHold, Cancel, locals, vars,
       holdVars
  <2>3. \A k \in Jobs : hold'[k] = "released" <=> hold[k] = "released"
    BY <2>1, <1>b DEF Schedule, RescheduleHold, CancelHold, holdVars
  <2> QED
    BY <2>2, <2>3, CoverUndisturbed DEF In
<1>2. ASSUME NEW w \in Workers,
             SweepStalled(w) \/ SweepFails(w) \/ ClaimHold(w)
               \/ \E permanent \in BOOLEAN : SendRefused(w, permanent)
      PROVE  SpoolCovers'
  BY <1>2, <1>a, <1>b, CoverUndisturbed DEF SweepStalled, SweepFails, Stalled, ClaimHold,
     ClaimableHold, SendRefused, GoTo, In, vars
<1>3. ASSUME NEW w \in Workers,
             NothingToRelease(w) \/ ClaimHoldFails(w) \/ Expire(w) \/ RecordFailure(w)
               \/ RecordFails(w)
      PROVE  SpoolCovers'
  <2>1. Returns(w) \/ Throws(w, FALSE) \/ Throws(w, refused[w])
    BY <1>3 DEF NothingToRelease, ClaimHoldFails, Expire, RecordFailure, RecordFails
  <2>2. /\ pc[w] = "handling" /\ pc'[w] # "handling" /\ cur' = cur
        /\ \A v \in Workers : v # w => pc'[v] = pc[v] /\ step'[v] = step[v]
    BY <1>b, <2>1 DEF Returns, Throws, HandlerReturns, HandlerThrows, ForgetRelease
  <2>3. step[w] # "spooled" /\ spool' = spool /\ seams' = seams
    BY <1>3 DEF NothingToRelease, ClaimHoldFails, Expire, RecordFailure, RecordFails, In
  <2>4. \A j \in Jobs : hold'[j] = "released" <=> hold[j] = "released"
    BY <1>3, <1>a, <1>b, <2>2 DEF NothingToRelease, ClaimHoldFails, Expire, RecordFailure,
       RecordFails, Fenced
  <2> QED
    BY <2>2, <2>3, <2>4, CoverUndisturbed DEF In
<1>4. ASSUME NEW w \in Workers, Submit(w) PROVE SpoolCovers'
  BY <1>4, CoverOpened
<1>5. ASSUME NEW w \in Workers,
             CommitRelease(w) \/ FencedOff(w) \/ SeamFails(w)
               \/ (CrashInRelease(w) /\ In(w, "spooled"))
      PROVE  SpoolCovers'
  <2>1. pc[w] = "handling" /\ step[w] = "spooled"
    BY <1>5 DEF CommitRelease, FencedOff, SeamFails, In
  <2>2. PICK j \in Jobs : j = cur[w]
    BY <1>a, <2>1
  <2>3. /\ ~In(w, "spooled")' /\ spool' = spool
        /\ \A v \in Workers : v # w => pc'[v] = pc[v] /\ step'[v] = step[v] /\ cur'[v] = cur[v]
    <3>1. CASE CommitRelease(w)
      BY <3>1, <1>b DEF CommitRelease, Returns, HandlerReturns, ForgetRelease, In
    <3>2. CASE FencedOff(w) \/ SeamFails(w)
      BY <3>2, <1>b DEF FencedOff, SeamFails, GoTo, In, vars
    <3>3. CASE CrashInRelease(w)
      BY <3>3, <1>b DEF CrashInRelease, Crash, ForgetJob, ForgetRelease, In
    <3> QED
      BY <1>5, <3>1, <3>2, <3>3
  <2>4. /\ \A k \in Jobs : k # j => seams'[k] = seams[k] /\ hold'[k] = hold[k]
        /\ \/ seams'[j] = seams[j] /\ hold[j] # "released"
           \/ seams'[j] \in {seams[j], seams[j] + 1} /\ hold'[j] = hold[j]
    BY <1>5, <1>b, <2>1, <2>2
    DEF CommitRelease, FencedOff, SeamFails, CrashInRelease, Fenced, In
  <2>5. seams'[j] + Released(j)' <= seams[j] + Released(j) + 1
    BY <1>b, <2>4 DEF Released
  <2> QED
    BY <2>1, <2>2, <2>3, <2>4, <2>5, CoverClosed DEF In
<1>6. ASSUME NEW w \in Workers, CrashInRelease(w), ~In(w, "spooled") PROVE SpoolCovers'
  BY <1>6, <1>b, CoverUndisturbed DEF CrashInRelease, Crash, ForgetJob, ForgetRelease, In
<1>7. ASSUME NEW w \in Workers, Settling(w) \/ Queue(w) PROVE SpoolCovers'
  BY <1>7, <1>b, QueueFrame, CoverUndisturbed DEF In, holdVars, QueueInv
<1>8. CASE HoldTick \/ UNCHANGED allVars
  BY <1>8, CoverUndisturbed DEF HoldTick, Tick, In, locals, allVars, vars, holdVars
<1> QED
  BY <1>1, <1>2, <1>3, <1>4, <1>5, <1>6, <1>7, <1>8 DEF HoldNext, Release, ReleaseFaults

\* A hold on record as released has a send_sms row of its own, beyond those of
\* cut-off sends, even when the heartbeats fail and two releases of the same
\* hold race: "released" is written only by the transaction that spooled it.
THEOREM ReleasedHoldsWereSent == HoldSpec => []ReleasedMeansSpooled
<1>1. HoldInit => SpoolCovers
  <2> SUFFICES ASSUME HoldInit, NEW j \in Jobs
               PROVE  spool[j] >= seams[j] + Cardinality(OpenSends(j)) + Released(j)
    BY DEF SpoolCovers
  <2>1. OpenSends(j) = {}
    BY DEF HoldInit, OpenSends, In
  <2> QED
    BY <2>1, FS_EmptySet DEF HoldInit, Released
<1>2. /\ QueueInv /\ HoldTypeOK /\ HoldTypeOK' /\ SpoolCovers /\ [HoldNext]_allVars
      => SpoolCovers'
  BY StepCovers
<1>3. HoldTypeOK /\ SpoolCovers => ReleasedMeansSpooled
  <2> SUFFICES ASSUME HoldTypeOK, SpoolCovers, NEW j \in Jobs, hold[j] = "released"
               PROVE  spool[j] > seams[j]
    BY DEF ReleasedMeansSpooled
  <2>1. spool[j] >= seams[j] + Cardinality(OpenSends(j)) + 1
    BY DEF SpoolCovers, Released
  <2> QED
    BY <2>1, OpenSendsFinite DEF HoldTypeOK
<1>4. QED
  BY <1>1, <1>2, <1>3, HoldTypesHold, PTL DEF HoldSpec

-----------------------------------------------------------------------------
(* How often a message can leave, whatever the heartbeats do.              *)

\* The workers that execute j and have yet to claim its hold, and those that
\* have claimed it and are about to send.
Claimants(j) == {w \in Workers : (In(w, "begin") \/ In(w, "claim")) /\ cur[w] = j}
Senders(j) == {w \in Workers : In(w, "send") /\ cur[w] = j}

\* An execution pays an attempt for one claim of the hold, and the claim moves
\* the fence for one send_sms row.
SendsPaid ==
  \A j \in Jobs :
    /\ release_attempts[j] + Cardinality(Claimants(j)) <= attempts[j]
    /\ spool[j] + Cardinality(Senders(j)) <= release_attempts[j]

\* There are finitely many of either.
LEMMA PayersFinite ==
  ASSUME NEW j \in Jobs
  PROVE  /\ IsFiniteSet(Claimants(j)) /\ Cardinality(Claimants(j)) \in Nat
         /\ IsFiniteSet(Senders(j)) /\ Cardinality(Senders(j)) \in Nat
  BY ReplicasAssumption, FS_Subset, FS_CardinalityType DEF Claimants, Senders

\* A step in which nobody starts an execution, claims a hold or sends.
LEMMA PaidUndisturbed ==
  ASSUME SendsPaid, TypeOK, HoldTypeOK, attempts' = attempts,
         release_attempts' = release_attempts, spool' = spool,
         \A v \in Workers :
           /\ (In(v, "begin") \/ In(v, "claim"))' =>
                (In(v, "begin") \/ In(v, "claim")) /\ cur'[v] = cur[v]
           /\ In(v, "send")' => In(v, "send") /\ cur'[v] = cur[v]
  PROVE  SendsPaid'
<1> SUFFICES ASSUME NEW j \in Jobs
             PROVE  /\ release_attempts'[j] + Cardinality(Claimants(j)') <= attempts'[j]
                    /\ spool'[j] + Cardinality(Senders(j)') <= release_attempts'[j]
  BY DEF SendsPaid
<1>1. Claimants(j)' \subseteq Claimants(j) /\ Senders(j)' \subseteq Senders(j)
  BY DEF Claimants, Senders
<1>2. /\ Cardinality(Claimants(j)') \in Nat /\ Cardinality(Senders(j)') \in Nat
      /\ Cardinality(Claimants(j)') <= Cardinality(Claimants(j))
      /\ Cardinality(Senders(j)') <= Cardinality(Senders(j))
  BY <1>1, PayersFinite, FS_Subset, FS_CardinalityType
<1>3. attempts[j] \in Nat /\ release_attempts[j] \in Nat /\ spool[j] \in Nat
  BY DEF TypeOK, HoldTypeOK
<1>4. /\ release_attempts[j] + Cardinality(Claimants(j)) <= attempts[j]
      /\ spool[j] + Cardinality(Senders(j)) <= release_attempts[j]
  BY DEF SendsPaid
<1> QED
  BY <1>2, <1>3, <1>4, PayersFinite

\* The queue's claim charges the attempt of the worker that starts.
LEMMA PaidStarted ==
  ASSUME SendsPaid, QueueInv, HoldTypeOK, NEW w \in Workers, NEW j \in Jobs,
         Claim(w, j), UNCHANGED holdVars
  PROVE  SendsPaid'
<1>1. /\ pc[w] = "claiming" /\ attempts' = [attempts EXCEPT ![j] = attempts[j] + 1]
      /\ pc'[w] \in {"handling", "failing"} /\ cur'[w] = j
      /\ \A v \in Workers : v # w => pc'[v] = pc[v] /\ cur'[v] = cur[v]
      /\ UNCHANGED <<release_attempts, spool, step>>
  BY DEF Claim, ChargeAttempt, holdVars, holdRows, release, QueueInv, TypeOK
<1>2. \A k \in Jobs : Senders(k)' = Senders(k)
  BY <1>1 DEF Senders, In, HoldTypeOK
<1>3. \A k \in Jobs : k # j => Claimants(k)' = Claimants(k)
  BY <1>1 DEF Claimants, In
<1>4. Claimants(j)' \in {Claimants(j), Claimants(j) \cup {w}} /\ w \notin Claimants(j)
  <2>1. w \notin Claimants(j)
    BY <1>1 DEF Claimants, In
  <2>2. Claimants(j)' \subseteq Claimants(j) \cup {w} /\ Claimants(j) \subseteq Claimants(j)'
    BY <1>1 DEF Claimants, In
  <2> QED
    BY <2>1, <2>2
<1>5. Cardinality(Claimants(j)') <= Cardinality(Claimants(j)) + 1
      /\ Cardinality(Claimants(j)') \in Nat
  BY <1>4, PayersFinite, FS_AddElement
<1>6. \A k \in Jobs : attempts[k] \in Nat /\ release_attempts[k] \in Nat
  BY DEF QueueInv, TypeOK, HoldTypeOK
<1>7. release_attempts'[j] + Cardinality(Claimants(j)') <= attempts'[j]
  <2>1. release_attempts[j] + Cardinality(Claimants(j)) <= attempts[j]
    BY DEF SendsPaid
  <2>2. attempts'[j] = attempts[j] + 1
    BY <1>1 DEF QueueInv, TypeOK
  <2> QED
    BY <1>1, <1>5, <1>6, <2>1, <2>2, PayersFinite
<1>8. \A k \in Jobs : k # j => attempts'[k] = attempts[k]
  BY <1>1 DEF QueueInv, TypeOK
<1> QED
  BY <1>1, <1>2, <1>3, <1>7, <1>8 DEF SendsPaid

\* The hold's claim moves the fence for the worker that will send.
LEMMA PaidClaimed ==
  ASSUME SendsPaid, QueueInv, HoldTypeOK, NEW w \in Workers, ClaimHold(w)
  PROVE  SendsPaid'
<1>1. /\ pc[w] = "handling" /\ step[w] = "claim" /\ pc' = pc /\ cur' = cur
      /\ UNCHANGED <<attempts, spool>>
      /\ release_attempts' = [release_attempts EXCEPT ![cur[w]] = @ + 1]
      /\ step'[w] \in {"expire", "send"} /\ \A v \in Workers : v # w => step'[v] = step[v]
  BY DEF ClaimHold, GoTo, In, vars, HoldTypeOK
<1>2. PICK j \in Jobs : j = cur[w]
  BY <1>1 DEF QueueInv, BusyNamesRow, Busy
<1>3. \A k \in Jobs : k # j => Claimants(k)' = Claimants(k) /\ Senders(k)' = Senders(k)
  BY <1>1, <1>2 DEF Claimants, Senders, In
<1>4. Claimants(j)' = Claimants(j) \ {w} /\ w \in Claimants(j)
  BY <1>1, <1>2 DEF Claimants, In
<1>5. Senders(j)' \in {Senders(j), Senders(j) \cup {w}} /\ w \notin Senders(j)
  <2>1. w \notin Senders(j)
    BY <1>1 DEF Senders, In
  <2>2. Senders(j)' \subseteq Senders(j) \cup {w} /\ Senders(j) \subseteq Senders(j)'
    BY <1>1 DEF Senders, In
  <2> QED
    BY <2>1, <2>2
<1>6. Cardinality(Claimants(j)') = Cardinality(Claimants(j)) - 1
  BY <1>4, PayersFinite, FS_RemoveElement
<1>7. Cardinality(Senders(j)') <= Cardinality(Senders(j)) + 1 /\ Cardinality(Senders(j)') \in Nat
  BY <1>5, PayersFinite, FS_AddElement
<1>8. /\ release_attempts'[j] = release_attempts[j] + 1
      /\ attempts[j] \in Nat /\ release_attempts[j] \in Nat /\ spool[j] \in Nat
      /\ \A k \in Jobs : k # j => release_attempts'[k] = release_attempts[k]
  BY <1>1, <1>2 DEF QueueInv, TypeOK, HoldTypeOK
<1>9. /\ release_attempts[j] + Cardinality(Claimants(j)) <= attempts[j]
      /\ spool[j] + Cardinality(Senders(j)) <= release_attempts[j]
  BY DEF SendsPaid
<1>10. /\ release_attempts'[j] + Cardinality(Claimants(j)') <= attempts'[j]
       /\ spool'[j] + Cardinality(Senders(j)') <= release_attempts'[j]
  BY <1>1, <1>6, <1>7, <1>8, <1>9, PayersFinite
<1> QED
  BY <1>1, <1>3, <1>8, <1>10 DEF SendsPaid

\* The send uses up what its claim paid for.
LEMMA PaidSent ==
  ASSUME SendsPaid, QueueInv, HoldTypeOK, NEW w \in Workers, Submit(w)
  PROVE  SendsPaid'
<1>1. /\ pc[w] = "handling" /\ step[w] = "send" /\ pc' = pc /\ cur' = cur
      /\ UNCHANGED <<attempts, release_attempts>>
      /\ spool' = [spool EXCEPT ![cur[w]] = @ + 1]
      /\ step'[w] = "spooled" /\ \A v \in Workers : v # w => step'[v] = step[v]
  BY DEF Submit, GoTo, In, vars, HoldTypeOK
<1>2. PICK j \in Jobs : j = cur[w]
  BY <1>1 DEF QueueInv, BusyNamesRow, Busy
<1>3. \A k \in Jobs : Claimants(k)' = Claimants(k) /\ (k # j => Senders(k)' = Senders(k))
  BY <1>1, <1>2 DEF Claimants, Senders, In
<1>4. Senders(j)' = Senders(j) \ {w} /\ w \in Senders(j)
  BY <1>1, <1>2 DEF Senders, In
<1>5. Cardinality(Senders(j)') = Cardinality(Senders(j)) - 1
  BY <1>4, PayersFinite, FS_RemoveElement
<1>6. /\ spool'[j] = spool[j] + 1 /\ spool[j] \in Nat
      /\ \A k \in Jobs : k # j => spool'[k] = spool[k]
  BY <1>1, <1>2 DEF HoldTypeOK
<1>7. spool'[j] + Cardinality(Senders(j)') <= release_attempts'[j]
  BY <1>1, <1>5, <1>6, PayersFinite DEF SendsPaid
<1> QED
  BY <1>1, <1>3, <1>6, <1>7 DEF SendsPaid

\* Every step keeps the account.
LEMMA StepPaid ==
  ASSUME QueueInv, HoldTypeOK, SendsPaid, [HoldNext]_allVars
  PROVE  SendsPaid'
<1> USE DEF holdRows, release
<1>a. TypeOK /\ \A w \in Workers : pc[w] # "handling" => step[w] = "begin"
  BY DEF QueueInv, HoldTypeOK
<1>b. /\ pc = [w \in Workers |-> pc[w]] /\ cur = [w \in Workers |-> cur[w]]
      /\ step = [w \in Workers |-> step[w]]
  BY DEF QueueInv, TypeOK, HoldTypeOK
<1>1. CASE HoldOperator
  <2>1. PICK j \in Jobs :
          \/ \E d \in 1..MaxDelay : Schedule(j, d)
          \/ \E d \in 1..MaxDelay : RescheduleHold(j, d)
          \/ CancelHold(j)
          \/ Cancel(j) /\ UNCHANGED holdVars
    BY <1>1 DEF HoldOperator
  <2>2. UNCHANGED <<pc, cur, step, attempts, release_attempts, spool>>
    BY <2>1 DEF Schedule, Create, RescheduleHold, Reschedule, CancelHold, Cancel, locals, vars,
       holdVars
  <2> QED
    BY <1>a, <2>2, PaidUndisturbed DEF In
<1>2. ASSUME NEW w \in Workers,
             SweepStalled(w) \/ SweepFails(w) \/ FencedOff(w) \/ SeamFails(w)
               \/ \E permanent \in BOOLEAN : SendRefused(w, permanent)
      PROVE  SendsPaid'
  <2>1. /\ UNCHANGED <<pc, cur, attempts, release_attempts, spool>>
        /\ \A v \in Workers : v # w => step'[v] = step[v]
        /\ \/ step[w] = "begin" /\ step'[w] = "claim"
           \/ step'[w] = "record"
    BY <1>2, <1>b DEF SweepStalled, SweepFails, FencedOff, SeamFails, SendRefused, GoTo, In, vars
  <2> QED
    BY <1>a, <2>1, PaidUndisturbed DEF In
<1>3. ASSUME NEW w \in Workers,
             NothingToRelease(w) \/ ClaimHoldFails(w) \/ Expire(w) \/ CommitRelease(w)
               \/ RecordFailure(w) \/ RecordFails(w)
      PROVE  SendsPaid'
  <2>1. Returns(w) \/ Throws(w, FALSE) \/ Throws(w, refused[w])
    BY <1>3 DEF NothingToRelease, ClaimHoldFails, Expire, CommitRelease, RecordFailure, RecordFails
  <2>2. /\ pc'[w] # "handling" /\ cur' = cur /\ attempts' = attempts
        /\ \A v \in Workers : v # w => pc'[v] = pc[v] /\ step'[v] = step[v]
    BY <1>b, <2>1 DEF Returns, Throws, HandlerReturns, HandlerThrows, ForgetRelease, rows
  <2>3. UNCHANGED <<release_attempts, spool>>
    BY <1>3 DEF NothingToRelease, ClaimHoldFails, Expire, CommitRelease, RecordFailure, RecordFails
  <2> QED
    BY <1>a, <2>2, <2>3, PaidUndisturbed DEF In
<1>4. ASSUME NEW w \in Workers, ClaimHold(w) PROVE SendsPaid'
  BY <1>4, PaidClaimed
<1>5. ASSUME NEW w \in Workers, Submit(w) PROVE SendsPaid'
  BY <1>5, PaidSent
<1>6. ASSUME NEW w \in Workers, CrashInRelease(w) PROVE SendsPaid'
  BY <1>a, <1>6, <1>b, PaidUndisturbed
  DEF CrashInRelease, Crash, ForgetJob, ForgetRelease, In, rows
<1>7. ASSUME NEW w \in Workers, Settling(w) \/ Queue(w) PROVE SendsPaid'
  <2>1. CASE \E j \in Jobs : Claim(w, j)
    BY <1>7, <2>1, PaidStarted, QueueFrame DEF QueueInv
  <2>2. CASE ~\E j \in Jobs : Claim(w, j)
    <3>1. /\ attempts' = attempts
          /\ \A v \in Workers : pc'[v] = "handling" => pc[v] = "handling" /\ cur'[v] = cur[v]
      BY <1>7, <1>b, <2>2
      DEF Settling, Queue, CompleteJob, FailAttempt, BackToClaiming, ForgetJob, Cycle, BeginCycle,
          Reap, EndDrain, LeaveCycle, Heartbeat, Recovery, SessionReaped, Restart, ReapFails,
          ClaimFails, CompleteFails, FailAttemptFails, SessionDropped, rows, locals
    <3>2. UNCHANGED <<release_attempts, spool, step>>
      BY <1>7 DEF Settling, Queue, holdVars
    <3> QED
      BY <1>a, <3>1, <3>2, PaidUndisturbed DEF In
  <2> QED
    BY <2>1, <2>2
<1>8. CASE HoldTick \/ UNCHANGED allVars
  <2>1. UNCHANGED <<pc, cur, step, attempts, release_attempts, spool>>
    BY <1>8 DEF HoldTick, Tick, locals, allVars, vars, holdVars
  <2> QED
    BY <1>a, <2>1, PaidUndisturbed DEF In
<1> QED
  BY <1>1, <1>2, <1>3, <1>4, <1>5, <1>6, <1>7, <1>8 DEF HoldNext, Release, ReleaseFaults

\* However the queue's claims are torn, a message leaves at most once for each
\* attempt its release job was charged, and so max_attempts + 1 times at most:
\* an execution makes one claim of the hold, a claim one INSERT, and the CHECK
\* on attempts ends it.
THEOREM DuplicatesBounded == HoldSpec => []SendsCostAttempts
<1> DEFINE Capped == \A j \in Jobs : attempts[j] <= MaxAttempts[j] + 1
<1>1. HoldInit => SendsPaid /\ Capped
  <2> SUFFICES ASSUME HoldInit, NEW j \in Jobs
               PROVE  /\ release_attempts[j] + Cardinality(Claimants(j)) <= attempts[j]
                      /\ spool[j] + Cardinality(Senders(j)) <= release_attempts[j]
                      /\ attempts[j] <= MaxAttempts[j] + 1
    BY DEF SendsPaid
  <2>1. Claimants(j) = {} /\ Senders(j) = {}
    BY DEF HoldInit, Init, Claimants, Senders, In
  <2> QED
    BY <2>1, FS_EmptySet, MaxAttemptsAssumption DEF HoldInit, Init
<1>2. QueueInv /\ HoldTypeOK /\ SendsPaid /\ [HoldNext]_allVars => SendsPaid'
  BY StepPaid
<1>3. QueueInv /\ HoldTypeOK /\ Capped /\ [HoldNext]_allVars => Capped'
  <2> SUFFICES ASSUME QueueInv, HoldTypeOK, Capped, [HoldNext]_allVars PROVE Capped'
    OBVIOUS
  <2>1. [Next]_vars
    BY StepIsQueueStep
  <2>2. ASSUME NEW w \in Workers, NEW j \in Jobs, Claim(w, j) PROVE Capped'
    BY <2>2 DEF Claim, ClaimAllowed, ChargeAttempt, QueueInv, TypeOK
  <2>3. CASE attempts' = attempts
    BY <2>3
  <2> QED
    BY <2>1, <2>2, <2>3
    DEF Next, Operator, Create, Cancel, Reschedule, Cycle, BeginCycle, Reap, EndDrain, Execution,
        Heartbeat, HandlerReturns, HandlerThrows, CompleteJob, FailAttempt, Failure, ReapFails,
        ClaimFails, CompleteFails, FailAttemptFails, Crash, SessionDropped, Recovery,
        SessionReaped, Restart, Tick, rows, vars
<1>4. HoldTypeOK /\ QueueInv /\ SendsPaid /\ Capped => SendsCostAttempts
  <2> SUFFICES ASSUME HoldTypeOK, QueueInv, SendsPaid, Capped, NEW j \in Jobs
               PROVE  /\ spool[j] <= release_attempts[j] /\ release_attempts[j] <= attempts[j]
                      /\ attempts[j] <= MaxAttempts[j] + 1
    BY DEF SendsCostAttempts
  <2>1. /\ release_attempts[j] + Cardinality(Claimants(j)) <= attempts[j]
        /\ spool[j] + Cardinality(Senders(j)) <= release_attempts[j]
    BY DEF SendsPaid
  <2> QED
    BY <2>1, PayersFinite DEF HoldTypeOK, QueueInv, TypeOK
<1>5. QED
  BY <1>1, <1>2, <1>3, <1>4, HoldTypesHold, PTL DEF HoldSpec

-----------------------------------------------------------------------------
(* One send per hold, when heartbeats are reliable and releases prompt.    *)

\* Two workers inside handlers are inside handlers of different jobs.
LEMMA ApartHandlers ==
  ASSUME QueueInv, ExclusiveExecution, NEW v \in Workers, NEW w \in Workers,
         pc[v] = "handling", pc[w] = "handling", v # w
  PROVE  cur[v] \in Jobs /\ cur[w] \in Jobs /\ cur[v] # cur[w]
  BY DEF QueueInv, BusyNamesRow, ExclusiveExecution, Executing, Busy

\* From its claim on, a release stays the owner of its hold: only the release
\* itself writes the hold, since no other worker executes the job, no sweep
\* finds the claim old, and operators only touch pending holds.
LEMMA StepOwnsHold ==
  ASSUME ReleasesPrompt, QueueInv, ExclusiveExecution, HoldTypeOK, ReleaseOwnsHold,
         [HoldNext]_allVars
  PROVE  ReleaseOwnsHold'
<1> USE BoundsAssumption
    DEF ReleaseOwnsHold, HoldTypeOK, Fenced, holdRows, release
<1>a. \A w \in Workers : pc[w] = "handling" => cur[w] \in Jobs
  BY DEF QueueInv, BusyNamesRow, Busy
<1>b. \A v, w \in Workers : pc[v] = "handling" /\ pc[w] = "handling" /\ v # w => cur[v] # cur[w]
  BY ApartHandlers
<1>c. pc \in [Workers -> PC]
  BY DEF QueueInv, TypeOK
<1>1. ASSUME NEW j \in Jobs, NEW d \in 1..MaxDelay, Schedule(j, d) PROVE ReleaseOwnsHold'
  BY <1>a, <1>1 DEF Schedule, Create, locals
<1>2. ASSUME NEW j \in Jobs, NEW d \in 1..MaxDelay, RescheduleHold(j, d) PROVE ReleaseOwnsHold'
  BY <1>2 DEF RescheduleHold, Reschedule, locals
<1>3. ASSUME NEW j \in Jobs, CancelHold(j) PROVE ReleaseOwnsHold'
  BY <1>a, <1>3 DEF CancelHold, Cancel, locals, vars
<1>4. ASSUME NEW j \in Jobs, Cancel(j), UNCHANGED holdVars PROVE ReleaseOwnsHold'
  BY <1>4 DEF Cancel, locals, holdVars
<1>5. ASSUME NEW w \in Workers, SweepStalled(w) \/ SweepFails(w) PROVE ReleaseOwnsHold'
  BY <1>a, <1>5 DEF SweepStalled, SweepFails, Stalled, GoTo, In, vars
<1>6. ASSUME NEW w \in Workers, ClaimHold(w) PROVE ReleaseOwnsHold'
  BY <1>a, <1>b, <1>6 DEF ClaimHold, GoTo, In, vars
<1>7. ASSUME NEW w \in Workers,
             NothingToRelease(w) \/ ClaimHoldFails(w) \/ Expire(w) \/ CommitRelease(w)
               \/ RecordFailure(w) \/ RecordFails(w)
      PROVE  ReleaseOwnsHold'
  <2>1. Returns(w) \/ Throws(w, FALSE) \/ Throws(w, refused[w])
    BY <1>7 DEF NothingToRelease, ClaimHoldFails, Expire, CommitRelease, RecordFailure, RecordFails
  <2>2. /\ pc[w] = "handling" /\ pc'[w] # "handling" /\ cur' = cur
        /\ \A v \in Workers : v # w => pc'[v] = pc[v] /\ step'[v] = step[v] /\ fence'[v] = fence[v]
    BY <1>c, <2>1
    DEF Returns, Throws, HandlerReturns, HandlerThrows, ForgetRelease
  <2>3. release_attempts' = release_attempts /\ claimAge' = claimAge
    BY <1>7 DEF NothingToRelease, ClaimHoldFails, Expire, CommitRelease, RecordFailure, RecordFails
  <2>4. cur[w] \in Jobs /\ hold = [j \in Jobs |-> hold[j]]
    BY <1>a, <2>2
  <2>5. \A j \in Jobs : j # cur[w] => hold'[j] = hold[j]
    <3>1. CASE NothingToRelease(w) \/ ClaimHoldFails(w) \/ RecordFails(w)
      BY <3>1 DEF NothingToRelease, ClaimHoldFails, RecordFails
    <3>2. CASE Expire(w) \/ CommitRelease(w)
      BY <3>2, <2>4 DEF Expire, CommitRelease
    <3>3. CASE RecordFailure(w)
      BY <3>3, <2>4 DEF RecordFailure
    <3> QED
      BY <1>7, <3>1, <3>2, <3>3
  <2> QED
    BY <1>a, <1>b, <2>2, <2>3, <2>5
<1>8. ASSUME NEW w \in Workers, NEW permanent \in BOOLEAN, SendRefused(w, permanent)
      PROVE  ReleaseOwnsHold'
  BY <1>8 DEF SendRefused, GoTo, In, vars
<1>9. ASSUME NEW w \in Workers, Submit(w) \/ FencedOff(w) \/ SeamFails(w) PROVE ReleaseOwnsHold'
  BY <1>9 DEF Submit, FencedOff, SeamFails, GoTo, In, vars
<1>10. ASSUME NEW w \in Workers, CrashInRelease(w) PROVE ReleaseOwnsHold'
  BY <1>c, <1>10 DEF CrashInRelease, Crash, ForgetJob, ForgetRelease, QueueInv, TypeOK
<1>11. ASSUME NEW w \in Workers, Settling(w) \/ Queue(w) PROVE ReleaseOwnsHold'
  BY <1>11, QueueFrame DEF holdVars, QueueInv
<1>12. CASE HoldTick
  BY <1>a, <1>12 DEF HoldTick, ReleasesInTime, Tick, locals
<1>13. CASE UNCHANGED allVars
  BY <1>13 DEF allVars, vars, holdVars
<1> QED
  BY <1>1, <1>2, <1>3, <1>4, <1>5, <1>6, <1>7, <1>8, <1>9, <1>10, <1>11, <1>12, <1>13
  DEF HoldNext, HoldOperator, Release, ReleaseFaults

\* A step that starts or ends no send, spools nothing and cuts nothing off, and
\* neither releases a hold nor takes a release back, keeps the account.
LEMMA AccountKept ==
  ASSUME SendsAccounted, spool' = spool, seams' = seams,
         \A v \in Workers : In(v, "spooled")' <=> In(v, "spooled"),
         \A v \in Workers : In(v, "spooled") => cur'[v] = cur[v],
         \A j \in Jobs : hold'[j] = "released" <=> hold[j] = "released"
  PROVE  SendsAccounted'
<1>1. \A j \in Jobs : Spooling(j)' <=> Spooling(j)
  BY DEF Spooling, Executing, In, Busy
<1> QED
  BY <1>1 DEF SendsAccounted

\* Every send_sms row stays accounted for: a release spools only while it owns
\* the hold, which is then neither released nor being spooled by another, and
\* the fence never turns it away.
LEMMA StepAccounted ==
  ASSUME QueueInv, ExclusiveExecution, HoldTypeOK, ReleaseOwnsHold, SendsAccounted,
         [HoldNext]_allVars
  PROVE  SendsAccounted'
<1> USE DEF holdRows, release
<1>a. \A w \in Workers : pc[w] = "handling" => cur[w] \in Jobs
  BY DEF QueueInv, BusyNamesRow, Busy
<1>b. \A v, w \in Workers : pc[v] = "handling" /\ pc[w] = "handling" /\ v # w => cur[v] # cur[w]
  BY ApartHandlers
<1>c. /\ pc \in [Workers -> PC]
      /\ step = [w \in Workers |-> step[w]] /\ hold = [j \in Jobs |-> hold[j]]
      /\ spool \in [Jobs -> Nat] /\ seams \in [Jobs -> Nat]
      /\ \A w \in Workers : pc[w] # "handling" => step[w] = "begin"
  BY DEF QueueInv, TypeOK, HoldTypeOK
<1>d. \A w \in Workers : In(w, "expire") \/ In(w, "spooled") \/ In(w, "send") \/ In(w, "record")
        => Fenced(w)
  BY DEF ReleaseOwnsHold, In
<1>1. CASE HoldOperator
  <2>1. PICK j \in Jobs :
          \/ \E d \in 1..MaxDelay : Schedule(j, d)
          \/ \E d \in 1..MaxDelay : RescheduleHold(j, d)
          \/ CancelHold(j)
          \/ Cancel(j) /\ UNCHANGED holdVars
    BY <1>1 DEF HoldOperator
  <2>2. pc' = pc /\ cur' = cur /\ step' = step /\ spool' = spool /\ seams' = seams
    BY <2>1 DEF Schedule, Create, RescheduleHold, Reschedule, CancelHold, Cancel, locals, vars,
       holdVars
  <2>3. \A k \in Jobs : hold'[k] = "released" <=> hold[k] = "released"
    BY <2>1, <1>c DEF Schedule, RescheduleHold, CancelHold, holdVars
  <2> QED
    BY <2>2, <2>3, AccountKept DEF In
<1>2. ASSUME NEW w \in Workers,
             SweepStalled(w) \/ SweepFails(w) \/ ClaimHold(w)
               \/ \E permanent \in BOOLEAN : SendRefused(w, permanent)
      PROVE  SendsAccounted'
  BY <1>2, <1>a, <1>c, AccountKept DEF SweepStalled, SweepFails, Stalled, ClaimHold, ClaimableHold,
     SendRefused, GoTo, In, vars
<1>3. ASSUME NEW w \in Workers,
             NothingToRelease(w) \/ ClaimHoldFails(w) \/ Expire(w) \/ RecordFailure(w)
               \/ RecordFails(w)
      PROVE  SendsAccounted'
  <2>1. Returns(w) \/ Throws(w, FALSE) \/ Throws(w, refused[w])
    BY <1>3 DEF NothingToRelease, ClaimHoldFails, Expire, RecordFailure, RecordFails
  <2>2. /\ pc[w] = "handling" /\ pc'[w] # "handling" /\ cur' = cur
        /\ \A v \in Workers : v # w => pc'[v] = pc[v] /\ step'[v] = step[v]
    BY <1>c, <2>1
    DEF Returns, Throws, HandlerReturns, HandlerThrows, ForgetRelease
  <2>3. step[w] # "spooled" /\ spool' = spool /\ seams' = seams
    BY <1>3 DEF NothingToRelease, ClaimHoldFails, Expire, RecordFailure, RecordFails, In
  <2>4. \A j \in Jobs : hold'[j] = "released" <=> hold[j] = "released"
    BY <1>3, <1>a, <1>c, <2>2 DEF NothingToRelease, ClaimHoldFails, Expire, RecordFailure,
       RecordFails, Fenced
  <2> QED
    BY <2>2, <2>3, <2>4, AccountKept DEF In
<1>4. ASSUME NEW w \in Workers, Submit(w) PROVE SendsAccounted'
  <2>1. /\ pc[w] = "handling" /\ step[w] = "send" /\ pc' = pc /\ cur' = cur
        /\ step' = [step EXCEPT ![w] = "spooled"]
        /\ hold' = hold /\ seams' = seams /\ spool' = [spool EXCEPT ![cur[w]] = spool[cur[w]] + 1]
    BY <1>4 DEF Submit, GoTo, In, vars
  <2>2. hold[cur[w]] # "released" /\ ~Spooling(cur[w]) /\ cur[w] \in Jobs
    BY <1>a, <1>b, <1>d, <2>1 DEF Fenced, Spooling, Executing, In
  <2>3. Spooling(cur[w])'
    BY <1>c, <2>1 DEF Spooling, Executing, In, Busy
  <2>4. \A j \in Jobs : j # cur[w] => (Spooling(j)' <=> Spooling(j))
    BY <1>c, <2>1 DEF Spooling, Executing, In, Busy
  <2> QED
    BY <1>c, <2>1, <2>2, <2>3, <2>4 DEF SendsAccounted
<1>5. ASSUME NEW w \in Workers, CommitRelease(w) PROVE SendsAccounted'
  <2>1. /\ pc[w] = "handling" /\ step[w] = "spooled" /\ pc'[w] # "handling" /\ cur' = cur
        /\ \A v \in Workers : v # w => pc'[v] = pc[v] /\ step'[v] = step[v]
        /\ hold' = [hold EXCEPT ![cur[w]] = "released"] /\ seams' = seams /\ spool' = spool
    BY <1>5, <1>c DEF CommitRelease, Returns, HandlerReturns, ForgetRelease, In
  <2>2. Spooling(cur[w]) /\ cur[w] \in Jobs
    BY <1>a, <2>1 DEF Spooling, Executing, In, Busy
  <2>3. \A j \in Jobs : j # cur[w] => (Spooling(j)' <=> Spooling(j))
    BY <2>1 DEF Spooling, Executing, In, Busy
  <2> QED
    BY <1>c, <2>1, <2>2, <2>3 DEF SendsAccounted
<1>6. ASSUME NEW w \in Workers, SeamFails(w) \/ (CrashInRelease(w) /\ In(w, "spooled"))
      PROVE  SendsAccounted'
  <2>1. pc[w] = "handling" /\ step[w] = "spooled"
    BY <1>6 DEF SeamFails, In
  <2>2. PICK j \in Jobs : j = cur[w]
    BY <1>a, <2>1
  <2>3. hold' = hold /\ spool' = spool /\ seams' = [seams EXCEPT ![j] = seams[j] + 1]
    BY <1>6, <2>2 DEF SeamFails, CrashInRelease
  <2>4. /\ step'[w] # "spooled"
        /\ \A v \in Workers : v # w => pc'[v] = pc[v] /\ step'[v] = step[v] /\ cur'[v] = cur[v]
    <3>1. CASE SeamFails(w)
      BY <3>1, <1>c DEF SeamFails, GoTo, vars
    <3>2. CASE CrashInRelease(w)
      BY <3>2, <1>c DEF CrashInRelease, Crash, ForgetJob, ForgetRelease, QueueInv, TypeOK
    <3> QED
      BY <1>6, <3>1, <3>2
  <2>5. hold[j] # "released" /\ Spooling(j)
    BY <1>d, <2>1, <2>2 DEF Fenced, Spooling, Executing, In, Busy
  <2>6. ~Spooling(j)'
    BY <1>b, <1>c, <2>1, <2>2, <2>4 DEF Spooling, Executing, In
  <2>7. \A k \in Jobs : k # j => (Spooling(k)' <=> Spooling(k))
    BY <2>1, <2>2, <2>4 DEF Spooling, Executing, In, Busy
  <2> QED
    BY <1>c, <2>3, <2>5, <2>6, <2>7 DEF SendsAccounted
<1>7. ASSUME NEW w \in Workers, CrashInRelease(w), ~In(w, "spooled") PROVE SendsAccounted'
  BY <1>7, <1>c, AccountKept DEF CrashInRelease, Crash, ForgetJob, ForgetRelease, In, QueueInv,
     TypeOK
<1>8. ASSUME NEW w \in Workers, FencedOff(w) PROVE FALSE
  BY <1>8, <1>d DEF FencedOff
<1>9. ASSUME NEW w \in Workers, Settling(w) \/ Queue(w) PROVE SendsAccounted'
  BY <1>9, <1>c, QueueFrame, AccountKept DEF In, holdVars, QueueInv
<1>10. CASE HoldTick \/ UNCHANGED allVars
  BY <1>10, AccountKept DEF HoldTick, Tick, In, locals, allVars, vars, holdVars
<1> QED
  BY <1>1, <1>2, <1>3, <1>4, <1>5, <1>6, <1>7, <1>8, <1>9, <1>10
  DEF HoldNext, Release, ReleaseFaults

-----------------------------------------------------------------------------
(* The instant.                                                            *)

\* A step that reopens no hold and moves no instant keeps the job from coming
\* due before its hold: a claim needs a due row, and what the reaper or a
\* failed attempt puts back was running.
LEMMA QueueNotBefore ==
  ASSUME QueueInv, ClaimInv, JobNotBeforeHold,
         \A j \in Jobs : hold'[j] \in {"pending", "releasing"} =>
           hold[j] \in {"pending", "releasing"} /\ sched[j] \in Int /\ sched'[j] = sched[j],
         \/ UNCHANGED vars
         \/ \E j \in Jobs : Cancel(j)
         \/ \E w \in Workers : Cycle(w) \/ Execution(w) \/ Failure(w) \/ Recovery(w)
  PROVE  JobNotBeforeHold'
<1> USE BoundsAssumption
    DEF QueueInv, TypeOK, BusyNamesRow, JobNotBeforeHold, Executing, Busy
<1>1. CASE UNCHANGED vars
  BY <1>1 DEF vars
<1>2. ASSUME NEW j \in Jobs, Cancel(j) PROVE JobNotBeforeHold'
  BY <1>2 DEF Cancel, locals
<1>3. ASSUME NEW w \in Workers, Reap(w) PROVE JobNotBeforeHold'
  BY <1>3 DEF Reap, Stale
<1>4. ASSUME NEW w \in Workers, NEW j \in Jobs, Claim(w, j) PROVE JobNotBeforeHold'
  BY <1>4 DEF Claim, Oldest, Claimable
<1>5. ASSUME NEW w \in Workers,
             BeginCycle(w) \/ EndDrain(w) \/ ReapFails(w) \/ ClaimFails(w)
               \/ FailAttemptFails(w) \/ Crash(w) \/ Recovery(w)
      PROVE  JobNotBeforeHold'
  <2>1. /\ status' = status /\ due' = due /\ pc'[w] \notin Busy
        /\ \A v \in Workers : v # w => pc'[v] = pc[v] /\ cur'[v] = cur[v]
    BY <1>5 DEF BeginCycle, EndDrain, ReapFails, ClaimFails, FailAttemptFails, Crash, Recovery,
       SessionReaped, Restart, LeaveCycle, ForgetJob, rows, locals
  <2> QED
    BY <2>1
<1>6. ASSUME NEW w \in Workers, NEW permanent \in BOOLEAN,
             HandlerReturns(w) \/ HandlerThrows(w, permanent) \/ CompleteFails(w)
               \/ Heartbeat(w) \/ SessionDropped(w)
      PROVE  JobNotBeforeHold'
  <2>1. /\ status' = status /\ due' = due /\ cur' = cur
        /\ \A v \in Workers : pc'[v] \in Busy => pc[v] \in Busy
    BY <1>6 DEF HandlerReturns, HandlerThrows, CompleteFails, Heartbeat, SessionDropped, rows,
       locals
  <2> QED
    BY <2>1
<1>7. ASSUME NEW w \in Workers, CompleteJob(w) \/ FailAttempt(w) PROVE JobNotBeforeHold'
  <2>1. PICK j \in Jobs : j = cur[w] /\ Executing(w, j)
    BY <1>7 DEF CompleteJob, FailAttempt
  <2>2. /\ pc'[w] \notin Busy
        /\ \A v \in Workers : v # w => pc'[v] = pc[v] /\ cur'[v] = cur[v]
        /\ status'[j] # "running" \/ status'[j] = status[j]
        /\ \A k \in Jobs : k # j => status'[k] = status[k] /\ due'[k] = due[k]
        /\ status[j] = "queued" => status'[j] = "queued" /\ due'[j] = due[j]
    BY <1>7, <2>1 DEF CompleteJob, FailAttempt, BackToClaiming, ForgetJob, Hit, Exhausted
  <2> QED
    BY <2>1, <2>2
<1> QED
  BY <1>1, <1>2, <1>3, <1>4, <1>5, <1>6, <1>7 DEF Cycle, Execution, Failure

\* Every step: scheduling and rescheduling give both rows the same instant,
\* and the clock brings them nearer together.
LEMMA StepNotBefore ==
  ASSUME QueueInv, ClaimInv, HoldTypeOK, JobNotBeforeHold, [HoldNext]_allVars
  PROVE  JobNotBeforeHold'
<1>a. \A w \in Workers : pc[w] = "handling" => cur[w] \in Jobs
  BY DEF QueueInv, BusyNamesRow, Busy
<1>b. \A w \in Workers, j \in Jobs : Executing(w, j) => status[j] \in {"running", "cancelled"}
  BY DEF ClaimInv, ExecutorOwnsRow
<1>c. /\ hold = [j \in Jobs |-> hold[j]] /\ sched \in [Jobs -> Int] /\ due \in [Jobs -> Int]
      /\ status = [j \in Jobs |-> status[j]]
  BY DEF QueueInv, TypeOK, HoldTypeOK
<1>1. ASSUME NEW j \in Jobs, NEW d \in 1..MaxDelay, Schedule(j, d) \/ RescheduleHold(j, d)
      PROVE  JobNotBeforeHold'
  <2>1. /\ status[j] \in {"absent", "queued"} /\ status'[j] = "queued"
        /\ \A k \in Jobs : k # j => /\ hold'[k] = hold[k] /\ status'[k] = status[k]
                                    /\ sched'[k] = sched[k] /\ due'[k] = due[k]
        /\ pc' = pc /\ cur' = cur
    BY <1>1, <1>c DEF Schedule, Create, RescheduleHold, Reschedule, locals
  <2>2. sched'[j] = d /\ due'[j] = d /\ d \in Int
    BY <1>1, <1>c, BoundsAssumption DEF Schedule, Create, RescheduleHold, Reschedule
  <2> QED
    BY <1>b, <2>1, <2>2 DEF JobNotBeforeHold, Executing
<1>2. ASSUME NEW j \in Jobs, CancelHold(j) PROVE JobNotBeforeHold'
  BY <1>2, <1>c, QueueNotBefore DEF CancelHold
<1>3. ASSUME NEW j \in Jobs, Cancel(j), UNCHANGED holdVars PROVE JobNotBeforeHold'
  BY <1>3, <1>c, QueueNotBefore DEF holdVars, holdRows
<1>4. ASSUME NEW w \in Workers, Release(w) \/ ReleaseFaults(w) PROVE JobNotBeforeHold'
  <2>1. /\ sched' = sched
        /\ \A j \in Jobs : hold'[j] \in {"pending", "releasing"} =>
             hold[j] \in {"pending", "releasing"}
    BY <1>4, <1>a, <1>c DEF Release, ReleaseFaults, SweepStalled, ClaimHold, ClaimableHold,
       NothingToRelease, Expire, SendRefused, Submit, CommitRelease, FencedOff, RecordFailure,
       SweepFails, ClaimHoldFails, SeamFails, RecordFails, CrashInRelease, Fenced, In, holdRows
  <2>2. \/ UNCHANGED vars \/ Crash(w) \/ HandlerReturns(w)
        \/ \E permanent \in BOOLEAN : HandlerThrows(w, permanent)
    BY <1>4 DEF Release, ReleaseFaults, SweepStalled, ClaimHold, NothingToRelease, Expire,
       SendRefused, Submit, CommitRelease, FencedOff, RecordFailure, SweepFails, ClaimHoldFails,
       SeamFails, RecordFails, CrashInRelease, GoTo, Returns, Throws, HoldTypeOK
  <2>3. UNCHANGED vars \/ Execution(w) \/ Failure(w)
    BY <2>2 DEF Execution, Failure
  <2> QED
    BY <1>c, <2>1, <2>3, QueueNotBefore
<1>5. ASSUME NEW w \in Workers, Settling(w) \/ Queue(w) PROVE JobNotBeforeHold'
  <2>1. Cycle(w) \/ Execution(w) \/ Failure(w) \/ Recovery(w)
    BY <1>5 DEF Settling, Queue, Execution, Failure
  <2>2. hold' = hold /\ sched' = sched
    BY <1>5 DEF Settling, Queue, holdVars, holdRows
  <2> QED
    BY <1>c, <2>1, <2>2, QueueNotBefore
<1>6. CASE HoldTick
  <2>1. status' = status /\ pc' = pc /\ cur' = cur /\ hold' = hold
    BY <1>6 DEF HoldTick, Tick, locals
  <2>2. /\ \A j \in Jobs : due'[j] = IF status[j] = "queued" /\ due[j] > -MaxLag
                                     THEN due[j] - 1 ELSE due[j]
        /\ \A j \in Jobs : sched'[j] =
             IF hold[j] \in {"pending", "releasing"} /\ sched[j] >= -Ceiling
             THEN sched[j] - 1 ELSE sched[j]
    BY <1>6 DEF HoldTick, Tick
  <2> QED
    BY <1>c, <2>1, <2>2, BoundsAssumption, CeilingAssumption DEF JobNotBeforeHold, Executing
<1>7. CASE UNCHANGED allVars
  BY <1>7, <1>c, QueueNotBefore DEF allVars, holdVars, holdRows
<1> QED
  BY <1>1, <1>2, <1>3, <1>4, <1>5, <1>6, <1>7 DEF HoldNext, HoldOperator

-----------------------------------------------------------------------------
(* Reliable heartbeats and prompt releases.                                *)

\* HoldInv is inductive on top of the queue's own invariants.
THEOREM HoldInvHolds ==
  HeartbeatsReliable /\ ReleasesPrompt => (HoldSpec => []HoldInv)
<1> SUFFICES ASSUME HeartbeatsReliable, ReleasesPrompt PROVE HoldSpec => []HoldInv
  OBVIOUS
<1>1. HoldInit => HoldInv
  BY InitHoldType
  DEF HoldInit, Init, HoldInv, ReleaseOwnsHold, SendsAccounted, JobNotBeforeHold, Spooling,
      Executing, In, Busy
<1>2. QueueInv /\ ClaimInv /\ HoldTypeOK /\ HoldTypeOK' /\ HoldInv /\ [HoldNext]_allVars
        => HoldInv'
  BY StepOwnsHold, StepAccounted, StepNotBefore DEF HoldInv, ClaimInv
<1>3. HoldSpec => []ClaimInv
  BY ReleaseRunsOnQueue, ClaimInvHolds, PTL
<1>4. QED
  BY <1>1, <1>2, <1>3, HoldTypesHold, PTL DEF HoldSpec

\* Nothing is ever handed to SQLBox before its instant, and every send_sms row
\* is the one of a released hold, of a send about to commit, or of a send that
\* was cut off in the seam: never two, and none while the hold says unsent.
THEOREM ReliableSends ==
  HeartbeatsReliable /\ ReleasesPrompt =>
    (HoldSpec => [](SendsAccounted /\ NeverReleasedEarly))
<1> SUFFICES ASSUME HeartbeatsReliable, ReleasesPrompt
             PROVE  HoldSpec => [](SendsAccounted /\ NeverReleasedEarly)
  OBVIOUS
<1>1. QueueInv /\ HoldInv => SendsAccounted /\ NeverReleasedEarly
  BY DEF QueueInv, BusyNamesRow, HoldInv, ReleaseOwnsHold, JobNotBeforeHold, NeverReleasedEarly,
         Fenced, Executing, Busy
<1>2. QED
  BY <1>1, HoldInvHolds, HoldTypesHold, PTL

\* Nothing is spooled for a hold that is cancelled, released, failed or
\* expired: what the record says of it stays true.
THEOREM SettledMeansNoSend ==
  HeartbeatsReliable /\ ReleasesPrompt => (HoldSpec => NoSendAfterSettled)
<1> SUFFICES ASSUME HeartbeatsReliable, ReleasesPrompt PROVE HoldSpec => NoSendAfterSettled
  OBVIOUS
<1>1. QueueInv /\ HoldInv /\ [HoldNext]_allVars =>
        [\A j \in Jobs : hold[j] \in HoldTerminal => spool'[j] = spool[j]]_allVars
  <2> SUFFICES ASSUME QueueInv, HoldInv, [HoldNext]_allVars,
                      NEW j \in Jobs, hold[j] \in HoldTerminal
               PROVE  spool'[j] = spool[j]
    OBVIOUS
  <2>1. CASE spool' = spool
    BY <2>1
  <2>2. ASSUME NEW w \in Workers, Submit(w) PROVE spool'[j] = spool[j]
    <3>1. pc[w] = "handling" /\ step[w] = "send"
      BY <2>2 DEF Submit, In
    <3>2. hold[cur[w]] = "releasing"
      BY <3>1 DEF HoldInv, ReleaseOwnsHold, Fenced
    <3>3. cur[w] # j
      BY <3>2 DEF HoldTerminal
    <3> QED
      BY <2>2, <3>3 DEF Submit, HoldInv, HoldTypeOK
  <2> QED
    BY <2>1, <2>2
    DEF HoldNext, HoldOperator, Release, ReleaseFaults, Settling, Queue, Schedule, RescheduleHold,
        CancelHold, SweepStalled, ClaimHold, NothingToRelease, Expire, SendRefused, CommitRelease,
        FencedOff, RecordFailure, SweepFails, ClaimHoldFails, SeamFails, RecordFails,
        CrashInRelease, HoldTick, holdRows, holdVars, allVars
<1>2. QED
  BY <1>1, HoldInvHolds, HoldTypesHold, PTL DEF HoldSpec, NoSendAfterSettled

=============================================================================
