--------------------------- MODULE ScheduledSend ---------------------------
(***************************************************************************)
(* Held single messages (scheduled_messages, kind 'message') on top of the *)
(* job queue: ScheduledSendService writes a hold and its release job in    *)
(* one transaction, and the queue's handler for that job replays the held  *)
(* request through MessageSendService when it is due.                      *)
(*                                                                         *)
(* The idempotency key gives a hold exactly one release job, so a hold is  *)
(* named by its job: j is both the api_jobs row and the hold.  release()   *)
(* is what a worker does while pc[w] = "handling"; step[w] is where it is  *)
(* in it.  Every awaited statement of release() is a step of its own.      *)
(*                                                                         *)
(* The send is one JKANNEL transaction, but its INSERT into send_sms goes  *)
(* to SQLBox, another database, and commits there at once: Submit is that  *)
(* INSERT, CommitRelease the onSubmitted fence and the commit after it.    *)
(* spool counts the send_sms rows and no step can take one back.           *)
(*                                                                         *)
(* Every step here is a step of JobQueue or leaves its variables alone.    *)
(* A tick is longer than the minute of grace that the scheduling code      *)
(* grants, so the grace does not show.                                     *)
(***************************************************************************)
EXTENDS JobQueue

CONSTANTS
  Ceiling,        \* SCHEDULED_SEND_MAX_LATENESS_MINUTES, in ticks
  MaxDbFaults,    \* bound: rejected database calls of release()
  JobsApi,        \* whether operators also cancel through POST /jobs/:id/cancel
  ReleasesPrompt  \* whether a live release ends within the claim timeout

ASSUME CeilingAssumption == Ceiling \in Nat /\ MaxDbFaults \in Nat
ASSUME ReplicasAssumption == IsFiniteSet(Workers)
ASSUME RegimeAssumption == JobsApi \in BOOLEAN /\ ReleasesPrompt \in BOOLEAN

VARIABLES
  hold,              \* scheduled_messages.status, "absent" before the INSERT
  release_attempts,  \* scheduled_messages.release_attempts
  claimAge,          \* now() - claimed_at, meaningful while releasing
  sched,             \* scheduled_at - now(), meaningful until it is settled
  spool,             \* send_sms rows written for the hold
  seams,             \* history: sends cut off between INSERT and COMMIT
  step,              \* where a worker is in release()
  fence,             \* the release_attempts its claim returned
  overdue,           \* whether release() began past the staleness ceiling
  refused,           \* whether the error in hand is a permanent refusal
  dbFaults           \* how many of release()'s database calls were rejected

holdRows  == <<hold, release_attempts, claimAge, sched, spool, seams>>
release   == <<step, fence, overdue, refused>>
holdVars  == <<holdRows, release, dbFaults>>
allVars   == <<vars, holdVars>>

HoldTerminal == {"released", "cancelled", "failed", "expired"}

\* Types, and a worker has a step and a fence only while its handler runs.
HoldTypeOK ==
  /\ hold \in [Jobs -> {"absent", "pending", "releasing"} \cup HoldTerminal]
  /\ release_attempts \in [Jobs -> Nat]
  /\ claimAge \in [Jobs -> 0..(StaleAfter + 1)]
  /\ sched \in [Jobs -> Int]
  /\ spool \in [Jobs -> Nat]
  /\ seams \in [Jobs -> Nat]
  /\ step \in [Workers -> {"begin", "claim", "expire", "send", "spooled", "record"}]
  /\ fence \in [Workers -> Nat]
  /\ overdue \in [Workers -> BOOLEAN]
  /\ refused \in [Workers -> BOOLEAN]
  /\ dbFaults \in 0..MaxDbFaults
  /\ \A w \in Workers : pc[w] # "handling" => step[w] = "begin" /\ fence[w] = 0

HoldInit ==
  /\ Init
  /\ hold = [j \in Jobs |-> "absent"]
  /\ release_attempts = [j \in Jobs |-> 0]
  /\ claimAge = [j \in Jobs |-> 0]
  /\ sched = [j \in Jobs |-> 0]
  /\ spool = [j \in Jobs |-> 0]
  /\ seams = [j \in Jobs |-> 0]
  /\ step = [w \in Workers |-> "begin"]
  /\ fence = [w \in Workers |-> 0]
  /\ overdue = [w \in Workers |-> FALSE]
  /\ refused = [w \in Workers |-> FALSE]
  /\ dbFaults = 0

-----------------------------------------------------------------------------
(* What operators do.                                                      *)

\* submitMessage with an instant that requiresHold, and enqueueRelease: the
\* hold and its job are one transaction, so neither exists without the other.
Schedule(j, delay) ==
  /\ hold[j] = "absent"
  /\ Create(j, delay)
  /\ hold' = [hold EXCEPT ![j] = "pending"]
  /\ sched' = [sched EXCEPT ![j] = delay]
  /\ UNCHANGED <<release_attempts, claimAge, spool, seams, release, dbFaults>>

\* cancel: only a pending hold; cancelOn may find the job already settled.
CancelHold(j) ==
  /\ hold[j] = "pending"
  /\ hold' = [hold EXCEPT ![j] = "cancelled"]
  /\ Cancel(j) \/ (status[j] \in Terminal /\ UNCHANGED vars)
  /\ UNCHANGED <<release_attempts, claimAge, sched, spool, seams, release, dbFaults>>

\* Mutation: only the hold moves.
RescheduleHoldAlone(j, delay) ==
  /\ hold[j] = "pending" /\ status[j] = "queued"
  /\ sched' = [sched EXCEPT ![j] = delay]
  /\ UNCHANGED <<vars, hold, release_attempts, claimAge, spool, seams, release, dbFaults>>

\* reschedule: refused once the job was claimed, so both rows move or neither.
\* A release() that read the clock before the move finds the hold in time.
RescheduleHold(j, delay) ==
  /\ hold[j] = "pending"
  /\ Reschedule(j, delay)
  /\ sched' = [sched EXCEPT ![j] = delay]
  /\ overdue' = [w \in Workers |-> overdue[w] /\ cur[w] # j]
  /\ UNCHANGED <<hold, release_attempts, claimAge, spool, seams, step, fence, refused, dbFaults>>

-----------------------------------------------------------------------------
(* release(), step by step.                                                *)

In(w, s) == pc[w] = "handling" /\ step[w] = s

\* The release goes on to step s.
GoTo(w, s) == step' = [step EXCEPT ![w] = s] /\ UNCHANGED vars

\* The locals of release() go out of scope.
ForgetRelease(w) ==
  /\ step' = [step EXCEPT ![w] = "begin"]
  /\ fence' = [fence EXCEPT ![w] = 0]
  /\ overdue' = [overdue EXCEPT ![w] = FALSE]
  /\ refused' = [refused EXCEPT ![w] = FALSE]

Returns(w) == HandlerReturns(w) /\ ForgetRelease(w)
Throws(w, permanent) == HandlerThrows(w, permanent) /\ ForgetRelease(w)

DbFault == dbFaults < MaxDbFaults /\ dbFaults' = dbFaults + 1

\* classifyMissedWindow: past the staleness ceiling the hold expires.
PastCeiling(j) == sched[j] < -Ceiling

\* Mutation: the sweep forgets how old the claim is.
StalledAnyClaim(j) == hold[j] = "releasing" /\ PastCeiling(j)

\* The WHERE clause of sweepStalled.
Stalled(j) == hold[j] = "releasing" /\ claimAge[j] > StaleAfter /\ PastCeiling(j)

\* release() reads the clock, then sweepStalled gives up every hold of the
\* tenant that has been releasing too long.
SweepStalled(w) ==
  /\ In(w, "begin")
  /\ overdue' = [overdue EXCEPT ![w] = PastCeiling(cur[w])]
  /\ hold' = [j \in Jobs |-> IF Stalled(j) THEN "failed" ELSE hold[j]]
  /\ GoTo(w, "claim")
  /\ UNCHANGED <<release_attempts, claimAge, sched, spool, seams, fence, refused, dbFaults>>

\* A sweep that fails is ignored.
SweepFails(w) ==
  /\ DbFault /\ In(w, "begin")
  /\ overdue' = [overdue EXCEPT ![w] = PastCeiling(cur[w])]
  /\ GoTo(w, "claim")
  /\ UNCHANGED <<holdRows, fence, refused>>

\* Mutation: the guarded writes check the fence and not the status.
FencedAnyStatus(w) == release_attempts[cur[w]] = fence[w]

\* The fence: every later write of this release matches only this claim.
Fenced(w) == hold[cur[w]] = "releasing" /\ release_attempts[cur[w]] = fence[w]

\* Mutation: the claim only leaves cancelled holds alone.
ClaimableReleased(j) == hold[j] \notin {"absent", "cancelled"}

\* status IN ('pending','releasing')
ClaimableHold(j) == hold[j] \in {"pending", "releasing"}

\* claim: pending or releasing becomes releasing under a new fence, and the
\* verdict on the missed window follows.
ClaimHold(w) ==
  LET j == cur[w] IN
  /\ In(w, "claim")
  /\ ClaimableHold(j)
  /\ hold' = [hold EXCEPT ![j] = "releasing"]
  /\ release_attempts' = [release_attempts EXCEPT ![j] = release_attempts[j] + 1]
  /\ claimAge' = [claimAge EXCEPT ![j] = 0]
  /\ fence' = [fence EXCEPT ![w] = release_attempts[j] + 1]
  /\ GoTo(w, IF overdue[w] THEN "expire" ELSE "send")
  /\ UNCHANGED <<sched, spool, seams, overdue, refused, dbFaults>>

\* claim finds the hold settled: nothing to release, the job is a success.
NothingToRelease(w) ==
  /\ In(w, "claim")
  /\ ~ClaimableHold(cur[w])
  /\ Returns(w)
  /\ UNCHANGED <<holdRows, dbFaults>>

\* The claim's or the expiry's transaction is rejected.  Both are outside the
\* try block of release(): nothing is recorded on the hold.
ClaimHoldFails(w) ==
  /\ DbFault
  /\ In(w, "claim") \/ In(w, "expire")
  /\ Throws(w, FALSE)
  /\ UNCHANGED holdRows

\* Mutation: the UPDATE is guarded on status='pending'.
ExpirePending(w) ==
  /\ In(w, "expire")
  /\ hold' = IF hold[cur[w]] = "pending" THEN [hold EXCEPT ![cur[w]] = "expired"] ELSE hold
  /\ Returns(w)
  /\ UNCHANGED <<release_attempts, claimAge, sched, spool, seams, dbFaults>>

\* The expire branch; whether its UPDATE matched is not looked at.
Expire(w) ==
  /\ In(w, "expire")
  /\ hold' = IF Fenced(w) THEN [hold EXCEPT ![cur[w]] = "expired"] ELSE hold
  /\ Returns(w)
  /\ UNCHANGED <<release_attempts, claimAge, sched, spool, seams, dbFaults>>

\* The send path refuses, or fails before its INSERT into send_sms.
SendRefused(w, permanent) ==
  /\ In(w, "send")
  /\ refused' = [refused EXCEPT ![w] = permanent]
  /\ GoTo(w, "record")
  /\ UNCHANGED <<holdRows, fence, overdue, dbFaults>>

\* sqlbox.submit: the INSERT into send_sms, committed on its own.
Submit(w) ==
  /\ In(w, "send")
  /\ spool' = [spool EXCEPT ![cur[w]] = spool[cur[w]] + 1]
  /\ GoTo(w, "spooled")
  /\ UNCHANGED <<hold, release_attempts, claimAge, sched, seams, fence, overdue, refused, dbFaults>>

\* Mutation: the hold is marked before the INSERT.
CommitEarly(w) ==
  /\ In(w, "send")
  /\ Fenced(w)
  /\ hold' = [hold EXCEPT ![cur[w]] = "released"]
  /\ Returns(w)
  /\ UNCHANGED <<release_attempts, claimAge, sched, spool, seams, dbFaults>>

\* onSubmitted matches its row and the send's transaction commits.
CommitRelease(w) ==
  /\ In(w, "spooled")
  /\ Fenced(w)
  /\ hold' = [hold EXCEPT ![cur[w]] = "released"]
  /\ Returns(w)
  /\ UNCHANGED <<release_attempts, claimAge, sched, spool, seams, dbFaults>>

\* onSubmitted matches nothing and throws: the send's transaction rolls back.
FencedOff(w) ==
  /\ In(w, "spooled")
  /\ ~Fenced(w)
  /\ GoTo(w, "record")
  /\ UNCHANGED <<holdRows, fence, overdue, refused, dbFaults>>

\* Mutation: the send is tried again in place.
SeamSendsAgain(w) ==
  /\ DbFault /\ In(w, "spooled")
  /\ seams' = [seams EXCEPT ![cur[w]] = seams[cur[w]] + 1]
  /\ GoTo(w, "send")
  /\ UNCHANGED <<hold, release_attempts, claimAge, sched, spool, fence, overdue, refused>>

\* The transaction is lost between the INSERT into send_sms and its COMMIT.
SeamFails(w) ==
  /\ DbFault /\ In(w, "spooled")
  /\ seams' = [seams EXCEPT ![cur[w]] = seams[cur[w]] + 1]
  /\ GoTo(w, "record")
  /\ UNCHANGED <<hold, release_attempts, claimAge, sched, spool, fence, overdue, refused>>


\* context.attempt >= context.maxAttempts
LastAttempt(w) == att[w] >= MaxAttempts[cur[w]]

\* recordReleaseFailure, then the error goes on to the queue.
RecordFailure(w) ==
  LET terminal == refused[w] \/ LastAttempt(w)
  IN /\ In(w, "record")
     /\ hold' = IF Fenced(w)
                THEN [hold EXCEPT ![cur[w]] = IF terminal THEN "failed" ELSE "pending"]
                ELSE hold
     /\ Throws(w, refused[w])
     /\ UNCHANGED <<release_attempts, claimAge, sched, spool, seams, dbFaults>>

\* recordReleaseFailure's own transaction is rejected, which is swallowed.
RecordFails(w) ==
  /\ DbFault /\ In(w, "record")
  /\ Throws(w, refused[w])
  /\ UNCHANGED holdRows

\* The process dies; a send that was between INSERT and COMMIT rolls back.
CrashInRelease(w) ==
  /\ Crash(w)
  /\ ForgetRelease(w)
  /\ seams' = IF In(w, "spooled") THEN [seams EXCEPT ![cur[w]] = seams[cur[w]] + 1] ELSE seams
  /\ UNCHANGED <<hold, release_attempts, claimAge, sched, spool, dbFaults>>

-----------------------------------------------------------------------------
\* With prompt releases no live worker is still inside one whose claim is as
\* old as the claim timeout.
ReleasesInTime ==
  \A w \in Workers :
    pc[w] = "handling" /\ step[w] \notin {"begin", "claim"} => claimAge[cur[w]] < StaleAfter

HoldTick ==
  /\ ReleasesPrompt => ReleasesInTime
  /\ Tick
  /\ sched' = [j \in Jobs |->
       IF hold[j] \in {"pending", "releasing"} /\ sched[j] >= -Ceiling
       THEN sched[j] - 1 ELSE sched[j]]
  /\ claimAge' = [j \in Jobs |->
       IF hold[j] = "releasing" /\ claimAge[j] <= StaleAfter
       THEN claimAge[j] + 1 ELSE claimAge[j]]
  /\ UNCHANGED <<hold, release_attempts, spool, seams, release, dbFaults>>

HoldOperator == \E j \in Jobs :
  \/ \E d \in 1..MaxDelay : Schedule(j, d)
  \/ \E d \in 1..MaxDelay : RescheduleHold(j, d)
  \/ CancelHold(j)
  \/ JobsApi /\ Cancel(j) /\ UNCHANGED holdVars

Release(w) ==
  \/ SweepStalled(w) \/ ClaimHold(w) \/ NothingToRelease(w) \/ Expire(w)
  \/ \E permanent \in BOOLEAN : SendRefused(w, permanent)
  \/ Submit(w) \/ CommitRelease(w) \/ FencedOff(w) \/ RecordFailure(w)

ReleaseFaults(w) ==
  \/ SweepFails(w) \/ ClaimHoldFails(w) \/ SeamFails(w) \/ RecordFails(w)
  \/ CrashInRelease(w)

\* The worker outside release().
Settling(w) == (CompleteJob(w) \/ FailAttempt(w)) /\ UNCHANGED holdVars

Queue(w) ==
  /\ \/ Cycle(w) \/ Heartbeat(w) \/ Recovery(w)
     \/ ReapFails(w) \/ ClaimFails(w) \/ CompleteFails(w) \/ FailAttemptFails(w)
     \/ SessionDropped(w)
  /\ UNCHANGED holdVars

HoldNext ==
  \/ HoldOperator
  \/ \E w \in Workers : Release(w) \/ ReleaseFaults(w) \/ Settling(w) \/ Queue(w)
  \/ HoldTick

HoldSpec == HoldInit /\ [][HoldNext]_allVars

\* As in JobQueue, and every await of release() settles.
HoldFairness ==
  /\ WF_allVars(HoldTick)
  /\ \A w \in Workers :
       /\ WF_allVars(Release(w) \/ Settling(w))
       /\ WF_allVars(Cycle(w) /\ UNCHANGED holdVars)
       /\ WF_allVars(Heartbeat(w) /\ UNCHANGED holdVars)
       /\ WF_allVars(Recovery(w) /\ UNCHANGED holdVars)

HoldFairSpec == HoldSpec /\ HoldFairness

-----------------------------------------------------------------------------
(* Properties.                                                             *)

Spooling(j) == \E w \in Workers : Executing(w, j) /\ In(w, "spooled")

\* "one send, not two", and releasing "provably means not sent": apart from
\* sends cut off in the documented seam, a message is in the spool once when
\* its hold is released or its send is about to commit, and not at all while
\* the hold is anything else.
SendsAccounted ==
  \A j \in Jobs :
    spool[j] = seams[j] + IF hold[j] = "released" \/ Spooling(j) THEN 1 ELSE 0

\* Nothing is spooled for a hold that an operator cancelled, that is already
\* released, or that is on record as failed or expired: "The message was NOT
\* sent" stays true.
NoSendAfterSettled ==
  [][\A j \in Jobs : hold[j] \in HoldTerminal => spool'[j] = spool[j]]_allVars

\* Whatever stale workers do, the fence keeps the record straight: a settled
\* hold is never reopened or relabelled, and the fence never moves back.
SettledHoldStays ==
  [][\A j \in Jobs :
       /\ hold[j] \in HoldTerminal => hold'[j] = hold[j]
       /\ release_attempts'[j] >= release_attempts[j]]_allVars

\* No hold is on record as released without a message in the spool, and a
\* cut-off send never passes for the release.
ReleasedMeansSpooled ==
  \A j \in Jobs : hold[j] = "released" => spool[j] > seams[j]

\* Even when stale workers send what another released, duplicates are bounded:
\* each send_sms row cost its hold a claim, each claim its job an attempt, and
\* the CHECK on attempts ends that at max_attempts + 1.
SendsCostAttempts ==
  \A j \in Jobs :
    /\ spool[j] <= release_attempts[j] /\ release_attempts[j] <= attempts[j]
    /\ attempts[j] <= MaxAttempts[j] + 1

\* A message is never handed to SQLBox before its instant, whatever retries,
\* the reaper and rescheduling did to the hold and to its job.
NeverReleasedEarly ==
  \A w \in Workers :
    pc[w] = "handling" /\ step[w] \in {"send", "spooled"} => sched[cur[w]] <= 0

\* "there is no path on which a hold is silently forgotten": when its job is
\* over, having returned or having failed for good without a fault, the hold is
\* settled.
NotForgotten ==
  \A j \in Jobs :
    status[j] = "succeeded" \/ (status[j] = "dead_letter" /\ faults + dbFaults = 0) =>
      hold[j] \in HoldTerminal


-----------------------------------------------------------------------------
(* The strengthenings that make the safety properties inductive when       *)
(* heartbeats are reliable and releases prompt.                            *)

\* After its claim a release owns its hold, and no sweep may take it.
ReleaseOwnsHold ==
  \A w \in Workers :
    pc[w] = "handling" /\ step[w] \notin {"begin", "claim"} =>
      Fenced(w) /\ claimAge[cur[w]] <= StaleAfter

\* The job of an unsettled hold is not due before the hold is.
JobNotBeforeHold ==
  \A j \in Jobs :
    hold[j] \in {"pending", "releasing"} =>
      /\ status[j] = "queued" => sched[j] <= due[j] \/ sched[j] <= 0
      /\ status[j] = "running" => sched[j] <= 0
      /\ \A w \in Workers : Executing(w, j) => sched[j] <= 0

HoldInv == HoldTypeOK /\ ReleaseOwnsHold /\ SendsAccounted /\ JobNotBeforeHold

=============================================================================
