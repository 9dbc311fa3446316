------------------------------ MODULE MoInbound ------------------------------
(***************************************************************************)
(* Pulling inbound (MO) messages from the engine: the mo_ingest_state row, *)
(* the sweeps that read the engine's MO rows past its watermark, and the   *)
(* chain of mo.ingest.poll jobs, each of which enqueues its successor.     *)
(*                                                                         *)
(* Engine rows are numbered from 1.  The queue is the abstract one that    *)
(* JobQueue implements; a finished job's slot is used again, so that a     *)
(* chain of any length runs in a few.  The workers are the ones that drain *)
(* the tenant's queue; a console sweeps through POST /mo/ingest/sweep.     *)
(* Matching and fan-out commit with a message's row and are MoDelivery's.  *)
(***************************************************************************)
EXTENDS Naturals, FiniteSets

CONSTANTS
  PollSlots,      \* bound: mo.ingest.poll jobs that are in flight together
  PollWorkers,    \* workers that execute them
  Consoles,       \* sweeps an operator may have in flight
  NoPoller,       \* NULL
  PollLimit,      \* MO_INGEST_MAX_ATTEMPTS
  PageSize,       \* rows a sweep lists at most
  MaxMo,          \* bound: MO rows the engine records
  MaxPollFaults,  \* bound: crashes, rejected calls and engine outages
  Malformed,      \* rows that prepareIngest rejects
  KeepsUp         \* whether at most PageSize rows are ever past the watermark

ASSUME PollBounds == PollLimit \in Nat \ {0} /\ PollSlots \in Nat /\ PageSize \in Nat
                     /\ MaxMo \in Nat /\ MaxPollFaults \in Nat
ASSUME PollActors ==
  /\ PollWorkers \cap Consoles = {} /\ NoPoller \notin PollWorkers \cup (1..PollSlots)
  /\ IsFiniteSet(PollWorkers)
ASSUME PollRegime == KeepsUp \in BOOLEAN /\ Malformed \subseteq Nat

VARIABLES
  polling,      \* mo_ingest_state.polling_enabled
  moWatermark,  \* mo_ingest_state.watermark_sql_id
  moRows,       \* engine rows that have a mo_messages row
  moLast,       \* the engine's newest MO row
  pollPhase, pollExec, pollRuns,  \* the queue's view of the poll jobs
  pollJob,      \* the job a worker executes
  sweepPc,      \* where a worker or a console is
  fresh,        \* the listed rows it has yet to ingest
  highest,      \* the last row it ingested
  pollFaults,
  pollCut,      \* history: an operator cancelled a poll job
  missed        \* history: polling was last switched on with no job in flight
                \* but those that have already looked for a successor

pollQueue == <<pollPhase, pollExec, pollRuns>>
sweepVars == <<pollJob, sweepPc, fresh, highest>>
moVars == <<polling, moWatermark, moRows, moLast, pollQueue, sweepVars, pollFaults, pollCut,
            missed>>

PollJobs == 1..PollSlots

PQ == INSTANCE JobService
        WITH Jobs <- PollJobs, Workers <- PollWorkers, Nobody <- NoPoller,
             Limit <- [j \in PollJobs |-> PollLimit],
             phase <- pollPhase, executor <- pollExec, runs <- pollRuns

Sweepers == PollWorkers \cup Consoles
SweepSteps == {"idle", "start", "mark", "list", "ingest", "record", "after", "insert", "return"}

\* Types.
MoTypeOK ==
  /\ polling \in BOOLEAN /\ pollCut \in BOOLEAN /\ missed \in BOOLEAN
  /\ moLast \in 0..MaxMo /\ moWatermark \in 0..MaxMo
  /\ moRows \in SUBSET (1..MaxMo)
  /\ pollPhase \in [PollJobs -> {"absent", "waiting", "taken", "over"}]
  /\ pollExec \in [PollJobs -> PollWorkers \cup {NoPoller}]
  /\ pollRuns \in [PollJobs -> 0..PollLimit]
  /\ pollJob \in [PollWorkers -> PollJobs \cup {NoPoller}]
  /\ sweepPc \in [Sweepers -> SweepSteps]
  /\ fresh \in [Sweepers -> SUBSET (1..MaxMo)]
  /\ highest \in [Sweepers -> 0..MaxMo]
  /\ pollFaults \in 0..MaxPollFaults

MoInit ==
  /\ PQ!Init
  /\ polling = FALSE /\ pollCut = FALSE /\ missed = FALSE
  /\ moWatermark = 0 /\ moLast = 0 /\ moRows = {}
  /\ pollJob = [w \in PollWorkers |-> NoPoller]
  /\ sweepPc = [x \in Sweepers |-> "idle"]
  /\ fresh = [x \in Sweepers |-> {}]
  /\ highest = [x \in Sweepers |-> 0]
  /\ pollFaults = 0

PollFault == pollFaults < MaxPollFaults /\ pollFaults' = pollFaults + 1

InFlight(j) == pollPhase[j] \in {"waiting", "taken"}

FreeSlot(j) == ~InFlight(j) /\ pollExec[j] = NoPoller

\* createOn: a new job, in the first free slot.
EnqueuePoll ==
  /\ \E j \in PollJobs :
       /\ FreeSlot(j) /\ \A k \in 1..(j - 1) : ~FreeSlot(k)
       /\ pollPhase' = [pollPhase EXCEPT ![j] = "waiting"]
       /\ pollRuns' = [pollRuns EXCEPT ![j] = 0]
  /\ missed' = FALSE
  /\ UNCHANGED pollExec

-----------------------------------------------------------------------------
(* The engine and the operator.                                            *)

\* bearerbox records an inbound message.
Arrive ==
  /\ moLast < MaxMo
  /\ KeepsUp => moLast < moWatermark + PageSize
  /\ moLast' = moLast + 1
  /\ UNCHANGED <<polling, moWatermark, moRows, pollQueue, sweepVars, pollFaults, pollCut,
                 missed>>

\* A job whose handler is done with looking for a successor.
LookedAlready(j) == \E w \in PollWorkers : pollJob[w] = j /\ sweepPc[w] = "return"

\* setPolling(true): ensurePollScheduled excludes no job, not even one that has
\* seen polling off.  The UPSERT keeps two operators apart.
SwitchOn ==
  /\ polling' = TRUE
  /\ \/ /\ \E j \in PollJobs : InFlight(j)
        /\ missed' = \A j \in PollJobs : InFlight(j) => LookedAlready(j)
        /\ UNCHANGED pollQueue
     \/ (\A j \in PollJobs : ~InFlight(j)) /\ EnqueuePoll
  /\ UNCHANGED <<moWatermark, moRows, moLast, sweepVars, pollFaults, pollCut>>

SwitchOff ==
  /\ polling' = FALSE
  /\ UNCHANGED <<moWatermark, moRows, moLast, pollQueue, sweepVars, pollFaults, pollCut,
                 missed>>

\* POST /jobs/:id/cancel
CancelPoll(j) ==
  /\ PQ!Withdraw(j)
  /\ pollCut' = TRUE
  /\ UNCHANGED <<polling, moWatermark, moRows, moLast, sweepVars, pollFaults, missed>>

-----------------------------------------------------------------------------
(* sweep().                                                                *)

SweepGoes(x, from, to) == sweepPc[x] = from /\ sweepPc' = [sweepPc EXCEPT ![x] = to]

\* sweep() returns to runScheduledSweep, or to the console.
SweepEnds(x) == IF x \in PollWorkers THEN "after" ELSE "idle"

\* The sweep's locals go out of scope.
ForgetSweep(x) == fresh' = [fresh EXCEPT ![x] = {}] /\ highest' = [highest EXCEPT ![x] = 0]

\* What no step inside sweep() touches.
SweepAside == UNCHANGED <<polling, moLast, pollQueue, pollJob, pollCut, missed>>

ConsoleSweep(x) ==
  /\ SweepGoes(x, "idle", "mark")
  /\ UNCHANGED <<moWatermark, moRows, fresh, highest, pollFaults>> /\ SweepAside

\* The engine answers the probe; the watermark is read.
ReadMark(x) ==
  /\ SweepGoes(x, "mark", "list")
  /\ highest' = [highest EXCEPT ![x] = moWatermark]
  /\ UNCHANGED <<moWatermark, moRows, fresh, pollFaults>> /\ SweepAside

\* The engine is down: the error is recorded, the watermark stays.
EngineDown(x) ==
  /\ PollFault
  /\ SweepGoes(x, "mark", SweepEnds(x))
  /\ UNCHANGED <<moWatermark, moRows, fresh, highest>> /\ SweepAside

\* Mutation: off by one at the watermark.
PageTooLate(x) == {i \in 1..moLast : i + PageSize > moLast /\ i > highest[x] + 1}

\* list() pages newest first; what the watermark already covers is dropped.
Page(x) == {i \in 1..moLast : i + PageSize > moLast /\ i > highest[x]}

ListPage(x) ==
  /\ SweepGoes(x, "list", "ingest")
  /\ fresh' = [fresh EXCEPT ![x] = Page(x)]
  /\ UNCHANGED <<moWatermark, moRows, highest, pollFaults>> /\ SweepAside

IsOldest(i, S) == i \in S /\ \A k \in S : i <= k

\* Oldest first, each in its own transaction; the unique index on dedupe_key
\* makes a second ingest of a row a no-op.
IngestRow(x) ==
  /\ sweepPc[x] = "ingest"
  /\ \E i \in fresh[x] :
       /\ IsOldest(i, fresh[x]) /\ i \notin Malformed
       /\ moRows' = moRows \cup {i}
       /\ highest' = [highest EXCEPT ![x] = i]
       /\ fresh' = [fresh EXCEPT ![x] = @ \ {i}]
  /\ UNCHANGED <<moWatermark, sweepPc, pollFaults>> /\ SweepAside

\* A row that could not be ingested is left for the next sweep.
StopAtRow(x, i) == UNCHANGED highest

\* The row's transaction is rejected: the sweep records the error and stops.
IngestRowFails(x) ==
  /\ PollFault
  /\ SweepGoes(x, "ingest", "record")
  /\ \E i \in fresh[x] : IsOldest(i, fresh[x]) /\ StopAtRow(x, i)
  /\ fresh' = [fresh EXCEPT ![x] = {}]
  /\ UNCHANGED <<moWatermark, moRows>> /\ SweepAside

PageDone(x) ==
  /\ fresh[x] = {}
  /\ SweepGoes(x, "ingest", "record")
  /\ UNCHANGED <<moWatermark, moRows, fresh, highest, pollFaults>> /\ SweepAside

\* Mutation: the last sweep to finish wins.
LastWins(x) == highest[x]

\* GREATEST
Greatest(x) == IF highest[x] > moWatermark THEN highest[x] ELSE moWatermark

\* recordSweep; a rejected write is swallowed.
RecordSweep(x) ==
  /\ SweepGoes(x, "record", SweepEnds(x))
  /\ ForgetSweep(x)
  /\ \/ /\ moWatermark' = Greatest(x)
        /\ UNCHANGED pollFaults
     \/ PollFault /\ UNCHANGED moWatermark
  /\ UNCHANGED moRows /\ SweepAside

\* A console's request dies, or answers an error.
ConsoleLost(x) ==
  /\ PollFault
  /\ x \in Consoles /\ sweepPc[x] # "idle"
  /\ sweepPc' = [sweepPc EXCEPT ![x] = "idle"]
  /\ ForgetSweep(x)
  /\ UNCHANGED <<moWatermark, moRows>> /\ SweepAside

-----------------------------------------------------------------------------
(* runScheduledSweep(), in a mo.ingest.poll job.                           *)

ChainAside == UNCHANGED <<polling, moWatermark, moRows, moLast, pollCut>>

PollAside == ChainAside /\ UNCHANGED missed

TakePoll(j, w) ==
  /\ SweepGoes(w, "idle", "start")
  /\ PQ!Take(j, w)
  /\ pollJob' = [pollJob EXCEPT ![w] = j]
  /\ UNCHANGED <<fresh, highest, pollFaults>> /\ PollAside

\* A disabled tenant is not swept.
ReadPolling(w) ==
  /\ SweepGoes(w, "start", IF polling THEN "mark" ELSE "return")
  /\ UNCHANGED <<pollQueue, pollJob, fresh, highest, pollFaults>> /\ PollAside

\* Mutation: the sweep finds itself in flight.
OtherPollWithSelf(w) == \E j \in PollJobs : InFlight(j)

\* Mutation: the successor is enqueued whatever is in flight.
OtherPollIgnored(w) == FALSE

\* ensurePollScheduled: a queued or running poll job other than this one.
OtherPoll(w) == \E j \in PollJobs : j # pollJob[w] /\ InFlight(j)

\* The flag is read again, and the successor looked for.
LookForPoll(w) ==
  /\ sweepPc[w] = "after"
  /\ SweepGoes(w, "after", IF polling /\ ~OtherPoll(w) THEN "insert" ELSE "return")
  /\ UNCHANGED <<pollQueue, pollJob, fresh, highest, pollFaults>> /\ PollAside

\* The successor is inserted and the transaction commits.
InsertPoll(w) ==
  /\ SweepGoes(w, "insert", "return")
  /\ EnqueuePoll
  /\ UNCHANGED <<pollJob, fresh, highest, pollFaults>> /\ ChainAside

\* The worker forgets the job.
ForgetPoll(w) ==
  /\ sweepPc' = [sweepPc EXCEPT ![w] = "idle"]
  /\ pollJob' = [pollJob EXCEPT ![w] = NoPoller]
  /\ ForgetSweep(w)

ReturnPoll(w) ==
  /\ w \in PollWorkers /\ sweepPc[w] = "return"
  /\ \/ PQ!Settle(pollJob[w]) /\ pollPhase'[pollJob[w]] = "over"
     \/ pollPhase[pollJob[w]] = "over" /\ PQ!Lose(pollJob[w])
  /\ ForgetPoll(w)
  /\ UNCHANGED pollFaults /\ PollAside

\* The handler throws: the job is retried while it has attempts left.
PollThrows(w) ==
  /\ \/ /\ PQ!Settle(pollJob[w])
        /\ pollPhase'[pollJob[w]] = IF pollRuns[pollJob[w]] < PollLimit THEN "waiting" ELSE "over"
     \/ pollPhase[pollJob[w]] = "over" /\ PQ!Lose(pollJob[w])
  /\ ForgetPoll(w)
  /\ PollAside

\* A call of the handler outside sweep()'s try block is rejected.
ThrowPoll(w) ==
  /\ PollFault
  /\ w \in PollWorkers /\ sweepPc[w] \in {"start", "mark", "list", "after", "insert", "return"}
  /\ PollThrows(w)

\* prepareIngest rejects a row outside the try block: nothing is recorded.
RejectRow(x) ==
  /\ sweepPc[x] = "ingest"
  /\ \E i \in fresh[x] : IsOldest(i, fresh[x]) /\ i \in Malformed
  /\ \/ x \in PollWorkers /\ PollThrows(x)
     \/ /\ x \in Consoles
        /\ sweepPc' = [sweepPc EXCEPT ![x] = "idle"]
        /\ ForgetSweep(x)
        /\ UNCHANGED <<moWatermark, moRows>> /\ SweepAside
  /\ UNCHANGED pollFaults

\* The worker's process ends, or it cannot report the job's outcome.
CrashPoll(w) ==
  /\ PollFault
  /\ w \in PollWorkers /\ sweepPc[w] # "idle"
  /\ PQ!Lose(pollJob[w])
  /\ ForgetPoll(w)
  /\ PollAside

\* The reaper gives the job back, or buries it.
RecoverPoll(j) ==
  /\ PQ!Recover({j})
  /\ UNCHANGED <<sweepVars, pollFaults>> /\ PollAside

-----------------------------------------------------------------------------
SweepStep(x) ==
  \/ ReadMark(x) \/ ListPage(x) \/ IngestRow(x) \/ PageDone(x) \/ RecordSweep(x) \/ RejectRow(x)

PollStep(w) ==
  SweepStep(w) \/ ReadPolling(w) \/ LookForPoll(w) \/ InsertPoll(w) \/ ReturnPoll(w)

MoNext ==
  \/ Arrive \/ SwitchOn \/ SwitchOff
  \/ \E x \in Consoles : ConsoleSweep(x) \/ ConsoleLost(x) \/ SweepStep(x)
  \/ \E x \in Sweepers : EngineDown(x) \/ IngestRowFails(x)
  \/ \E w \in PollWorkers : PollStep(w) \/ ThrowPoll(w) \/ CrashPoll(w)
  \/ \E j \in PollJobs :
       CancelPoll(j) \/ RecoverPoll(j) \/ \E w \in PollWorkers : TakePoll(j, w)

MoSpec == MoInit /\ [][MoNext]_moVars

\* A live worker goes on, a waiting job is taken, and the reaper runs.
MoFairness ==
  /\ \A w \in PollWorkers : WF_moVars(PollStep(w))
  /\ \A j \in PollJobs : WF_moVars(RecoverPoll(j))
  /\ WF_moVars(\E j \in PollJobs, w \in PollWorkers : TakePoll(j, w))

MoFairSpec == MoSpec /\ MoFairness

-----------------------------------------------------------------------------
(* Properties.                                                             *)

\* "Keep exactly one mo.ingest.poll job in flight for this tenant", and nothing
\* less: the chain never breaks, through crashes, rejected calls and operators,
\* as long as no job is out of attempts, no malformed row arrived, nobody cancels
\* a poll job, and polling was not switched on behind a job's last look.
ChainAlive ==
  polling /\ ~missed /\ Cardinality(PollWorkers) = 1 /\ pollFaults < PollLimit
    /\ (\A i \in Malformed : moLast < i) /\ ~pollCut => \E j \in PollJobs : InFlight(j)

\* And not a second chain: "The check and the insert are in one transaction",
\* which locks nothing, yet what a sweep did not find when it looked is still not
\* there when it inserts, though operators toggle polling and jobs are retried
\* in between, unless poll jobs are cancelled or two workers run them.
OneChain ==
  Cardinality(PollWorkers) = 1 /\ ~pollCut =>
    \A w \in PollWorkers, j \in PollJobs :
      sweepPc[w] = "insert" /\ InFlight(j) => j = pollJob[w]

\* "'On' means: keep exactly one mo.ingest.poll job in flight for this tenant",
\* with no crash, no malformed row and nobody who cancels one.
OnMeansPolled ==
  polling /\ pollFaults = 0 /\ (\A i \in Malformed : moLast < i) /\ ~pollCut
    => \E j \in PollJobs : InFlight(j)

\* "ingests everything past the tenant's watermark": no engine row is behind
\* the watermark without a mo_messages row, whichever sweeps overlap or stop.
NothingSkipped == \A i \in 1..moWatermark : i \in moRows

\* Sweeps implement LogReader: overlapping, stopping and dying sweeps ingest
\* only rows the engine has, and the watermark they leave never goes back and
\* never passes a row that is not in mo_messages.
Reader == INSTANCE LogReader WITH last <- moLast, done <- moRows, mark <- moWatermark

ImplementsLogReader == Reader!Spec

\* A row the engine recorded is ingested while polling stays on and its chain
\* was not missed at the switch, through crashes, outages and rejected
\* transactions, unless it is behind a malformed row: prepareIngest throws
\* outside sweep()'s try block, so that one stalls every row after it.
RowsIngested ==
  \A i \in {k \in 1..MaxMo : \A m \in Malformed : k < m} :
    i <= moLast /\ polling ~> i \in moRows \/ ~polling \/ pollCut \/ missed

==============================================================================
