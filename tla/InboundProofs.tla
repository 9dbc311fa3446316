---------------------------- MODULE InboundProofs ----------------------------
(***************************************************************************)
(* What comes back from the engine, for any number of sweeps, workers,     *)
(* rows and faults.                                                        *)
(*                                                                         *)
(* SweepsContiguous, of the MO sweeps: whatever a sweep has yet to ingest, *)
(* every older row is ingested or ahead of it on its own page.  With it    *)
(* RowsArrived gives the refinement of LogReader.                          *)
(* ChainInv, of the poll jobs: while polling is on, some job is waiting,   *)
(* or the one that is taken still looks for a successor or has faults to   *)
(* spare.                                                                  *)
(* CallInv and BudgetInv, of the deliveries: one live job, whose executor  *)
(* alone writes, and each call paid for by a run or by a fault.            *)
(* ForwardInv, of the receipts: a run that ends with no verdict written    *)
(* met a fault.                                                            *)
(***************************************************************************)
EXTENDS MoInbound, MoDelivery, DlrForward, FiniteSetTheorems, TLAPS

-----------------------------------------------------------------------------
(* The watermark of the MO sweeps.                                         *)

\* What the watermark's advance rests on: numbers and sets of rows.
MarkTypes ==
  /\ moLast \in Nat /\ moWatermark \in Nat
  /\ highest \in [Sweepers -> Nat]
  /\ fresh \in [Sweepers -> SUBSET Nat]
  /\ sweepPc \in [Sweepers -> SweepSteps]

\* The engine never gets a page ahead of the watermark.
PageReaches == moLast <= moWatermark + PageSize

\* Every row up to the last one a sweep passed is ingested.
PassedIngested == \A x \in Sweepers : \A i \in 1..highest[x] : i \in moRows

\* Every row older than one on a sweep's page is ingested or on the page too.
PageContiguous ==
  \A x \in Sweepers : \A i \in fresh[x] : \A k \in 1..i : k \in moRows \/ k \in fresh[x]

SweepsContiguous ==
  /\ MarkTypes /\ PageReaches /\ NothingSkipped /\ PassedIngested /\ PageContiguous

\* Nothing has arrived yet.
LEMMA InitSweepsContiguous == MoInit => SweepsContiguous
  BY PollBounds
  DEF MoInit, SweepsContiguous, MarkTypes, PageReaches, NothingSkipped, PassedIngested,
      PageContiguous, SweepSteps

\* A step that ends or moves a sweep, at most clearing its page and its mark,
\* and adds no row keeps the invariant.
LEMMA SweepMovesOn ==
  ASSUME SweepsContiguous, NEW x \in Sweepers,
         UNCHANGED <<moWatermark, moRows, moLast>>,
         sweepPc' \in [Sweepers -> SweepSteps],
         fresh' \in {fresh, [fresh EXCEPT ![x] = {}]},
         highest' \in {highest, [highest EXCEPT ![x] = 0]}
  PROVE  SweepsContiguous'
  BY DEF SweepsContiguous, MarkTypes, PageReaches, NothingSkipped, PassedIngested, PageContiguous

\* A watermark that advances leaves no more rows past it.
LEMMA GreaterMark ==
  \A last, mark, next, page \in Nat : last <= mark + page /\ next >= mark => last <= next + page
  OBVIOUS

\* The actions of MoInbound keep SweepsContiguous.
LEMMA NextSweepsContiguous ==
  ASSUME KeepsUp, SweepsContiguous, [MoNext]_moVars
  PROVE  SweepsContiguous'
<1> USE PollBounds
<1>1. CASE Arrive
  BY <1>1
  DEF Arrive, sweepVars, SweepsContiguous, MarkTypes, PageReaches, NothingSkipped,
      PassedIngested, PageContiguous
<1>2. CASE UNCHANGED <<moWatermark, moRows, moLast, sweepVars>>
  BY <1>2
  DEF sweepVars, SweepsContiguous, MarkTypes, PageReaches, NothingSkipped, PassedIngested,
      PageContiguous
<1>3. ASSUME NEW x \in Sweepers, ReadMark(x) PROVE SweepsContiguous'
  BY <1>3
  DEF ReadMark, SweepGoes, SweepAside, SweepsContiguous, MarkTypes, PageReaches, NothingSkipped,
      PassedIngested, PageContiguous, SweepSteps
<1>4. ASSUME NEW x \in Sweepers, ListPage(x) PROVE SweepsContiguous'
  <2>1. fresh' = [fresh EXCEPT ![x] = Page(x)] /\ UNCHANGED <<moWatermark, moRows, moLast, highest>>
    BY <1>4 DEF ListPage, SweepAside
  <2>2. Page(x) \in SUBSET Nat
    BY DEF Page, SweepsContiguous, MarkTypes
  <2>3. ASSUME NEW i \in Page(x), NEW k \in 1..i PROVE k \in moRows \/ k \in Page(x)
    <3>1. CASE k <= moWatermark
      BY <3>1, <2>2 DEF SweepsContiguous, NothingSkipped, MarkTypes
    <3>2. CASE k <= highest[x]
      BY <3>2, <2>2 DEF SweepsContiguous, PassedIngested, MarkTypes
    <3>3. CASE k > moWatermark /\ k > highest[x]
      BY <3>3 DEF Page, SweepsContiguous, PageReaches, MarkTypes
    <3> QED
      BY <3>1, <3>2, <3>3, <2>2 DEF SweepsContiguous, MarkTypes
  <2>4. PageContiguous'
    BY <2>1, <2>3 DEF SweepsContiguous, MarkTypes, PageContiguous
  <2>5. MarkTypes'
    BY <1>4, <2>1, <2>2 DEF ListPage, SweepGoes, SweepsContiguous, MarkTypes, SweepSteps
  <2> QED
    BY <2>1, <2>4, <2>5
    DEF SweepsContiguous, PageReaches, NothingSkipped, PassedIngested
<1>5. ASSUME NEW x \in Sweepers, IngestRow(x) PROVE SweepsContiguous'
  <2>1. PICK i \in fresh[x] :
          /\ IsOldest(i, fresh[x])
          /\ moRows' = moRows \cup {i}
          /\ highest' = [highest EXCEPT ![x] = i]
          /\ fresh' = [fresh EXCEPT ![x] = @ \ {i}]
    BY <1>5 DEF IngestRow
  <2>2. UNCHANGED <<moWatermark, moLast, sweepPc>>
    BY <1>5 DEF IngestRow, SweepAside
  <2>3. i \in Nat /\ MarkTypes'
    BY <2>1, <2>2 DEF SweepsContiguous, MarkTypes
  <2>4. \A k \in 1..i : k \in moRows'
    BY <2>1, <2>3 DEF IsOldest, SweepsContiguous, PageContiguous, MarkTypes
  <2>5. PassedIngested'
    BY <2>1, <2>4 DEF SweepsContiguous, PassedIngested, MarkTypes
  <2>6. PageContiguous'
    BY <2>1 DEF SweepsContiguous, PageContiguous, MarkTypes
  <2> QED
    BY <2>1, <2>2, <2>3, <2>5, <2>6 DEF SweepsContiguous, PageReaches, NothingSkipped
<1>6. ASSUME NEW x \in Sweepers, RecordSweep(x) PROVE SweepsContiguous'
  <2>1. /\ UNCHANGED <<moRows, moLast>>
        /\ highest' = [highest EXCEPT ![x] = 0] /\ fresh' = [fresh EXCEPT ![x] = {}]
        /\ sweepPc' = [sweepPc EXCEPT ![x] = SweepEnds(x)]
    BY <1>6 DEF RecordSweep, SweepAside, ForgetSweep, SweepGoes
  <2>2. /\ moWatermark' \in Nat /\ moWatermark' >= moWatermark
        /\ \A i \in 1..moWatermark' : i \in moRows
    BY <1>6 DEF RecordSweep, Greatest, SweepsContiguous, MarkTypes, NothingSkipped, PassedIngested
  <2>3. MarkTypes'
    BY <2>1, <2>2 DEF SweepEnds, SweepSteps, SweepsContiguous, MarkTypes
  <2>4. PageReaches'
    <3>1. /\ moLast' = moLast /\ moLast \in Nat /\ moWatermark \in Nat
          /\ moLast <= moWatermark + PageSize
      BY <2>1 DEF SweepsContiguous, MarkTypes, PageReaches
    <3>2. moWatermark' \in Nat /\ moWatermark' >= moWatermark
      BY <2>2
    <3>3. moLast <= moWatermark' + PageSize
      BY <3>1, <3>2, GreaterMark, PollBounds
    <3> QED
      BY <3>1, <3>3 DEF PageReaches
  <2>6. NothingSkipped'
    BY <2>1, <2>2 DEF NothingSkipped
  <2>5. PassedIngested' /\ PageContiguous'
    BY <2>1 DEF SweepsContiguous, MarkTypes, PassedIngested, PageContiguous
  <2> QED
    BY <2>3, <2>4, <2>5, <2>6 DEF SweepsContiguous
<1>7. ASSUME NEW x \in Sweepers,
             \/ ConsoleSweep(x) \/ ConsoleLost(x) \/ EngineDown(x) \/ IngestRowFails(x)
             \/ PageDone(x)
      PROVE  SweepsContiguous'
  <2>1. UNCHANGED <<moWatermark, moRows, moLast>>
    BY <1>7 DEF ConsoleSweep, ConsoleLost, EngineDown, IngestRowFails, PageDone, SweepAside
  <2>2. /\ fresh' \in {fresh, [fresh EXCEPT ![x] = {}]}
        /\ highest' \in {highest, [highest EXCEPT ![x] = 0]}
    BY <1>7
    DEF ConsoleSweep, ConsoleLost, EngineDown, IngestRowFails, PageDone, ForgetSweep, StopAtRow
  <2>3. sweepPc' \in [Sweepers -> SweepSteps]
    BY <1>7
    DEF ConsoleSweep, ConsoleLost, EngineDown, IngestRowFails, PageDone, SweepGoes, SweepEnds,
        SweepSteps, SweepsContiguous, MarkTypes
  <2> QED
    BY <2>1, <2>2, <2>3, SweepMovesOn
<1>8. ASSUME NEW w \in PollWorkers,
             \/ ReadPolling(w) \/ LookForPoll(w) \/ InsertPoll(w) \/ ReturnPoll(w)
             \/ ThrowPoll(w) \/ CrashPoll(w) \/ \E j \in PollJobs : TakePoll(j, w)
      PROVE  SweepsContiguous'
  <2>0. w \in Sweepers
    BY DEF Sweepers
  <2>1. UNCHANGED <<moWatermark, moRows, moLast>>
    BY <1>8
    DEF ReadPolling, LookForPoll, InsertPoll, ReturnPoll, ThrowPoll, PollThrows, CrashPoll,
        TakePoll, PollAside, ChainAside
  <2>2. /\ fresh' \in {fresh, [fresh EXCEPT ![w] = {}]}
        /\ highest' \in {highest, [highest EXCEPT ![w] = 0]}
    BY <1>8
    DEF ReadPolling, LookForPoll, InsertPoll, ReturnPoll, ThrowPoll, PollThrows, CrashPoll,
        TakePoll, ForgetPoll, ForgetSweep
  <2>3. sweepPc' \in [Sweepers -> SweepSteps]
    BY <1>8, <2>0
    DEF ReadPolling, LookForPoll, InsertPoll, ReturnPoll, ThrowPoll, PollThrows, CrashPoll,
        TakePoll, ForgetPoll, SweepGoes, SweepSteps, SweepsContiguous, MarkTypes
  <2> QED
    BY <2>0, <2>1, <2>2, <2>3, SweepMovesOn
<1>9. ASSUME NEW x \in Sweepers, RejectRow(x) PROVE SweepsContiguous'
  <2>1. UNCHANGED <<moWatermark, moRows, moLast>>
    BY <1>9 DEF RejectRow, PollThrows, PollAside, ChainAside, SweepAside
  <2>2. /\ fresh' = [fresh EXCEPT ![x] = {}] /\ highest' = [highest EXCEPT ![x] = 0]
        /\ sweepPc' = [sweepPc EXCEPT ![x] = "idle"]
    BY <1>9 DEF RejectRow, PollThrows, ForgetPoll, ForgetSweep
  <2>3. sweepPc' \in [Sweepers -> SweepSteps]
    BY <2>2 DEF SweepSteps, SweepsContiguous, MarkTypes
  <2> QED
    BY <2>1, <2>2, <2>3, SweepMovesOn
<1>10. ASSUME NEW j \in PollJobs, CancelPoll(j) \/ RecoverPoll(j) PROVE SweepsContiguous'
  BY <1>10, <1>2 DEF CancelPoll, RecoverPoll, PollAside, ChainAside
<1>11. CASE SwitchOn \/ SwitchOff
  BY <1>11, <1>2 DEF SwitchOn, SwitchOff
<1>12. CASE UNCHANGED moVars
  BY <1>12, <1>2 DEF moVars
<1> HIDE DEF SweepsContiguous
<1> QED
  BY <1>1, <1>3, <1>4, <1>5, <1>6, <1>7, <1>8, <1>9, <1>10, <1>11, <1>12
  DEF MoNext, PollStep, SweepStep, Sweepers

\* "ingests everything past the tenant's watermark": while no more than a page
\* of rows is ever past it, the watermark that recordSweep writes leaves no
\* engine row behind without a mo_messages row, however many sweeps overlap,
\* stop at a rejected row or die.
THEOREM WatermarkSkipsNothing == KeepsUp => (MoSpec => []NothingSkipped)
<1> SUFFICES ASSUME KeepsUp PROVE MoSpec => []NothingSkipped
  OBVIOUS
<1>1. SweepsContiguous => NothingSkipped
  BY DEF SweepsContiguous
<1>2. SweepsContiguous /\ [MoNext]_moVars => SweepsContiguous'
  BY NextSweepsContiguous
<1>3. QED
  BY <1>1, <1>2, InitSweepsContiguous, PTL DEF MoSpec

\* A page, and what was ingested from it, are rows the engine has.
RowsArrived ==
  /\ moRows \subseteq 1..moLast
  /\ \A x \in Sweepers : fresh[x] \subseteq 1..moLast

\* No step lists or ingests a row that has not arrived.
LEMMA NextRowsArrived ==
  ASSUME MarkTypes, RowsArrived, [MoNext]_moVars
  PROVE  RowsArrived'
<1> USE DEF RowsArrived, MarkTypes
<1>1. CASE UNCHANGED <<moRows, moLast>> /\ fresh' = fresh
  BY <1>1
<1>2. CASE Arrive
  BY <1>2 DEF Arrive, sweepVars
<1>3. ASSUME NEW x \in Sweepers, ListPage(x) PROVE RowsArrived'
  BY <1>3 DEF ListPage, Page, SweepAside
<1>4. ASSUME NEW x \in Sweepers, IngestRow(x) PROVE RowsArrived'
  BY <1>4 DEF IngestRow, SweepAside
<1>5. ASSUME NEW x \in Sweepers, UNCHANGED <<moRows, moLast>>, fresh' = [fresh EXCEPT ![x] = {}]
      PROVE  RowsArrived'
  BY <1>5
<1>6. ASSUME NEW x \in Sweepers,
             \/ RecordSweep(x) \/ ConsoleLost(x) \/ IngestRowFails(x) \/ RejectRow(x)
             \/ x \in PollWorkers /\ (ReturnPoll(x) \/ ThrowPoll(x) \/ CrashPoll(x))
      PROVE  RowsArrived'
  BY <1>5, <1>6
  DEF RecordSweep, ConsoleLost, IngestRowFails, RejectRow, ReturnPoll, ThrowPoll, PollThrows,
      CrashPoll, ForgetPoll, ForgetSweep, PollAside, ChainAside, SweepAside
<1>7. ASSUME NEW x \in Sweepers,
             \/ ConsoleSweep(x) \/ ReadMark(x) \/ EngineDown(x) \/ PageDone(x)
             \/ ReadPolling(x) \/ LookForPoll(x) \/ InsertPoll(x)
             \/ \E j \in PollJobs : TakePoll(j, x)
      PROVE  RowsArrived'
  BY <1>1, <1>7
  DEF ConsoleSweep, ReadMark, EngineDown, PageDone, ReadPolling, LookForPoll, InsertPoll, TakePoll,
      PollAside, ChainAside, SweepAside
<1>8. ASSUME NEW j \in PollJobs, CancelPoll(j) \/ RecoverPoll(j) PROVE RowsArrived'
  BY <1>1, <1>8 DEF CancelPoll, RecoverPoll, PollAside, ChainAside, sweepVars
<1>9. CASE SwitchOn \/ SwitchOff \/ UNCHANGED moVars
  BY <1>1, <1>9 DEF SwitchOn, SwitchOff, moVars, sweepVars
<1> HIDE DEF RowsArrived, MarkTypes
<1> QED
  BY <1>2, <1>3, <1>4, <1>6, <1>7, <1>8, <1>9 DEF MoNext, PollStep, SweepStep, Sweepers

\* A step of a sweep ingests a row of its page, records its mark, or does
\* nothing that a reader of the log can see.
LEMMA SweepReads ==
  ASSUME SweepsContiguous, RowsArrived, [MoNext]_moVars
  PROVE  [Reader!Next]_(Reader!vars)
<1> USE DEF Reader!Next, Reader!vars, SweepsContiguous, MarkTypes
<1>1. CASE Arrive
  BY <1>1 DEF Arrive, Reader!Append
<1>2. ASSUME NEW x \in Sweepers, IngestRow(x) PROVE [Reader!Next]_(Reader!vars)
  <2>1. PICK i \in fresh[x] : moRows' = moRows \cup {i} /\ UNCHANGED <<moLast, moWatermark>>
    BY <1>2 DEF IngestRow, SweepAside
  <2>2. i \in 1..moLast
    BY <2>1 DEF RowsArrived
  <2> QED
    BY <2>1, <2>2 DEF Reader!Process
<1>3. ASSUME NEW x \in Sweepers, RecordSweep(x) PROVE [Reader!Next]_(Reader!vars)
  <2>1. UNCHANGED <<moRows, moLast>>
    BY <1>3 DEF RecordSweep, SweepAside
  <2>2. CASE moWatermark' = moWatermark
    BY <2>1, <2>2
  <2>3. CASE highest[x] > moWatermark /\ moWatermark' = highest[x]
    <3>1. 1..highest[x] \subseteq moRows
      BY DEF PassedIngested
    <3>2. highest[x] \in 1..moLast
      BY <2>3, <3>1 DEF RowsArrived
    <3> QED
      BY <2>1, <2>3, <3>1, <3>2 DEF Reader!Advance
  <2> QED
    BY <1>3, <2>2, <2>3 DEF RecordSweep, Greatest
<1>4. CASE UNCHANGED <<moLast, moRows, moWatermark>>
  BY <1>4
<1>5. ASSUME NEW x \in Sweepers,
             \/ ConsoleSweep(x) \/ ConsoleLost(x) \/ EngineDown(x) \/ IngestRowFails(x)
             \/ ReadMark(x) \/ ListPage(x) \/ PageDone(x) \/ RejectRow(x)
      PROVE  [Reader!Next]_(Reader!vars)
  BY <1>4, <1>5
  DEF ConsoleSweep, ConsoleLost, EngineDown, IngestRowFails, ReadMark, ListPage, PageDone,
      RejectRow, PollThrows, PollAside, ChainAside, SweepAside
<1>6. ASSUME NEW w \in PollWorkers,
             \/ ReadPolling(w) \/ LookForPoll(w) \/ InsertPoll(w) \/ ReturnPoll(w)
             \/ ThrowPoll(w) \/ CrashPoll(w) \/ \E j \in PollJobs : TakePoll(j, w)
      PROVE  [Reader!Next]_(Reader!vars)
  BY <1>4, <1>6
  DEF ReadPolling, LookForPoll, InsertPoll, ReturnPoll, ThrowPoll, PollThrows, CrashPoll, TakePoll,
      PollAside, ChainAside
<1>7. ASSUME NEW j \in PollJobs, CancelPoll(j) \/ RecoverPoll(j)
      PROVE  [Reader!Next]_(Reader!vars)
  BY <1>4, <1>7 DEF CancelPoll, RecoverPoll, PollAside, ChainAside
<1>8. CASE SwitchOn \/ SwitchOff \/ UNCHANGED moVars
  BY <1>4, <1>8 DEF SwitchOn, SwitchOff, moVars
<1> HIDE DEF Reader!Next, Reader!vars, SweepsContiguous, MarkTypes
<1> QED
  BY <1>1, <1>2, <1>3, <1>5, <1>6, <1>7, <1>8 DEF MoNext, PollStep, SweepStep, Sweepers

\* While no more than a page of rows is ever past the watermark, the sweeps of
\* any number of workers and consoles read the engine's MO rows as LogReader
\* promises: recordSweep moves the watermark forward only, and over ingested
\* rows only.
THEOREM SweepsReadTheLog == KeepsUp => (MoSpec => ImplementsLogReader)
<1> SUFFICES ASSUME KeepsUp PROVE MoSpec => ImplementsLogReader
  OBVIOUS
<1>1. MoInit => Reader!Init /\ SweepsContiguous /\ RowsArrived
  BY InitSweepsContiguous DEF MoInit, Reader!Init, RowsArrived
<1>2. SweepsContiguous /\ RowsArrived /\ [MoNext]_moVars
        => SweepsContiguous' /\ RowsArrived' /\ [Reader!Next]_(Reader!vars)
  BY NextSweepsContiguous, NextRowsArrived, SweepReads DEF SweepsContiguous
<1>3. QED
  BY <1>1, <1>2, PTL DEF MoSpec, ImplementsLogReader, Reader!Spec

-----------------------------------------------------------------------------
(* The chain of poll jobs.                                                 *)

\* The types the proof needs; a page holds rows the engine has, and a busy
\* worker is its job's executor.
PollTypes ==
  /\ pollPhase \in [PollJobs -> {"absent", "waiting", "taken", "over"}]
  /\ pollExec \in [PollJobs -> PollWorkers \cup {NoPoller}]
  /\ pollRuns \in [PollJobs -> Nat]
  /\ pollJob \in [PollWorkers -> PollJobs \cup {NoPoller}]
  /\ sweepPc \in [Sweepers -> SweepSteps]
  /\ fresh \in [Sweepers -> SUBSET Nat]
  /\ moLast \in Nat /\ pollFaults \in Nat
  /\ \A x \in Sweepers : \A i \in fresh[x] : i <= moLast
  /\ \A w \in PollWorkers :
       sweepPc[w] # "idle" => pollJob[w] \in PollJobs /\ pollExec[pollJob[w]] = w

\* While the chain is sure to live: one worker, and nothing that can use a job
\* up or take it away.
ChainSafe ==
  /\ Cardinality(PollWorkers) = 1 /\ pollFaults < PollLimit
  /\ \A i \in Malformed : moLast < i
  /\ ~pollCut

\* A job's executions beyond the first are paid for by faults; a worker about
\* to return has left a successor; and an idle worker has a job to take.
ChainKept ==
  /\ \A w \in PollWorkers : sweepPc[w] # "idle" => pollPhase[pollJob[w]] = "taken"
  /\ \A j \in PollJobs :
       pollRuns[j] <= pollFaults \/ pollPhase[j] \in {"absent", "over"}
         \/ (pollExec[j] # NoPoller /\ pollRuns[j] <= pollFaults + 1)
  /\ polling /\ ~missed => \A w \in PollWorkers : sweepPc[w] = "return" => OtherPoll(w)
  /\ polling /\ ~missed /\ (\A w \in PollWorkers : sweepPc[w] = "idle") =>
       \E j \in PollJobs : InFlight(j)

ChainInv == PollTypes /\ (ChainSafe => ChainKept)

\* Nothing is polled yet.
LEMMA InitChainInv == MoInit => ChainInv
  BY PollBounds, PollActors
  DEF MoInit, PQ!Init, ChainInv, PollTypes, ChainKept, OtherPoll, InFlight, Sweepers, SweepSteps

\* A sweeper other than a worker is a console.
LEMMA ConsoleIsNoWorker == \A x \in Consoles : x \in Sweepers /\ x \notin PollWorkers
  BY PollActors DEF Sweepers

\* Any two workers of a chain that is sure to live are one.
LEMMA OneWorker ==
  ASSUME ChainSafe, NEW v \in PollWorkers, NEW w \in PollWorkers
  PROVE  v = w
  BY FS_Singleton, PollActors DEF ChainSafe

\* A step of one sweeper, or of none, that leaves the queue alone: no worker
\* takes or leaves a job, and one that goes to return has seen a successor.
LEMMA SweepKeepsChain ==
  ASSUME ChainInv,
         UNCHANGED <<pollQueue, pollJob>>,
         sweepPc' \in [Sweepers -> SweepSteps],
         fresh' \in [Sweepers -> SUBSET Nat],
         moLast' \in Nat, moLast <= moLast',
         \A x \in Sweepers : \A i \in fresh'[x] : i <= moLast',
         pollFaults' \in Nat, pollFaults <= pollFaults',
         pollCut' = pollCut, missed' = missed, polling' => polling,
         \A w \in PollWorkers :
           /\ sweepPc'[w] = "idle" <=> sweepPc[w] = "idle"
           /\ polling /\ sweepPc'[w] = "return" /\ sweepPc[w] # "return" => OtherPoll(w)
  PROVE  ChainInv'
<1>1. PollTypes'
  BY DEF ChainInv, PollTypes, pollQueue
<1>2. ASSUME ChainSafe' PROVE ChainKept'
  <2>1. ChainSafe
    BY <1>2, PollBounds, PollRegime DEF ChainSafe, ChainInv, PollTypes
  <2>2. ChainKept
    BY <2>1 DEF ChainInv
  <2>3. \A w \in PollWorkers : OtherPoll(w) => OtherPoll(w)'
    BY DEF OtherPoll, InFlight, pollQueue
  <2> QED
    BY <2>2, <2>3 DEF ChainKept, ChainInv, PollTypes, InFlight, pollQueue
<1> QED
  BY <1>1, <1>2 DEF ChainInv

\* A new poll job, while a worker that is busy is about to return.
LEMMA EnqueueKeepsChain ==
  ASSUME ChainInv, EnqueuePoll,
         UNCHANGED <<pollJob, fresh, moLast, pollFaults, pollCut>>,
         sweepPc' \in [Sweepers -> SweepSteps],
         \A w \in PollWorkers :
           /\ sweepPc'[w] = "idle" <=> sweepPc[w] = "idle"
           /\ sweepPc'[w] = "return" => sweepPc[w] # "idle"
  PROVE  ChainInv'
<1>1. PICK j \in PollJobs :
        /\ FreeSlot(j)
        /\ pollPhase' = [pollPhase EXCEPT ![j] = "waiting"]
        /\ pollRuns' = [pollRuns EXCEPT ![j] = 0]
        /\ pollExec' = pollExec
  BY DEF EnqueuePoll
<1>2. PollTypes'
  BY <1>1 DEF ChainInv, PollTypes
<1>3. \A w \in PollWorkers : sweepPc[w] # "idle" => pollJob[w] # j
  BY <1>1, PollActors DEF FreeSlot, ChainInv, PollTypes
<1>4. InFlight(j)'
  BY <1>1 DEF InFlight, ChainInv, PollTypes
<1>5. ASSUME ChainSafe' PROVE ChainKept'
  <2>1. ChainKept
    BY <1>5 DEF ChainSafe, ChainInv
  <2>2. \A w \in PollWorkers : sweepPc'[w] = "return" => OtherPoll(w)'
    BY <1>3, <1>4 DEF OtherPoll
  <2>3. \A w \in PollWorkers : sweepPc'[w] # "idle" => pollPhase'[pollJob'[w]] = "taken"
    BY <1>1, <1>3, <2>1 DEF ChainKept, ChainInv, PollTypes
  <2>4. \A k \in PollJobs :
          pollRuns'[k] <= pollFaults' \/ pollPhase'[k] \in {"absent", "over"}
            \/ (pollExec'[k] # NoPoller /\ pollRuns'[k] <= pollFaults' + 1)
    BY <1>1, <2>1 DEF ChainKept, ChainInv, PollTypes
  <2> QED
    BY <1>4, <2>2, <2>3, <2>4 DEF ChainKept
<1> QED
  BY <1>2, <1>5 DEF ChainInv

\* The worker leaves its job: a fault gives the job back, a return has left
\* another one.
LEMMA LeaveKeepsChain ==
  ASSUME ChainInv, NEW w \in PollWorkers, sweepPc[w] # "idle", ForgetPoll(w),
         pollExec' = [pollExec EXCEPT ![pollJob[w]] = NoPoller],
         NEW to \in {"taken", "waiting", "over"},
         pollPhase' = [pollPhase EXCEPT ![pollJob[w]] = to],
         UNCHANGED <<polling, moLast, pollRuns, pollCut, missed>>,
         pollFaults' \in Nat, pollFaults <= pollFaults',
         ChainSafe' => \/ to = "over" /\ sweepPc[w] = "return"
                       \/ to # "over" /\ pollFaults' = pollFaults + 1
  PROVE  ChainInv'
<1> DEFINE j == pollJob[w]
<1>1. /\ sweepPc' = [sweepPc EXCEPT ![w] = "idle"]
      /\ pollJob' = [pollJob EXCEPT ![w] = NoPoller]
      /\ fresh' = [fresh EXCEPT ![w] = {}]
  BY DEF ForgetPoll, ForgetSweep
<1>2. j \in PollJobs /\ pollExec[j] = w /\ w \in Sweepers
  BY DEF ChainInv, PollTypes, Sweepers
<1>3. \A v \in PollWorkers : v # w /\ sweepPc[v] # "idle" => pollJob[v] # j
  BY <1>2 DEF ChainInv, PollTypes
<1>4. PollTypes'
  <2>1. /\ pollPhase' \in [PollJobs -> {"absent", "waiting", "taken", "over"}]
        /\ pollExec' \in [PollJobs -> PollWorkers \cup {NoPoller}]
        /\ pollRuns' \in [PollJobs -> Nat]
    BY <1>2 DEF ChainInv, PollTypes
  <2>2. /\ pollJob' \in [PollWorkers -> PollJobs \cup {NoPoller}]
        /\ sweepPc' \in [Sweepers -> SweepSteps]
        /\ fresh' \in [Sweepers -> SUBSET Nat]
        /\ \A x \in Sweepers : \A i \in fresh'[x] : i <= moLast
    BY <1>1, <1>2 DEF ChainInv, PollTypes, SweepSteps
  <2>3. \A v \in PollWorkers :
          sweepPc'[v] # "idle" => pollJob'[v] \in PollJobs /\ pollExec'[pollJob'[v]] = v
    BY <1>1, <1>2, <1>3 DEF ChainInv, PollTypes, Sweepers
  <2> QED
    BY <2>1, <2>2, <2>3 DEF ChainInv, PollTypes
<1>5. ASSUME ChainSafe' PROVE ChainKept'
  <2>1. ChainSafe
    BY <1>5, PollBounds, PollRegime DEF ChainSafe, ChainInv, PollTypes
  <2>2. ChainKept
    BY <2>1 DEF ChainInv
  <2>3. \A v \in PollWorkers : sweepPc'[v] = "idle"
    BY <1>1, <1>2, <2>1, OneWorker DEF ChainInv, PollTypes
  <2>4. \A k \in PollJobs :
          pollRuns'[k] <= pollFaults' \/ pollPhase'[k] \in {"absent", "over"}
            \/ (pollExec'[k] # NoPoller /\ pollRuns'[k] <= pollFaults' + 1)
    <3> SUFFICES ASSUME NEW k \in PollJobs
                 PROVE  \/ pollRuns'[k] <= pollFaults' \/ pollPhase'[k] \in {"absent", "over"}
                        \/ pollExec'[k] # NoPoller /\ pollRuns'[k] <= pollFaults' + 1
      OBVIOUS
    <3>1. CASE k = j
      <4>1. pollPhase[j] = "taken"
        BY <2>2 DEF ChainKept
      <4>2. pollRuns[j] <= pollFaults + 1
        BY <1>2, <4>1, <2>2 DEF ChainKept, ChainInv, PollTypes
      <4>3. pollPhase'[j] = to
        BY <1>2 DEF ChainInv, PollTypes
      <4> QED
        BY <1>5, <3>1, <4>2, <4>3
    <3>2. CASE k # j
      BY <1>2, <2>2, <3>2 DEF ChainKept, ChainInv, PollTypes
    <3> QED
      BY <3>1, <3>2
  <2>5. ASSUME polling, ~missed PROVE \E k \in PollJobs : InFlight(k)'
    <3>1. CASE to = "over" /\ sweepPc[w] = "return"
      BY <1>2, <2>2, <2>5, <3>1 DEF ChainKept, OtherPoll, InFlight, ChainInv, PollTypes
    <3>2. CASE to # "over"
      BY <1>2, <3>2 DEF InFlight, ChainInv, PollTypes
    <3> QED
      BY <1>5, <3>1, <3>2
  <2> QED
    BY <2>3, <2>4, <2>5 DEF ChainKept
<1> QED
  BY <1>4, <1>5 DEF ChainInv

\* The actions of MoInbound keep ChainInv.
LEMMA NextChainInv ==
  ASSUME ChainInv, [MoNext]_moVars
  PROVE  ChainInv'
<1> USE PollBounds, PollActors
<1>0. PollTypes
  BY DEF ChainInv
<1>1. CASE Arrive
  BY <1>0, <1>1, SweepKeepsChain DEF Arrive, sweepVars, PollTypes
<1>2. CASE SwitchOn
  <2>1. UNCHANGED <<pollJob, sweepPc, fresh, moLast, pollFaults, pollCut>>
    BY <1>2 DEF SwitchOn, sweepVars
  <2>2. CASE EnqueuePoll
    BY <1>0, <2>1, <2>2, EnqueueKeepsChain DEF PollTypes
  <2>3. CASE /\ \E j \in PollJobs : InFlight(j)
             /\ missed' = \A j \in PollJobs : InFlight(j) => LookedAlready(j)
             /\ UNCHANGED pollQueue
    <3>1. PollTypes'
      BY <1>0, <2>1, <2>3 DEF PollTypes, pollQueue
    <3>2. \A j \in PollJobs : InFlight(j)' <=> InFlight(j)
      BY <2>3 DEF InFlight, pollQueue
    <3>3. ~missed' => \A w \in PollWorkers : sweepPc[w] = "return" => OtherPoll(w)'
      BY <2>1, <2>3, <3>2 DEF LookedAlready, OtherPoll
    <3>4. ASSUME ChainSafe' PROVE ChainKept'
      BY <2>1, <2>3, <3>2, <3>3, <3>4 DEF ChainSafe, ChainInv, ChainKept, pollQueue
    <3> QED
      BY <3>1, <3>4 DEF ChainInv
  <2> QED
    BY <1>2, <2>2, <2>3 DEF SwitchOn
<1>3. CASE SwitchOff
  BY <1>0, <1>3, SweepKeepsChain DEF SwitchOff, sweepVars, PollTypes
<1>4. ASSUME NEW x \in Consoles, ConsoleSweep(x) \/ ConsoleLost(x) PROVE ChainInv'
  <2>1. /\ UNCHANGED <<polling, moLast, pollQueue, pollJob, pollCut, missed>>
        /\ \E to \in {"idle", "mark"} : sweepPc' = [sweepPc EXCEPT ![x] = to]
        /\ fresh' \in {fresh, [fresh EXCEPT ![x] = {}]}
        /\ pollFaults' \in {pollFaults, pollFaults + 1}
    BY <1>4 DEF ConsoleSweep, ConsoleLost, SweepAside, SweepGoes, ForgetSweep, PollFault
  <2>2. \A w \in PollWorkers : sweepPc'[w] = sweepPc[w]
    BY <1>0, <2>1, ConsoleIsNoWorker DEF PollTypes, Sweepers
  <2>3. /\ sweepPc' \in [Sweepers -> SweepSteps] /\ fresh' \in [Sweepers -> SUBSET Nat]
        /\ \A y \in Sweepers : \A i \in fresh'[y] : i <= moLast'
    <3>1. PICK to \in {"idle", "mark"} : sweepPc' = [sweepPc EXCEPT ![x] = to]
      BY <2>1
    <3>2. sweepPc' \in [Sweepers -> SweepSteps]
      BY <1>0, <3>1 DEF PollTypes, SweepSteps
    <3> QED
      BY <1>0, <2>1, <3>2 DEF PollTypes
  <2> QED
    BY <1>0, <2>1, <2>2, <2>3, SweepKeepsChain DEF PollTypes
<1>5. ASSUME NEW x \in Sweepers,
             \/ ReadMark(x) \/ ListPage(x) \/ IngestRow(x) \/ PageDone(x) \/ RecordSweep(x)
             \/ EngineDown(x) \/ IngestRowFails(x)
      PROVE  ChainInv'
  <2>1. /\ UNCHANGED <<polling, moLast, pollQueue, pollJob, pollCut, missed>>
        /\ pollFaults' \in {pollFaults, pollFaults + 1}
    BY <1>5
    DEF ReadMark, ListPage, IngestRow, PageDone, RecordSweep, EngineDown, IngestRowFails,
        SweepAside, PollFault
  <2>2. PICK to \in SweepSteps :
          /\ sweepPc[x] # "idle" /\ sweepPc' = [sweepPc EXCEPT ![x] = to]
          /\ x \in PollWorkers => to \notin {"idle", "return"}
    BY <1>0, <1>5
    DEF ReadMark, ListPage, IngestRow, PageDone, RecordSweep, EngineDown, IngestRowFails,
        SweepGoes, SweepEnds, SweepSteps, PollTypes
  <2>3. fresh' \in {fresh, [fresh EXCEPT ![x] = Page(x)], [fresh EXCEPT ![x] = {}]}
          \/ \E i \in fresh[x] : fresh' = [fresh EXCEPT ![x] = @ \ {i}]
    BY <1>5
    DEF ReadMark, ListPage, IngestRow, PageDone, RecordSweep, EngineDown, IngestRowFails,
        ForgetSweep
  <2>4. Page(x) \in SUBSET Nat /\ \A i \in Page(x) : i <= moLast
    BY <1>0 DEF Page, PollTypes
  <2>5. /\ fresh' \in [Sweepers -> SUBSET Nat]
        /\ \A y \in Sweepers : \A i \in fresh'[y] : i <= moLast
    BY <1>0, <2>3, <2>4 DEF PollTypes
  <2>6. sweepPc' \in [Sweepers -> SweepSteps]
    BY <1>0, <2>2 DEF PollTypes
  <2>7. \A w \in PollWorkers :
          /\ sweepPc'[w] = "idle" <=> sweepPc[w] = "idle"
          /\ sweepPc'[w] = "return" => sweepPc[w] = "return"
    BY <1>0, <2>2 DEF PollTypes, Sweepers
  <2> QED
    BY <1>0, <2>1, <2>5, <2>6, <2>7, SweepKeepsChain DEF PollTypes
<1>6. ASSUME NEW w \in PollWorkers, ReadPolling(w) \/ LookForPoll(w) PROVE ChainInv'
  <2>1. /\ UNCHANGED <<polling, moLast, pollQueue, pollJob, fresh, pollFaults, pollCut, missed>>
        /\ \E to \in {"mark", "return", "insert"} :
             /\ sweepPc' = [sweepPc EXCEPT ![w] = to]
             /\ polling /\ to = "return" => OtherPoll(w)
        /\ sweepPc[w] # "idle"
    BY <1>6 DEF ReadPolling, LookForPoll, SweepGoes, PollAside, ChainAside
  <2>2. sweepPc' \in [Sweepers -> SweepSteps]
    BY <1>0, <2>1 DEF PollTypes, SweepSteps
  <2>3. \A v \in PollWorkers :
          /\ sweepPc'[v] = "idle" <=> sweepPc[v] = "idle"
          /\ polling /\ sweepPc'[v] = "return" /\ sweepPc[v] # "return" => OtherPoll(v)
    BY <1>0, <2>1 DEF PollTypes, Sweepers
  <2> QED
    BY <1>0, <2>1, <2>2, <2>3, SweepKeepsChain DEF PollTypes
<1>7. ASSUME NEW w \in PollWorkers, InsertPoll(w) PROVE ChainInv'
  <2>1. /\ EnqueuePoll /\ UNCHANGED <<moLast, pollJob, fresh, pollFaults, pollCut>>
        /\ sweepPc[w] = "insert" /\ sweepPc' = [sweepPc EXCEPT ![w] = "return"]
    BY <1>7 DEF InsertPoll, SweepGoes, ChainAside
  <2>2. /\ sweepPc' \in [Sweepers -> SweepSteps]
        /\ \A v \in PollWorkers :
             /\ sweepPc'[v] = "idle" <=> sweepPc[v] = "idle"
             /\ sweepPc'[v] = "return" => sweepPc[v] # "idle"
    BY <1>0, <2>1 DEF PollTypes, SweepSteps, Sweepers
  <2> QED
    BY <2>1, <2>2, EnqueueKeepsChain
<1>8. ASSUME NEW w \in PollWorkers, ReturnPoll(w) PROVE ChainInv'
  <2>1. /\ sweepPc[w] = "return" /\ ForgetPoll(w)
        /\ UNCHANGED <<polling, moLast, pollRuns, pollFaults, pollCut, missed>>
        /\ pollExec' = [pollExec EXCEPT ![pollJob[w]] = NoPoller]
    BY <1>8 DEF ReturnPoll, PollAside, ChainAside, PQ!Settle, PQ!Lose
  <2>2. pollPhase' = [pollPhase EXCEPT ![pollJob[w]] = "over"]
    BY <1>0, <1>8 DEF ReturnPoll, PQ!Settle, PQ!Lose, PollTypes
  <2>3. pollFaults' \in Nat /\ pollFaults <= pollFaults'
    BY <1>0, <2>1 DEF PollTypes
  <2>4. "over" \in {"taken", "waiting", "over"} /\ sweepPc[w] # "idle"
    BY <2>1
  <2> QED
    BY <2>1, <2>2, <2>3, <2>4, LeaveKeepsChain
<1>9. ASSUME NEW w \in PollWorkers, sweepPc[w] # "idle", PollThrows(w),
             \/ PollFault
             \/ pollFaults' = pollFaults /\ \E i \in fresh[w] : i \in Malformed
      PROVE  ChainInv'
  <2>1. /\ ForgetPoll(w) /\ UNCHANGED <<polling, moLast, pollRuns, pollCut, missed>>
        /\ pollExec' = [pollExec EXCEPT ![pollJob[w]] = NoPoller]
        /\ pollFaults' \in {pollFaults, pollFaults + 1}
        /\ pollJob[w] \in PollJobs /\ pollExec[pollJob[w]] = w
    BY <1>0, <1>9 DEF PollThrows, PollAside, ChainAside, PollFault, PQ!Settle, PQ!Lose, PollTypes
  <2>2. PICK to \in {"waiting", "over"} : pollPhase' = [pollPhase EXCEPT ![pollJob[w]] = to]
    BY <1>0, <1>9, <2>1 DEF PollThrows, PQ!Settle, PQ!Lose, PollTypes
  <2>3. ASSUME ChainSafe' PROVE to # "over" /\ pollFaults' = pollFaults + 1
    <3>1. ChainSafe
      BY <1>0, <2>1, <2>3, PollRegime DEF ChainSafe, PollTypes
    <3>2. pollPhase[pollJob[w]] = "taken"
      BY <1>9, <3>1 DEF ChainInv, ChainKept
    <3>3. pollRuns[pollJob[w]] <= pollFaults + 1
      BY <1>0, <2>1, <3>1, <3>2 DEF ChainInv, ChainKept, PollTypes
    <3>4. pollFaults' = pollFaults + 1
      <4>1. \A i \in fresh[w] : i \in Nat /\ i <= moLast
        BY <1>0 DEF PollTypes, Sweepers
      <4>2. \A i \in Malformed : i \in Nat /\ moLast < i
        BY <3>1, PollRegime DEF ChainSafe
      <4>3. ~\E i \in fresh[w] : i \in Malformed
        BY <1>0, <4>1, <4>2 DEF PollTypes
      <4> QED
        BY <1>9, <4>3 DEF PollFault
    <3>5. pollRuns[pollJob[w]] < PollLimit
      BY <1>0, <2>1, <2>3, <3>3, <3>4 DEF ChainSafe, PollTypes
    <3>6. pollPhase'[pollJob[w]] = "waiting"
      BY <1>9, <3>2, <3>5 DEF PollThrows
    <3> QED
      BY <1>0, <2>1, <2>2, <3>4, <3>6 DEF PollTypes
  <2>4. /\ pollFaults' \in Nat /\ pollFaults <= pollFaults'
        /\ to \in {"taken", "waiting", "over"}
    BY <1>0, <2>1 DEF PollTypes
  <2> QED
    BY <1>9, <2>1, <2>2, <2>3, <2>4, LeaveKeepsChain
<1>10. ASSUME NEW w \in PollWorkers, ThrowPoll(w) PROVE ChainInv'
  BY <1>9, <1>10 DEF ThrowPoll
<1>11. ASSUME NEW x \in Sweepers, RejectRow(x) PROVE ChainInv'
  <2>1. CASE x \in PollWorkers /\ PollThrows(x)
    BY <1>9, <1>11, <2>1 DEF RejectRow
  <2>2. CASE x \notin PollWorkers
    <3>1. /\ UNCHANGED <<polling, moLast, pollQueue, pollJob, pollCut, pollFaults, missed>>
          /\ sweepPc' = [sweepPc EXCEPT ![x] = "idle"]
          /\ fresh' = [fresh EXCEPT ![x] = {}]
      BY <1>11, <2>2 DEF RejectRow, ForgetSweep, SweepAside
    <3>2. /\ sweepPc' \in [Sweepers -> SweepSteps] /\ fresh' \in [Sweepers -> SUBSET Nat]
          /\ \A y \in Sweepers : \A i \in fresh'[y] : i <= moLast'
          /\ \A w \in PollWorkers : sweepPc'[w] = sweepPc[w]
      BY <1>0, <2>2, <3>1 DEF PollTypes, SweepSteps, Sweepers
    <3> QED
      BY <1>0, <3>1, <3>2, SweepKeepsChain DEF PollTypes
  <2> QED
    BY <1>11, <2>1, <2>2, ConsoleIsNoWorker DEF RejectRow
<1>12. ASSUME NEW w \in PollWorkers, CrashPoll(w) PROVE ChainInv'
  <2>1. /\ sweepPc[w] # "idle" /\ ForgetPoll(w)
        /\ UNCHANGED <<polling, moLast, pollRuns, pollCut, pollPhase, missed>>
        /\ pollExec' = [pollExec EXCEPT ![pollJob[w]] = NoPoller]
        /\ pollFaults' = pollFaults + 1
        /\ pollPhase[pollJob[w]] \in {"taken", "over"}
    BY <1>12 DEF CrashPoll, PollAside, ChainAside, PollFault, PQ!Lose
  <2>2. pollPhase' = [pollPhase EXCEPT ![pollJob[w]] = pollPhase[pollJob[w]]]
    BY <1>0, <2>1 DEF PollTypes
  <2>3. ChainSafe' => pollPhase[pollJob[w]] # "over"
    <3>1. ChainSafe' => ChainSafe
      BY <1>0, <2>1, PollRegime DEF ChainSafe, PollTypes
    <3> QED
      BY <2>1, <3>1 DEF ChainInv, ChainKept
  <2>4. /\ pollFaults' \in Nat /\ pollFaults <= pollFaults'
        /\ pollPhase[pollJob[w]] \in {"taken", "waiting", "over"}
    BY <1>0, <2>1 DEF PollTypes
  <2> QED
    BY <2>1, <2>2, <2>3, <2>4, LeaveKeepsChain
<1>13. ASSUME NEW j \in PollJobs, CancelPoll(j) PROVE ChainInv'
  <2>1. PollTypes' /\ pollCut'
    BY <1>0, <1>13 DEF CancelPoll, PQ!Withdraw, sweepVars, PollTypes
  <2> QED
    BY <2>1 DEF ChainInv, ChainSafe
<1>14. ASSUME NEW j \in PollJobs, RecoverPoll(j) PROVE ChainInv'
  <2>1. /\ UNCHANGED <<polling, missed, moLast, pollCut, pollFaults, pollJob, sweepPc, fresh>>
        /\ UNCHANGED <<pollExec, pollRuns>>
        /\ pollPhase[j] = "taken" /\ pollExec[j] = NoPoller
        /\ pollPhase' = [k \in PollJobs |-> IF k # j THEN pollPhase[k]
                           ELSE IF pollRuns[k] < PollLimit THEN "waiting" ELSE "over"]
    BY <1>14 DEF RecoverPoll, PollAside, ChainAside, PQ!Recover, sweepVars
  <2>2. PollTypes'
    BY <1>0, <2>1 DEF PollTypes
  <2>3. ASSUME ChainSafe' PROVE ChainKept'
    <3>1. ChainSafe /\ ChainKept
      BY <2>1, <2>3 DEF ChainSafe, ChainInv
    <3>2. pollRuns[j] < PollLimit
      BY <1>0, <2>1, <3>1 DEF ChainSafe, ChainKept, PollTypes
    <3>3. \A k \in PollJobs : pollPhase'[k] = IF k = j THEN "waiting" ELSE pollPhase[k]
      BY <2>1, <3>2
    <3>4. \A w \in PollWorkers : sweepPc[w] # "idle" => pollJob[w] # j
      BY <1>0, <2>1 DEF PollTypes
    <3>5. \A k \in PollJobs : InFlight(k) => InFlight(k)'
      BY <3>3 DEF InFlight
    <3>6. \A w \in PollWorkers : sweepPc'[w] # "idle" => pollPhase'[pollJob'[w]] = "taken"
      BY <1>0, <2>1, <3>1, <3>3, <3>4 DEF ChainKept, PollTypes
    <3>7. \A k \in PollJobs :
            pollRuns'[k] <= pollFaults' \/ pollPhase'[k] \in {"absent", "over"}
              \/ (pollExec'[k] # NoPoller /\ pollRuns'[k] <= pollFaults' + 1)
      BY <2>1, <3>1, <3>3 DEF ChainKept
    <3>8. \A w \in PollWorkers : OtherPoll(w) => OtherPoll(w)'
      BY <2>1, <3>5 DEF OtherPoll
    <3> QED
      BY <2>1, <3>1, <3>5, <3>6, <3>7, <3>8 DEF ChainKept
  <2> QED
    BY <2>2, <2>3 DEF ChainInv
<1>15. ASSUME NEW j \in PollJobs, NEW w \in PollWorkers, TakePoll(j, w) PROVE ChainInv'
  <2>1. /\ UNCHANGED <<polling, missed, moLast, pollCut, pollFaults, fresh>>
        /\ sweepPc[w] = "idle" /\ sweepPc' = [sweepPc EXCEPT ![w] = "start"]
        /\ pollJob' = [pollJob EXCEPT ![w] = j]
        /\ pollPhase[j] = "waiting" /\ pollExec[j] = NoPoller
        /\ pollPhase' = [pollPhase EXCEPT ![j] = "taken"]
        /\ pollExec' = [pollExec EXCEPT ![j] = w]
        /\ pollRuns' = [pollRuns EXCEPT ![j] = @ + 1]
    BY <1>15 DEF TakePoll, SweepGoes, PollAside, ChainAside, PQ!Take
  <2>2. w \in Sweepers /\ \A v \in PollWorkers : sweepPc[v] # "idle" => pollJob[v] # j
    BY <1>0, <2>1 DEF PollTypes, Sweepers
  <2>3. PollTypes'
    BY <1>0, <2>1, <2>2 DEF PollTypes, SweepSteps, Sweepers
  <2>4. ASSUME ChainSafe' PROVE ChainKept'
    <3>1. ChainKept
      BY <2>1, <2>4 DEF ChainSafe, ChainInv
    <3>2. \A v \in PollWorkers : sweepPc'[v] # "idle" => pollPhase'[pollJob'[v]] = "taken"
      BY <1>0, <2>1, <2>2, <3>1 DEF ChainKept, PollTypes, Sweepers
    <3>3. \A k \in PollJobs :
            pollRuns'[k] <= pollFaults' \/ pollPhase'[k] \in {"absent", "over"}
              \/ (pollExec'[k] # NoPoller /\ pollRuns'[k] <= pollFaults' + 1)
      BY <1>0, <2>1, <3>1 DEF ChainKept, PollTypes
    <3>4. \A k \in PollJobs : InFlight(k) => InFlight(k)'
      BY <1>0, <2>1 DEF InFlight, PollTypes
    <3>5. polling' /\ ~missed' => \A v \in PollWorkers : sweepPc'[v] = "return" => OtherPoll(v)'
      BY <1>0, <2>1, <2>2, <3>1, <3>4 DEF ChainKept, OtherPoll, PollTypes
    <3>6. sweepPc'[w] # "idle"
      BY <1>0, <2>1, <2>2 DEF PollTypes
    <3> QED
      BY <3>2, <3>3, <3>5, <3>6 DEF ChainKept
  <2> QED
    BY <2>3, <2>4 DEF ChainInv
<1>16. CASE UNCHANGED moVars
  BY <1>0, <1>16, SweepKeepsChain DEF moVars, pollQueue, sweepVars, PollTypes
<1> QED
  BY <1>1, <1>2, <1>3, <1>4, <1>5, <1>6, <1>7, <1>8, <1>10, <1>11, <1>12, <1>13, <1>14, <1>15,
     <1>16
  DEF MoNext, PollStep, SweepStep, Sweepers

\* "'On' means: keep exactly one mo.ingest.poll job in flight": with one worker,
\* and unless polling is switched on behind a job's last look, fewer faults than
\* attempts never break the chain, in whatever order sweeps, crashes, rejected
\* calls, recoveries and operators come.
THEOREM ChainStaysAlive == MoSpec => []ChainAlive
<1>1. ChainInv => ChainAlive
  <2> SUFFICES ASSUME ChainInv, ChainSafe, polling, ~missed PROVE \E j \in PollJobs : InFlight(j)
    BY DEF ChainAlive, ChainSafe
  <2>1. ChainKept /\ PollTypes
    BY DEF ChainInv
  <2>2. CASE \A w \in PollWorkers : sweepPc[w] = "idle"
    BY <2>1, <2>2 DEF ChainKept
  <2>3. ASSUME NEW w \in PollWorkers, sweepPc[w] # "idle" PROVE \E j \in PollJobs : InFlight(j)
    BY <2>1, <2>3 DEF ChainKept, PollTypes, InFlight
  <2> QED
    BY <2>2, <2>3
<1>2. ChainInv /\ [MoNext]_moVars => ChainInv'
  BY NextChainInv
<1>3. QED
  BY <1>1, <1>2, InitChainInv, PTL DEF MoSpec

-----------------------------------------------------------------------------
(* The deliveries of an inbound message.                                   *)

CallSteps == {"idle", "load", "call", "write", "done", "bury", "retry"}

\* The types the proof needs.
CallTypes ==
  /\ callPhase \in [CallJobs -> {"absent", "waiting", "taken", "over"}]
  /\ callExec \in [CallJobs -> Couriers \cup {NoCourier}]
  /\ moStatus \in [MoRowIds -> {"none", "pending", "running", "failed", "dead_letter", "delivered"}]
  /\ retries \in [MoRowIds -> 0..MaxRetries]
  /\ callPc \in [Couriers -> CallSteps]
  /\ callJob \in [Couriers -> CallJobs \cup {NoCourier}]
  /\ \A w \in Couriers : callPc[w] # "idle" => callJob[w] \in CallJobs

\* At most one job of a row is live, unless the row was retried too early, and
\* it belongs to a written row.
OneLive ==
  /\ \A j, k \in CallJobs :
       LiveCall(j) /\ LiveCall(k) /\ j[1] = k[1] => j = k \/ j[1] \in overlapped
  /\ \A j \in CallJobs : LiveCall(j) => moStatus[j[1]] # "none"

\* A busy worker is its job's executor.
BusyExecutes == \A w \in Couriers : callPc[w] # "idle" => callExec[callJob[w]] = w

\* No worker is about to write a row that is delivered and was not retried too
\* early.
DeliveredAtRest ==
  \A w \in Couriers :
    callPc[w] # "idle" /\ moStatus[MyRow(w)] = "delivered" =>
      callPc[w] \in {"load", "done"} \/ MyRow(w) \in overlapped

CallInv == CallTypes /\ OneLive /\ BusyExecutes /\ DeliveredAtRest

\* No row is written yet.
LEMMA InitCallInv == CallInit => CallInv
  BY CallBounds, CallActors
  DEF CallInit, CQ!Init, CallInv, CallTypes, OneLive, BusyExecutes, DeliveredAtRest,
      LiveCall, CallSteps

\* A new job for a row that has no live one, or was retried too early.
LEMMA SubmitCallInv ==
  ASSUME CallInv, NEW r \in MoRowIds, NEW j \in CallJobs, j[1] = r, CQ!Submit(j),
         overlapped \subseteq overlapped',
         r \in overlapped' \/ \A k \in CallJobs : k[1] = r => ~LiveCall(k),
         moStatus' = [moStatus EXCEPT ![r] = "pending"],
         retries' \in [MoRowIds -> 0..MaxRetries],
         UNCHANGED <<callPc, callJob>>
  PROVE  CallInv'
<1> USE DEF CallInv
<1>1. callPhase' = [callPhase EXCEPT ![j] = "waiting"] /\ callExec' = callExec
  BY DEF CQ!Submit
<1>2. CallTypes'
  BY <1>1 DEF CallTypes
<1>3. \A k \in CallJobs : LiveCall(k)' => k = j \/ LiveCall(k)
  BY <1>1 DEF LiveCall, CallTypes
<1>4. \A k \in CallJobs : k[1] \in MoRowIds
  BY DEF CallJobs
<1>5. OneLive'
  BY <1>3, <1>4 DEF OneLive, CallTypes
<1>6. BusyExecutes' /\ DeliveredAtRest'
  BY <1>1, <1>4 DEF BusyExecutes, DeliveredAtRest, MyRow, CallTypes
<1> QED
  BY <1>2, <1>5, <1>6

\* A worker's own step on its row: it stays the executor, and what it writes
\* leaves a delivered row alone.
LEMMA StepCallInv ==
  ASSUME CallInv, NEW w \in Couriers, callPc[w] # "idle", NEW to \in CallSteps,
         NEW s \in {"running", "failed", "dead_letter", "delivered"},
         callPc' = [callPc EXCEPT ![w] = to],
         moStatus' \in {moStatus, [moStatus EXCEPT ![MyRow(w)] = s]},
         to # "idle",
         moStatus'[MyRow(w)] = "delivered" => to \in {"load", "done"} \/ MyRow(w) \in overlapped,
         UNCHANGED <<callQueue, retries, callJob, overlapped>>
  PROVE  CallInv'
<1> USE DEF CallInv
<1>1. callJob[w] \in CallJobs /\ MyRow(w) \in MoRowIds
  BY DEF CallTypes, MyRow, CallJobs
<1>2. moStatus[MyRow(w)] # "none"
  BY <1>1, CallActors DEF OneLive, BusyExecutes, LiveCall, MyRow
<1>3. CallTypes'
  BY <1>1 DEF CallTypes, callQueue
<1>4. \A r \in MoRowIds : moStatus'[r] = "none" <=> moStatus[r] = "none"
  BY <1>1, <1>2 DEF CallTypes
<1>5. \A j \in CallJobs : j[1] \in MoRowIds
  BY DEF CallJobs
<1>6. OneLive'
  BY <1>4, <1>5 DEF OneLive, LiveCall, callQueue
<1>7. BusyExecutes'
  BY DEF BusyExecutes, callQueue, CallTypes
<1>8. \A v \in Couriers :
        v # w /\ callPc[v] # "idle" /\ MyRow(v) = MyRow(w) => MyRow(w) \in overlapped
  <2> SUFFICES ASSUME NEW v \in Couriers, v # w, callPc[v] # "idle", MyRow(v) = MyRow(w)
               PROVE  MyRow(w) \in overlapped
    OBVIOUS
  <2>1. callJob[v] \in CallJobs /\ callExec[callJob[v]] = v /\ callExec[callJob[w]] = w
    BY DEF BusyExecutes, CallTypes
  <2>2. callJob[v] = callJob[w] \/ MyRow(w) \in overlapped
    BY <1>1, <2>1, CallActors DEF OneLive, LiveCall, MyRow
  <2> QED
    BY <2>1, <2>2
<1>9. DeliveredAtRest'
  <2> SUFFICES ASSUME NEW v \in Couriers, callPc'[v] # "idle", moStatus'[MyRow(v)] = "delivered"
               PROVE  callPc'[v] \in {"load", "done"} \/ MyRow(v) \in overlapped
    BY DEF DeliveredAtRest, MyRow
  <2>1. CASE v = w
    BY <2>1 DEF CallTypes
  <2>2. CASE v # w
    <3>1. callPc'[v] = callPc[v] /\ MyRow(v) \in MoRowIds
      BY <2>2 DEF CallTypes, MyRow, CallJobs
    <3>2. CASE MyRow(v) = MyRow(w)
      BY <1>8, <2>2, <3>1, <3>2
    <3>3. CASE MyRow(v) # MyRow(w)
      BY <1>1, <3>1, <3>3 DEF DeliveredAtRest, CallTypes
    <3> QED
      BY <3>2, <3>3
  <2> QED
    BY <2>1, <2>2
<1> QED
  BY <1>3, <1>6, <1>7, <1>9

\* A worker leaves its job, and no other job becomes live.
LEMMA LeaveCallInv ==
  ASSUME CallInv, NEW w \in Couriers, callPc[w] # "idle", ForgetCall(w),
         callExec' = [callExec EXCEPT ![callJob[w]] = NoCourier],
         callPhase' \in [CallJobs -> {"absent", "waiting", "taken", "over"}],
         \A k \in CallJobs : k # callJob[w] => callPhase'[k] = callPhase[k],
         UNCHANGED <<moStatus, retries, overlapped>>
  PROVE  CallInv'
<1> USE DEF CallInv
<1>1. callJob[w] \in CallJobs /\ callExec[callJob[w]] = w
  BY DEF CallTypes, BusyExecutes
<1>2. /\ callPc' = [callPc EXCEPT ![w] = "idle"]
      /\ callJob' = [callJob EXCEPT ![w] = NoCourier]
  BY DEF ForgetCall
<1>3. CallTypes'
  BY <1>1, <1>2 DEF CallTypes, CallSteps
<1>4. \A k \in CallJobs : LiveCall(k)' => LiveCall(k)
  BY <1>1, CallActors DEF LiveCall, CallTypes
<1>5. OneLive'
  BY <1>4 DEF OneLive
<1>6. BusyExecutes'
  BY <1>1, <1>2 DEF BusyExecutes, CallTypes
<1>7. DeliveredAtRest'
  BY <1>2 DEF DeliveredAtRest, MyRow, CallTypes
<1> QED
  BY <1>3, <1>5, <1>6, <1>7

\* Every step keeps the invariant and every delivered row, but one that was
\* retried too early.
LEMMA NextCallInv ==
  ASSUME CallInv, [CallNext]_callVars
  PROVE  /\ CallInv'
         /\ \A r \in MoRowIds :
              moStatus[r] = "delivered" /\ r \notin overlapped => moStatus'[r] = "delivered"
<1> DEFINE Kept == \A r \in MoRowIds :
                     moStatus[r] = "delivered" /\ r \notin overlapped => moStatus'[r] = "delivered"
           Goal == CallInv' /\ Kept
<1>0. CallTypes /\ OneLive /\ BusyExecutes /\ DeliveredAtRest
  BY DEF CallInv
<1>1. moStatus' = moStatus => Kept
  OBVIOUS
<1>2. ASSUME NEW r \in MoRowIds, FanOut(r) PROVE Goal
  <2>1. <<r, 0>> \in CallJobs
    BY CallBounds DEF CallJobs
  <2>2. \A k \in CallJobs : k[1] = r => ~LiveCall(k)
    BY <1>0, <1>2 DEF FanOut, OneLive
  <2>3. CallInv'
    BY <1>0, <1>2, <2>1, <2>2, SubmitCallInv DEF FanOut, EnqueueCall, CallTypes
  <2>4. Kept
    BY <1>0, <1>2 DEF FanOut, CallTypes
  <2> QED
    BY <2>3, <2>4
<1>3. ASSUME IngestMessage PROVE Goal
  <2>1. 0 \in MoRowIds
    BY CallBounds DEF MoRowIds
  <2> QED
    BY <1>2, <1>3, <2>1 DEF IngestMessage
<1>4. ASSUME NEW r \in MoRowIds, Redispatch(r) PROVE Goal
  BY <1>2, <1>4 DEF Redispatch
<1>5. ASSUME NEW r \in MoRowIds, RetryDelivery(r) PROVE Goal
  <2>1. retries[r] + 1 \in 0..MaxRetries
    BY <1>0, <1>5, CallBounds DEF RetryDelivery, CallTypes
  <2>2. <<r, retries[r] + 1>> \in CallJobs /\ retries' \in [MoRowIds -> 0..MaxRetries]
    BY <1>0, <1>5, <2>1 DEF RetryDelivery, CallJobs, CallTypes
  <2>3. moStatus[r] \in {"failed", "dead_letter"}
    BY <1>5 DEF RetryDelivery, Retryable
  <2>4. overlapped \subseteq overlapped' /\ (r \in overlapped' \/ ~HasLiveCall(r))
    BY <1>5 DEF RetryDelivery
  <2>5. ~HasLiveCall(r) => \A k \in CallJobs : k[1] = r => ~LiveCall(k)
    BY DEF HasLiveCall, CallJobs
  <2>6. CallInv'
    BY <1>5, <2>2, <2>4, <2>5, SubmitCallInv DEF RetryDelivery, EnqueueCall
  <2>7. Kept
    BY <1>0, <1>5, <2>3 DEF RetryDelivery, CallTypes
  <2> QED
    BY <2>6, <2>7
<1>6. ASSUME NEW j \in CallJobs, CancelCall(j) \/ RecoverCall(j) PROVE Goal
  <2>1. /\ UNCHANGED <<moStatus, retries, callPc, callJob, callExec, overlapped>>
        /\ callPhase' \in [CallJobs -> {"absent", "waiting", "taken", "over"}]
        /\ \A k \in CallJobs :
             callPhase'[k] \in {"waiting", "taken"} => callPhase[k] \in {"waiting", "taken"}
    BY <1>0, <1>6 DEF CancelCall, RecoverCall, CallAside, CQ!Withdraw, CQ!Recover, CallTypes
  <2>2. \A k \in CallJobs : LiveCall(k)' => LiveCall(k)
    BY <2>1 DEF LiveCall
  <2>3. CallTypes'
    BY <1>0, <2>1 DEF CallTypes
  <2>4. OneLive'
    BY <1>0, <2>1, <2>2 DEF OneLive
  <2>5. BusyExecutes' /\ DeliveredAtRest'
    BY <1>0, <2>1 DEF BusyExecutes, DeliveredAtRest, MyRow
  <2> QED
    BY <1>1, <2>1, <2>3, <2>4, <2>5 DEF CallInv
<1>7. ASSUME NEW j \in CallJobs, NEW w \in Couriers, TakeCall(j, w) PROVE Goal
  <2>1. /\ UNCHANGED <<moStatus, retries, overlapped>>
        /\ callPc[w] = "idle" /\ callPc' = [callPc EXCEPT ![w] = "load"]
        /\ callJob' = [callJob EXCEPT ![w] = j]
        /\ callPhase[j] = "waiting" /\ callExec[j] = NoCourier
        /\ callPhase' = [callPhase EXCEPT ![j] = "taken"]
        /\ callExec' = [callExec EXCEPT ![j] = w]
    BY <1>7 DEF TakeCall, CallGoes, CallAside, CQ!Take
  <2>2. CallTypes'
    BY <1>0, <2>1 DEF CallTypes, CallSteps
  <2>3. \A k \in CallJobs : LiveCall(k)' => LiveCall(k)
    BY <1>0, <2>1 DEF LiveCall, CallTypes
  <2>4. OneLive'
    BY <1>0, <2>1, <2>3 DEF OneLive
  <2>5. BusyExecutes'
    BY <1>0, <2>1, CallActors DEF BusyExecutes, CallTypes
  <2>6. DeliveredAtRest'
    BY <1>0, <2>1 DEF DeliveredAtRest, MyRow, CallTypes
  <2> QED
    BY <1>1, <2>1, <2>2, <2>4, <2>5, <2>6 DEF CallInv
<1>8. ASSUME NEW w \in Couriers, LoadRow(w) PROVE Goal
  <2>1. MyRow(w) \in MoRowIds
    BY <1>0, <1>8 DEF LoadRow, CallTypes, MyRow, CallJobs
  <2>2. CASE DoneAlready(MyRow(w))
    <3>1. callPc' = [callPc EXCEPT ![w] = "done"] /\ moStatus' = moStatus
      BY <1>8, <2>2 DEF LoadRow, CallGoes
    <3> QED
      BY <1>1, <1>8, <3>1, StepCallInv DEF LoadRow, CallAside, CallSteps
  <2>3. CASE ~DoneAlready(MyRow(w))
    <3>1. /\ callPc' = [callPc EXCEPT ![w] = "call"]
          /\ moStatus' = [moStatus EXCEPT ![MyRow(w)] = "running"]
      BY <1>8, <2>3 DEF LoadRow, CallGoes
    <3>2. moStatus'[MyRow(w)] = "running"
      BY <1>0, <2>1, <3>1 DEF CallTypes
    <3>3. CallInv'
      BY <1>8, <3>1, <3>2, StepCallInv DEF LoadRow, CallAside, CallSteps
    <3>4. Kept
      BY <1>0, <2>1, <2>3, <3>1 DEF DoneAlready, CallTypes
    <3> QED
      BY <3>3, <3>4
  <2> QED
    BY <2>2, <2>3
<1>9. ASSUME NEW w \in Couriers, CallDestination(w) PROVE Goal
  <2>1. callPc[w] = "call" /\ callPc' = [callPc EXCEPT ![w] = "write"] /\ moStatus' = moStatus
    BY <1>9 DEF CallDestination, CallGoes
  <2>2. moStatus[MyRow(w)] # "delivered" \/ MyRow(w) \in overlapped
    BY <1>0, <2>1 DEF DeliveredAtRest
  <2> QED
    BY <1>1, <1>9, <2>1, <2>2, StepCallInv DEF CallDestination, CallAside, CallSteps
<1>10. ASSUME NEW w \in Couriers, WriteOutcome(w) PROVE Goal
  <2>1. MyRow(w) \in MoRowIds
    BY <1>0, <1>10 DEF WriteOutcome, CallTypes, MyRow, CallJobs
  <2>2. moStatus[MyRow(w)] # "delivered" \/ MyRow(w) \in overlapped
    BY <1>0, <1>10 DEF WriteOutcome, DeliveredAtRest
  <2>3. PICK s \in {"failed", "dead_letter", "delivered"}, to \in {"done", "bury", "retry"} :
          /\ moStatus' = [moStatus EXCEPT ![MyRow(w)] = s]
          /\ callPc' = [callPc EXCEPT ![w] = to]
          /\ s = "delivered" => to = "done"
    BY <1>10 DEF WriteOutcome, CallGoes
  <2>4. moStatus'[MyRow(w)] = s
    BY <1>0, <2>1, <2>3 DEF CallTypes
  <2>5. CallInv'
    BY <1>10, <2>3, <2>4, StepCallInv DEF WriteOutcome, CallAside, CallSteps
  <2>6. Kept
    BY <1>0, <2>1, <2>2, <2>3 DEF CallTypes
  <2> QED
    BY <2>5, <2>6
<1>11. ASSUME NEW w \in Couriers, EndCall(w) \/ RetryCall(w) \/ ThrowCall(w) \/ CrashCall(w)
       PROVE  Goal
  <2>1. /\ callPc[w] # "idle" /\ ForgetCall(w) /\ UNCHANGED <<moStatus, retries, overlapped>>
        /\ CQ!Settle(callJob[w]) \/ CQ!Lose(callJob[w])
    BY <1>11 DEF EndCall, RetryCall, ThrowCall, CrashCall, CallReports, CallAside
  <2>2. callJob[w] \in CallJobs
    BY <1>0, <2>1 DEF CallTypes
  <2>3. /\ callExec' = [callExec EXCEPT ![callJob[w]] = NoCourier]
        /\ callPhase' \in [CallJobs -> {"absent", "waiting", "taken", "over"}]
        /\ \A k \in CallJobs : k # callJob[w] => callPhase'[k] = callPhase[k]
    BY <1>0, <2>1, <2>2 DEF CQ!Settle, CQ!Lose, CallTypes
  <2> QED
    BY <1>1, <2>1, <2>3, LeaveCallInv
<1>12. ASSUME UNCHANGED callVars PROVE Goal
  <2>1. CallInv'
    BY <1>0, <1>12
    DEF callVars, callQueue, CallInv, CallTypes, OneLive, LiveCall, BusyExecutes, DeliveredAtRest,
        MyRow
  <2> QED
    BY <1>1, <1>12, <2>1 DEF callVars
<1>13. Goal
  <2> HIDE DEF Goal
  <2> QED
    BY <1>3, <1>4, <1>5, <1>6, <1>7, <1>8, <1>9, <1>10, <1>11, <1>12 DEF CallNext, CallStep
<1> QED
  BY <1>13

\* A delivered row goes back only if it was retried while an earlier job of its
\* own was live: otherwise the outcome that dispatch() writes by id alone is
\* that of the row's only worker, whatever else the operator does.
THEOREM DeliveredRowsStay == CallSpec => DeliveredStays
<1>1. CallInv /\ [CallNext]_callVars => CallInv'
  BY NextCallInv
<1>2. CallInv /\ [CallNext]_callVars =>
        [\A r \in MoRowIds : moStatus[r] = "delivered" /\ r \notin overlapped =>
           moStatus'[r] = "delivered"]_callVars
  BY NextCallInv
<1>3. QED
  BY <1>1, <1>2, InitCallInv, PTL DEF CallSpec, DeliveredStays

-----------------------------------------------------------------------------
(* The budget of a delivery job.                                           *)

\* The types the proof needs.
BudgetTypes ==
  /\ callPhase \in [CallJobs -> {"absent", "waiting", "taken", "over"}]
  /\ callExec \in [CallJobs -> Couriers \cup {NoCourier}]
  /\ callRuns \in [CallJobs -> Nat]
  /\ callPc \in [Couriers -> CallSteps]
  /\ callJob \in [Couriers -> CallJobs \cup {NoCourier}]
  /\ \A w \in Couriers : callPc[w] # "idle" => callJob[w] \in CallJobs
  /\ calls \in [CallJobs -> Nat] /\ callFaults \in Nat

\* An attempt that has not called yet has a call left; so has a job that may be
\* attempted again; and a failure is retried only below the limit.
BudgetLeft ==
  /\ \A j \in CallJobs :
       /\ calls[j] <= callRuns[j] + callFaults
       /\ calls[j] <= CallLimit + callFaults
       /\ callExec[j] = NoCourier /\ callPhase[j] # "over" => calls[j] < CallLimit + callFaults
  /\ \A w \in Couriers :
       /\ callPc[w] \in {"load", "call"} =>
            /\ calls[callJob[w]] < callRuns[callJob[w]] + callFaults
            /\ calls[callJob[w]] < CallLimit + callFaults
       /\ callPc[w] = "retry" => callRuns[callJob[w]] < CallLimit

BudgetInv == BudgetTypes /\ BusyExecutes /\ BudgetLeft

\* No call is made yet.
LEMMA InitBudgetInv == CallInit => BudgetInv
  BY CallBounds, CallActors
  DEF CallInit, CQ!Init, BudgetInv, BudgetTypes, BusyExecutes, BudgetLeft, CallSteps

\* Every step keeps the invariant, whenever operators act.
LEMMA NextBudgetInv ==
  ASSUME BudgetInv, [CallNext]_callVars
  PROVE  BudgetInv'
<1> USE CallBounds, CallActors DEF BudgetInv
<1>1. ASSUME NEW j \in CallJobs, CQ!Submit(j), UNCHANGED <<callPc, callJob, calls, callFaults>>
      PROVE  BudgetInv'
  BY <1>1 DEF CQ!Submit, BudgetTypes, BusyExecutes, BudgetLeft
<1>2. ASSUME IngestMessage PROVE BudgetInv'
  <2>1. <<0, 0>> \in CallJobs
    BY DEF CallJobs, MoRowIds
  <2> QED
    BY <1>1, <1>2, <2>1 DEF IngestMessage, FanOut, EnqueueCall
<1>3. ASSUME NEW r \in MoRowIds, Redispatch(r) PROVE BudgetInv'
  <2>1. <<r, 0>> \in CallJobs
    BY DEF CallJobs
  <2> QED
    BY <1>1, <1>3, <2>1 DEF Redispatch, FanOut, EnqueueCall
<1>4. ASSUME NEW r \in MoRowIds, RetryDelivery(r) PROVE BudgetInv'
  BY <1>4 DEF RetryDelivery, EnqueueCall, CQ!Submit, BudgetTypes, BusyExecutes, BudgetLeft
<1>5. ASSUME NEW j \in CallJobs, CancelCall(j) \/ RecoverCall(j) PROVE BudgetInv'
  <2>1. /\ UNCHANGED <<callExec, callRuns, callPc, callJob, calls, callFaults>>
        /\ callPhase' \in [CallJobs -> {"absent", "waiting", "taken", "over"}]
        /\ \A k \in CallJobs : callPhase'[k] # "over" => callPhase[k] # "over"
    BY <1>5 DEF CancelCall, RecoverCall, CQ!Withdraw, CQ!Recover, BudgetTypes
  <2> QED
    BY <2>1 DEF BudgetTypes, BusyExecutes, BudgetLeft
<1>6. ASSUME NEW j \in CallJobs, NEW w \in Couriers, TakeCall(j, w) PROVE BudgetInv'
  <2>1. /\ callPc[w] = "idle" /\ callPc' = [callPc EXCEPT ![w] = "load"]
        /\ callJob' = [callJob EXCEPT ![w] = j]
        /\ callPhase[j] = "waiting" /\ callExec[j] = NoCourier
        /\ callPhase' = [callPhase EXCEPT ![j] = "taken"]
        /\ callExec' = [callExec EXCEPT ![j] = w]
        /\ callRuns' = [callRuns EXCEPT ![j] = @ + 1]
        /\ UNCHANGED <<calls, callFaults>>
    BY <1>6 DEF TakeCall, CallGoes, CQ!Take
  <2>2. BudgetTypes'
    BY <2>1 DEF BudgetTypes, CallSteps
  <2>3. \A v \in Couriers : callPc[v] # "idle" => v # w /\ callJob[v] # j
    BY <2>1 DEF BusyExecutes
  <2>4. BusyExecutes'
    BY <2>1, <2>3 DEF BusyExecutes, BudgetTypes
  <2>5. BudgetLeft'
    BY <2>1, <2>3 DEF BudgetLeft, BudgetTypes, CallSteps
  <2> QED
    BY <2>2, <2>4, <2>5
<1>7. ASSUME NEW w \in Couriers, LoadRow(w) \/ WriteOutcome(w) PROVE BudgetInv'
  <2>1. PICK to \in CallSteps :
          /\ to # "idle" /\ callPc[w] # "idle" /\ callPc' = [callPc EXCEPT ![w] = to]
          /\ to \in {"load", "call"} => callPc[w] \in {"load", "call"}
          /\ to = "retry" => callRuns[callJob[w]] < CallLimit
    <3>1. CASE LoadRow(w)
      BY <3>1 DEF LoadRow, CallGoes, CallSteps
    <3>2. CASE WriteOutcome(w)
      <4> DEFINE to == IF callAnswer[w] = "delivered" THEN "done"
                       ELSE IF OutOfCalls(Attempted(w)) THEN "bury" ELSE "retry"
      <4>1. callPc[w] = "write" /\ callPc' = [callPc EXCEPT ![w] = to]
        BY <3>2 DEF WriteOutcome, CallGoes
      <4>2. to = "retry" => callRuns[callJob[w]] < CallLimit
        BY <4>1 DEF OutOfCalls, Attempted, BudgetTypes
      <4>3. to \in {"done", "bury", "retry"}
        OBVIOUS
      <4> QED
        BY <4>1, <4>2, <4>3 DEF CallSteps
    <3> QED
      BY <1>7, <3>1, <3>2
  <2>2. UNCHANGED <<callPhase, callExec, callRuns, callJob, calls, callFaults>>
    BY <1>7 DEF LoadRow, WriteOutcome, callQueue
  <2> QED
    BY <2>1, <2>2 DEF BudgetTypes, BusyExecutes, BudgetLeft
<1>8. ASSUME NEW w \in Couriers, CallDestination(w) PROVE BudgetInv'
  <2>1. /\ callPc[w] = "call" /\ callPc' = [callPc EXCEPT ![w] = "write"]
        /\ calls' = [calls EXCEPT ![callJob[w]] = @ + 1]
        /\ UNCHANGED <<callPhase, callExec, callRuns, callJob, callFaults>>
    BY <1>8 DEF CallDestination, CallGoes, callQueue
  <2>2. /\ callJob[w] \in CallJobs /\ callExec[callJob[w]] = w
        /\ \A v \in Couriers : callPc[v] # "idle" /\ v # w => callJob[v] # callJob[w]
    BY <2>1 DEF BudgetTypes, BusyExecutes
  <2>3. BudgetTypes' /\ BusyExecutes'
    BY <2>1, <2>2 DEF BudgetTypes, BusyExecutes, CallSteps
  <2>4. BudgetLeft'
    BY <2>1, <2>2 DEF BudgetLeft, BudgetTypes, CallSteps
  <2> QED
    BY <2>3, <2>4
<1>9. ASSUME NEW w \in Couriers, EndCall(w) \/ RetryCall(w) \/ ThrowCall(w) \/ CrashCall(w)
      PROVE  BudgetInv'
  <2>1. /\ callPc[w] # "idle" /\ ForgetCall(w) /\ UNCHANGED <<calls, callRuns>>
        /\ callExec' = [callExec EXCEPT ![callJob[w]] = NoCourier]
        /\ callFaults' \in {callFaults, callFaults + 1}
    BY <1>9
    DEF EndCall, RetryCall, ThrowCall, CrashCall, CallReports, CallFault, CQ!Settle, CQ!Lose
  <2>2. /\ callJob[w] \in CallJobs /\ callExec[callJob[w]] = w
        /\ \A v \in Couriers : callPc[v] # "idle" /\ v # w => callJob[v] # callJob[w]
    BY <2>1 DEF BudgetTypes, BusyExecutes
  <2>3. /\ callPhase' \in [CallJobs -> {"absent", "waiting", "taken", "over"}]
        /\ \A k \in CallJobs : k # callJob[w] => callPhase'[k] = callPhase[k]
    BY <1>9, <2>2
    DEF EndCall, RetryCall, ThrowCall, CrashCall, CallReports, CQ!Settle, CQ!Lose, BudgetTypes
  <2>4. /\ callPc' = [callPc EXCEPT ![w] = "idle"]
        /\ callJob' = [callJob EXCEPT ![w] = NoCourier]
    BY <2>1 DEF ForgetCall
  <2>5. BudgetTypes'
    <3>1. /\ callExec' \in [CallJobs -> Couriers \cup {NoCourier}] /\ callFaults' \in Nat
          /\ calls' \in [CallJobs -> Nat] /\ callRuns' \in [CallJobs -> Nat]
      BY <2>1, <2>2 DEF BudgetTypes
    <3>2. /\ callPc' \in [Couriers -> CallSteps]
          /\ callJob' \in [Couriers -> CallJobs \cup {NoCourier}]
          /\ \A v \in Couriers : callPc'[v] # "idle" => callJob'[v] \in CallJobs
      BY <2>4 DEF BudgetTypes, CallSteps
    <3> QED
      BY <2>3, <3>1, <3>2 DEF BudgetTypes
  <2>6. BusyExecutes'
    BY <2>1, <2>2, <2>4 DEF BudgetTypes, BusyExecutes
  <2>7. callPhase'[callJob[w]] = "over" \/ callFaults' = callFaults + 1 \/ callPc[w] = "retry"
    BY <1>9, <2>2
    DEF EndCall, RetryCall, ThrowCall, CrashCall, CallReports, CallFault, CQ!Settle, CQ!Lose
  <2>8. callPhase'[callJob[w]] # "over" => calls[callJob[w]] < CallLimit + callFaults'
    <3>1. CASE callFaults' = callFaults + 1
      BY <2>2, <3>1 DEF BudgetLeft, BudgetTypes
    <3>2. CASE callPc[w] = "retry" /\ callFaults' = callFaults
      BY <2>2, <3>2 DEF BudgetLeft, BudgetTypes
    <3> QED
      BY <2>1, <2>7, <3>1, <3>2
  <2>9. BudgetLeft'
    BY <2>1, <2>2, <2>3, <2>4, <2>8 DEF BudgetLeft, BudgetTypes, CallSteps
  <2> QED
    BY <2>5, <2>6, <2>9
<1>10. ASSUME UNCHANGED callVars PROVE BudgetInv'
  BY <1>10 DEF callVars, callQueue, BudgetTypes, BusyExecutes, BudgetLeft
<1> HIDE DEF BudgetInv
<1> QED
  BY <1>2, <1>3, <1>4, <1>5, <1>6, <1>7, <1>8, <1>9, <1>10 DEF CallNext, CallStep

\* The two limits, the destination's and the queue's, never let a job call its
\* destination more than CallLimit times and once per lost outcome, whoever
\* retries, redispatches or cancels, and whenever.
THEOREM CallsStayBounded == CallSpec => []CallsBounded
<1>1. BudgetInv => CallsBounded
  BY DEF BudgetInv, BudgetLeft, CallsBounded
<1>2. BudgetInv /\ [CallNext]_callVars => BudgetInv'
  BY NextBudgetInv
<1>3. QED
  BY <1>1, <1>2, InitBudgetInv, PTL DEF CallSpec

-----------------------------------------------------------------------------
(* Forwarding receipts.                                                    *)

Verdicts == {"delivered", "failed", "dead_letter", "refused"}

\* The types the proof needs, and a busy worker is its job's executor.
ForwardTypes ==
  /\ fwdPhase \in [Receipts -> {"absent", "waiting", "taken", "over"}]
  /\ fwdExec \in [Receipts -> Forwarders \cup {NoForwarder}]
  /\ fwdRuns \in [Receipts -> Nat]
  /\ fwdStatus \in [Receipts -> {"none", "pending"} \cup Verdicts]
  /\ fwdFaults \in Nat
  /\ claimed \in [FwdSweeps -> SUBSET Receipts]
  /\ fwdJob \in [Forwarders -> Receipts \cup {NoForwarder}]
  /\ DOMAIN fwdPc = Forwarders
  /\ \A w \in Forwarders :
       fwdPc[w] # "idle" => fwdJob[w] \in Receipts /\ fwdExec[fwdJob[w]] = w

\* A dispatch that is about to report has written its verdict.
VerdictsWritten ==
  \A w \in Forwarders : fwdPc[w] \in {"end", "retry"} => fwdStatus[fwdJob[w]] \in Verdicts

\* Every ended execution of a job whose receipt has no verdict met a fault.
FaultsPayRuns ==
  \A r \in Receipts :
    fwdStatus[r] \in {"none", "pending"} =>
      fwdRuns[r] <= fwdFaults + (IF fwdExec[r] = NoForwarder THEN 0 ELSE 1)

ForwardInv == ForwardTypes /\ VerdictsWritten /\ FaultsPayRuns /\ PendingIsCarried

\* Nothing has arrived yet.
LEMMA InitForwardInv == FwdInit => ForwardInv
  BY FwdActors
  DEF FwdInit, FQ!Init, ForwardInv, ForwardTypes, VerdictsWritten, FaultsPayRuns, PendingIsCarried

\* The sweeps: each pending attempt passes from its sweep to its job.
LEMMA SweepForwardInv ==
  ASSUME ForwardInv, NEW x \in FwdSweeps,
         ClaimReceipts(x) \/ SweepDies(x) \/ \E r \in Receipts : CreateForward(x, r)
  PROVE  ForwardInv'
<1> USE DEF ForwardInv, SweepAlone
<1>1. CASE ClaimReceipts(x)
  <2>1. /\ claimed' = [claimed EXCEPT ![x] = {r \in Receipts : Unclaimed(r)}]
        /\ claimed[x] = {}
        /\ fwdStatus' = [r \in Receipts |-> IF r \in claimed'[x] THEN "pending" ELSE fwdStatus[r]]
        /\ UNCHANGED <<fwdPhase, fwdExec, fwdRuns, fwdFaults, dropped, fwdPc, fwdJob>>
    BY <1>1 DEF ClaimReceipts, fwdQueue
  <2>2. claimed'[x] = {r \in Receipts : Unclaimed(r)}
    BY <2>1 DEF ForwardTypes
  <2>3. \A r \in Receipts :
          \/ r \in claimed'[x] /\ fwdStatus[r] = "none" /\ fwdStatus'[r] = "pending"
          \/ r \notin claimed'[x] /\ fwdStatus'[r] = fwdStatus[r]
    BY <2>1, <2>2 DEF Unclaimed
  <2>4. ForwardTypes'
    BY <2>1, <2>3 DEF ForwardTypes
  <2>5. VerdictsWritten'
    BY <2>1, <2>3 DEF VerdictsWritten, ForwardTypes, Verdicts
  <2>6. FaultsPayRuns'
    BY <2>1, <2>3 DEF FaultsPayRuns
  <2>7. PendingIsCarried'
    BY <2>1, <2>3 DEF PendingIsCarried, ForwardTypes
  <2> QED
    BY <2>4, <2>5, <2>6, <2>7
<1>2. CASE SweepDies(x)
  <2>1. /\ claimed' = [claimed EXCEPT ![x] = {}] /\ dropped' = dropped \cup claimed[x]
        /\ fwdFaults' = fwdFaults + 1
        /\ UNCHANGED <<fwdPhase, fwdExec, fwdRuns, fwdStatus, fwdPc, fwdJob>>
    BY <1>2 DEF SweepDies, FwdFault, fwdQueue
  <2>2. ForwardTypes' /\ VerdictsWritten'
    BY <2>1 DEF ForwardTypes, VerdictsWritten
  <2>3. FaultsPayRuns'
    BY <2>1 DEF ForwardTypes, FaultsPayRuns
  <2>4. ASSUME NEW q \in Receipts, NEW y \in FwdSweeps, q \in claimed[y]
        PROVE  q \in claimed'[y] \/ q \in dropped'
    BY <2>1, <2>4 DEF ForwardTypes
  <2>5. dropped \subseteq dropped' /\ (fwdFaults >= FwdLimit => fwdFaults' >= FwdLimit)
    BY <2>1, FwdBounds DEF ForwardTypes
  <2>6. PendingIsCarried'
    BY <2>1, <2>4, <2>5 DEF PendingIsCarried
  <2> QED
    BY <2>2, <2>3, <2>6
<1>3. ASSUME NEW r \in Receipts, CreateForward(x, r) PROVE ForwardInv'
  <2>1. /\ claimed' = [claimed EXCEPT ![x] = @ \ {r}]
        /\ fwdPhase' = [fwdPhase EXCEPT ![r] = "waiting"]
        /\ UNCHANGED <<fwdExec, fwdRuns, fwdStatus, fwdFaults, dropped, fwdPc, fwdJob>>
    BY <1>3 DEF CreateForward, CarryRest, FQ!Submit
  <2>2. ForwardTypes' /\ VerdictsWritten' /\ FaultsPayRuns'
    BY <2>1 DEF ForwardTypes, VerdictsWritten, FaultsPayRuns
  <2>3. ASSUME NEW q \in Receipts, q # r, NEW y \in FwdSweeps, q \in claimed[y]
        PROVE  q \in claimed'[y]
    BY <2>1, <2>3 DEF ForwardTypes
  <2>4. fwdPhase'[r] = "waiting" /\ \A q \in Receipts : q # r => fwdPhase'[q] = fwdPhase[q]
    BY <2>1 DEF ForwardTypes
  <2>5. PendingIsCarried'
    BY <2>1, <2>3, <2>4 DEF PendingIsCarried
  <2> QED
    BY <2>2, <2>5
<1> QED
  BY <1>1, <1>2, <1>3

\* A dispatch that goes on, writes or not, without ending.
LEMMA DispatchForwardInv ==
  ASSUME ForwardInv, NEW w \in Forwarders,
         CheckForward(w) \/ CallUrl(w) \/ WriteForward(w) \/ WriteRejected(w)
  PROVE  ForwardInv'
<1> USE DEF ForwardInv
<1>1. /\ UNCHANGED <<fwdPhase, fwdExec, fwdRuns, fwdJob, claimed, dropped>>
      /\ fwdFaults' \in {fwdFaults, fwdFaults + 1}
      /\ fwdPc[w] # "idle"
  BY DEF CheckForward, CallUrl, WriteForward, WriteRejected, FwdFault, FwdGoes, ForwardAlone,
         fwdQueue
<1>2. /\ fwdJob[w] \in Receipts /\ fwdExec[fwdJob[w]] = w
      /\ \A v \in Forwarders : v # w /\ fwdPc[v] # "idle" => fwdJob[v] # fwdJob[w]
  BY <1>1 DEF ForwardTypes
<1>3. PICK to \in {"end", "call", "complete", "recordRetry", "recordEnd", "retry"} :
        fwdPc' = [fwdPc EXCEPT ![w] = to]
  BY DEF CheckForward, CallUrl, WriteForward, WriteRejected, FwdGoes
<1>4. \/ fwdStatus' = fwdStatus
      \/ \E v \in Verdicts : fwdStatus' = [fwdStatus EXCEPT ![fwdJob[w]] = v]
  BY DEF CheckForward, CallUrl, WriteForward, WriteRejected, Verdicts
<1>5. to \in {"end", "retry"} => fwdStatus'[fwdJob[w]] \in Verdicts
  <2> SUFFICES ASSUME to \in {"end", "retry"} PROVE fwdStatus'[fwdJob[w]] \in Verdicts
    OBVIOUS
  <2>1. fwdPc'[w] = to
    BY <1>3 DEF ForwardTypes
  <2>2. CASE CheckForward(w)
    BY <1>2, <2>1, <2>2 DEF CheckForward, FwdGoes, ForwardTypes, Verdicts
  <2>3. CASE WriteForward(w)
    BY <1>2, <2>3 DEF WriteForward, ForwardTypes, Verdicts
  <2>4. CASE CallUrl(w) \/ WriteRejected(w)
    BY <2>1, <2>4 DEF CallUrl, WriteRejected, FwdGoes, ForwardTypes
  <2> QED
    BY <2>2, <2>3, <2>4
<1>6. ForwardTypes'
  BY <1>1, <1>2, <1>3, <1>4 DEF ForwardTypes
<1>7. VerdictsWritten'
  BY <1>1, <1>2, <1>3, <1>4, <1>5 DEF VerdictsWritten, ForwardTypes
<1>8. FaultsPayRuns'
  BY <1>1, <1>2, <1>4 DEF FaultsPayRuns, ForwardTypes, Verdicts
<1>9. PendingIsCarried'
  <2>1. fwdFaults' >= fwdFaults /\ fwdFaults \in Nat /\ fwdFaults' \in Nat
    BY <1>1 DEF ForwardTypes
  <2>2. \A r \in Receipts : fwdStatus'[r] = "pending" => fwdStatus[r] = "pending"
    BY <1>4 DEF ForwardTypes, Verdicts
  <2> QED
    BY <1>1, <2>1, <2>2, FwdBounds DEF PendingIsCarried
<1> QED
  BY <1>6, <1>7, <1>8, <1>9

\* A dispatch that ends: with its verdict written, or at the price of a fault.
LEMMA LeaveForwardInv ==
  ASSUME ForwardInv, NEW w \in Forwarders,
         EndForward(w) \/ ThrowForward(w) \/ CrashForward(w)
  PROVE  ForwardInv'
<1> USE FwdBounds, FwdActors DEF ForwardInv
<1> DEFINE r == fwdJob[w]
<1>1. /\ fwdPc[w] # "idle" /\ ForgetForward(w)
      /\ UNCHANGED <<fwdRuns, fwdStatus, claimed, dropped>>
      /\ fwdExec' = [fwdExec EXCEPT ![r] = NoForwarder]
  BY DEF EndForward, ThrowForward, CrashForward, ForwardReports, ForwardAlone, FQ!Settle, FQ!Lose
<1>2. /\ r \in Receipts /\ fwdExec[r] = w
      /\ \A v \in Forwarders : v # w /\ fwdPc[v] # "idle" => fwdJob[v] # r
  BY <1>1 DEF ForwardTypes
<1>3. \/ fwdFaults' = fwdFaults + 1
      \/ fwdFaults' = fwdFaults /\ fwdStatus[r] \in Verdicts
  BY DEF EndForward, ThrowForward, CrashForward, FwdFault, VerdictsWritten
<1>4. /\ fwdPhase' \in [Receipts -> {"absent", "waiting", "taken", "over"}]
      /\ \A q \in Receipts : q # r => fwdPhase'[q] = fwdPhase[q]
  BY <1>2
  DEF EndForward, ThrowForward, CrashForward, ForwardReports, FQ!Settle, FQ!Lose, ForwardTypes
<1>5. ForwardTypes'
  <2>1. fwdPc' = [fwdPc EXCEPT ![w] = "idle"] /\ fwdJob' = [fwdJob EXCEPT ![w] = NoForwarder]
    BY <1>1 DEF ForgetForward
  <2>2. /\ fwdExec' \in [Receipts -> Forwarders \cup {NoForwarder}] /\ fwdFaults' \in Nat
        /\ UNCHANGED <<fwdRuns, fwdStatus, claimed>>
    BY <1>1, <1>2, <1>3 DEF ForwardTypes
  <2>3. fwdJob' \in [Forwarders -> Receipts \cup {NoForwarder}] /\ DOMAIN fwdPc' = Forwarders
    BY <2>1 DEF ForwardTypes
  <2>4. ASSUME NEW v \in Forwarders, fwdPc'[v] # "idle"
        PROVE  fwdJob'[v] \in Receipts /\ fwdExec'[fwdJob'[v]] = v
    <3>1. v # w /\ fwdPc[v] # "idle" /\ fwdJob'[v] = fwdJob[v]
      BY <2>1, <2>4 DEF ForwardTypes
    <3> QED
      BY <1>1, <1>2, <3>1 DEF ForwardTypes
  <2> QED
    BY <1>4, <2>2, <2>3, <2>4 DEF ForwardTypes
<1>6. VerdictsWritten'
  BY <1>1, <1>2 DEF VerdictsWritten, ForgetForward, ForwardTypes
<1>7. FaultsPayRuns'
  BY <1>1, <1>2, <1>3 DEF FaultsPayRuns, ForwardTypes, Verdicts
<1>8. PendingIsCarried'
  <2>1. ASSUME fwdStatus[r] = "pending", fwdPhase'[r] \notin {"waiting", "taken"}
        PROVE  fwdPhase[r] = "over" \/ fwdRuns[r] >= FwdLimit
    <3>1. ThrowForward(w) \/ CrashForward(w)
      BY <1>3, <2>1 DEF EndForward, VerdictsWritten, Verdicts
    <3>2. CASE FQ!Lose(r)
      BY <2>1, <3>2 DEF FQ!Lose
    <3>3. CASE ThrowForward(w) /\ fwdPhase'[r] = AfterFailure(r)
      BY <1>2, <2>1, <3>3 DEF AfterFailure, ForwardTypes
    <3> QED
      BY <3>1, <3>2, <3>3 DEF ThrowForward, CrashForward, ForwardReports
  <2>2. fwdFaults' \in Nat /\ fwdFaults' >= fwdFaults
    BY <1>3 DEF ForwardTypes
  <2>3. fwdStatus[r] = "pending" => fwdRuns[r] <= fwdFaults'
    BY <1>2, <1>3 DEF FaultsPayRuns, ForwardTypes, Verdicts
  <2>4. ASSUME fwdStatus[r] = "pending", fwdPhase[r] = "over"
        PROVE  (\E x \in FwdSweeps : r \in claimed[x]) \/ r \in dropped \/ fwdFaults' >= FwdLimit
    BY <1>2, <2>2, <2>4 DEF PendingIsCarried, ForwardTypes
  <2>5. fwdStatus[r] = "pending" =>
          \/ \E x \in FwdSweeps : r \in claimed[x]
          \/ fwdPhase'[r] \in {"waiting", "taken"}
          \/ r \in dropped
          \/ fwdFaults' >= FwdLimit
    BY <1>2, <2>1, <2>2, <2>3, <2>4 DEF ForwardTypes
  <2> QED
    BY <1>1, <1>2, <1>4, <2>2, <2>5 DEF PendingIsCarried, ForwardTypes
<1> QED
  BY <1>5, <1>6, <1>7, <1>8

\* Every step keeps the invariant.
LEMMA NextForwardInv ==
  ASSUME ForwardInv, [FwdNext]_fwdVars
  PROVE  ForwardInv'
<1> USE FwdBounds, FwdActors DEF ForwardInv
<1>1. ASSUME NEW r \in Receipts, Receipt(r) PROVE ForwardInv'
  BY <1>1
  DEF Receipt, fwdQueue, ForwardTypes, VerdictsWritten, FaultsPayRuns, PendingIsCarried
<1>2. ASSUME NEW r \in Receipts, NEW w \in Forwarders, TakeForward(r, w) PROVE ForwardInv'
  <2>1. /\ fwdPc[w] = "idle" /\ fwdPc' = [fwdPc EXCEPT ![w] = "load"]
        /\ fwdJob' = [fwdJob EXCEPT ![w] = r]
        /\ fwdPhase[r] = "waiting" /\ fwdExec[r] = NoForwarder
        /\ fwdPhase' = [fwdPhase EXCEPT ![r] = "taken"]
        /\ fwdExec' = [fwdExec EXCEPT ![r] = w]
        /\ fwdRuns' = [fwdRuns EXCEPT ![r] = @ + 1]
        /\ UNCHANGED <<fwdStatus, fwdFaults, claimed, dropped>>
    BY <1>2 DEF TakeForward, FwdGoes, ForwardAlone, FQ!Take
  <2>2. \A v \in Forwarders : fwdPc[v] # "idle" => v # w /\ fwdJob[v] # r
    BY <2>1 DEF ForwardTypes
  <2>3. ForwardTypes'
    BY <2>1, <2>2 DEF ForwardTypes
  <2>4. VerdictsWritten'
    BY <2>1, <2>2 DEF VerdictsWritten, ForwardTypes
  <2>5. FaultsPayRuns'
    BY <2>1 DEF FaultsPayRuns, ForwardTypes
  <2>6. PendingIsCarried'
    BY <2>1 DEF PendingIsCarried, ForwardTypes
  <2> QED
    BY <2>3, <2>4, <2>5, <2>6
<1>3. ASSUME NEW r \in Receipts, CancelForward(r) PROVE ForwardInv'
  <2>1. /\ fwdPhase' = [fwdPhase EXCEPT ![r] = "over"] /\ dropped' = dropped \cup {r}
        /\ UNCHANGED <<fwdExec, fwdRuns, fwdStatus, fwdFaults, claimed, fwdPc, fwdJob>>
    BY <1>3 DEF CancelForward, FQ!Withdraw
  <2> QED
    BY <2>1 DEF ForwardTypes, VerdictsWritten, FaultsPayRuns, PendingIsCarried
<1>4. ASSUME NEW r \in Receipts, RecoverForward(r) PROVE ForwardInv'
  <2>1. /\ fwdPhase[r] = "taken" /\ fwdExec[r] = NoForwarder
        /\ fwdPhase' = [q \in Receipts |->
             IF q \notin {r} THEN fwdPhase[q]
             ELSE IF fwdRuns[q] < FwdLimit THEN "waiting" ELSE "over"]
        /\ UNCHANGED <<fwdExec, fwdRuns, fwdStatus, fwdFaults, claimed, dropped, fwdPc, fwdJob>>
    BY <1>4 DEF RecoverForward, ForwardAlone, FQ!Recover
  <2>2. ForwardTypes' /\ VerdictsWritten' /\ FaultsPayRuns'
    BY <2>1 DEF ForwardTypes, VerdictsWritten, FaultsPayRuns
  <2>3. PendingIsCarried'
    BY <2>1 DEF ForwardTypes, FaultsPayRuns, PendingIsCarried
  <2> QED
    BY <2>2, <2>3
<1>5. CASE UNCHANGED fwdVars
  BY <1>5
  DEF fwdVars, fwdQueue, ForwardTypes, VerdictsWritten, FaultsPayRuns, PendingIsCarried
<1> HIDE DEF ForwardInv
<1> QED
  BY <1>1, <1>2, <1>3, <1>4, <1>5, SweepForwardInv, DispatchForwardInv, LeaveForwardInv
  DEF FwdNext, ForwardStep

\* No receipt that a sweep claimed is left with nobody to forward it, for any
\* sweeps, workers and faults: what the handler's loop, crashes and retries pass
\* from one hand to the next is never dropped in between.
THEOREM PendingStaysCarried == FwdSpec => []PendingIsCarried
<1>1. ForwardInv => PendingIsCarried
  BY DEF ForwardInv
<1>2. ForwardInv /\ [FwdNext]_fwdVars => ForwardInv'
  BY NextForwardInv
<1>3. QED
  BY <1>1, <1>2, InitForwardInv, PTL DEF FwdSpec

==============================================================================
