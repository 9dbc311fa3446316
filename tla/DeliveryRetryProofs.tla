------------------------- MODULE DeliveryRetryProofs -------------------------
(***************************************************************************)
(* Delivery retries for any number of chains, workers, scans and faults.   *)
(*                                                                         *)
(* RecordsInv ties what the rows say to what the engine has: an attempt is *)
(* counted before it is spooled and spooled before it is recorded.         *)
(* ScansInv keeps every scan's position, and so the watermark, within the  *)
(* ingested reports.  WaitingInv says that a claimed attempt has one       *)
(* sender, that its report cannot precede its COMMIT, and so that a resent *)
(* chain waits for a report nobody has ingested.  UndisturbedInv follows   *)
(* a sender that nothing interfered with to its COMMIT: it is also why an  *)
(* ended chain is not re-opened while nothing fails and scans take turns.  *)
(***************************************************************************)
EXTENDS DeliveryRetry, FiniteSetTheorems, TLAPS

\* The types the proofs need, and a worker at work has a job.
RetryTypes ==
  /\ status \in [Chains -> {"none", "resent"} \cup Open \cup Closed]
  /\ attempts \in [Chains -> Numbers]
  /\ row \in [Submissions -> {"none", "submitted", "refused", "no_bind"}]
  /\ dlr \in [Submissions -> {"none", "failed", "delivered"}]
  /\ watermark \in Nat /\ lastId \in Nat
  /\ failId \in [Submissions -> Nat]
  /\ spooled \in SUBSET Submissions /\ delivered \in SUBSET Submissions
  /\ pc \in [Workers -> DispatchSteps \cup {"idle"}]
  /\ job \in [Workers -> DispatchJobs \cup {Nobody}]
  /\ refs \in [Workers -> SUBSET Submissions]
  /\ fence \in [Workers -> Numbers]
  /\ verdict \in [Workers -> Closed \cup {"none"}]
  /\ spc \in [Scanners -> ScanSteps]
  /\ pos \in [Scanners -> Nat]
  /\ open \in [Scanners -> SUBSET Submissions]
  /\ ingested \in SUBSET Nat
  /\ \A w \in Workers : pc[w] # "idle" => job[w] \in DispatchJobs

\* A chain's job names a chain.
LEMMA JobsNameChains ==
  ASSUME NEW w \in Workers, job[w] \in DispatchJobs
  PROVE  Mine(w) \in Chains /\ \A n \in Numbers : <<Mine(w), n>> \in Submissions
  BY DEF Mine, ChainOf, DispatchJobs, Submissions

\* Nothing has been reported and nobody is at work.
LEMMA InitRetryTypes == Init => RetryTypes
  BY BudgetAssumption
  DEF Init, RetryTypes, Numbers, Submissions, DispatchSteps, ScanSteps, Open, Closed

\* Every step keeps the types.
LEMMA NextRetryTypes ==
  ASSUME RetryTypes, [Next]_vars
  PROVE  RetryTypes'
<1> USE BudgetAssumption, ActorsAssumption
<1>1. ASSUME NEW s \in Submissions, ReportFailure(s) \/ ReportRejection(s) \/ ReportDelivery(s)
      PROVE  RetryTypes'
  <2>1. UNCHANGED <<rows, watermark, spooled, dispatch, scan, ingested>>
    BY <1>1 DEF ReportFailure, ReportRejection, ReportDelivery
  <2>2. lastId' \in Nat /\ failId' \in [Submissions -> Nat] /\ delivered' \in SUBSET Submissions
    BY <1>1 DEF ReportFailure, ReportRejection, ReportDelivery, RetryTypes
  <2> QED
    BY <2>1, <2>2 DEF rows, dispatch, scan, RetryTypes
<1>2. ASSUME NEW x \in Scanners,
             \/ Prepare(x) \/ Query(x) \/ IngestFails(x) \/ ReportsDone(x) \/ ReadResent(x)
             \/ AskEngine(x) \/ SettleDone(x) \/ ScanLost(x)
      PROVE  RetryTypes'
  <2>1. UNCHANGED <<rows, watermark, engine, dispatch, ingested>>
    BY <1>2
    DEF Prepare, Query, IngestFails, ReportsDone, ReadResent, AskEngine, SettleDone, ScanLost,
        ScanAside
  <2>2. spc' \in [Scanners -> ScanSteps]
    BY <1>2
    DEF Prepare, Query, IngestFails, ReportsDone, ReadResent, AskEngine, SettleDone, ScanLost,
        ScanMoves, ScanEnds, ScanSteps, RetryTypes
  <2>3. pos' \in [Scanners -> Nat]
    BY <1>2
    DEF Prepare, Query, IngestFails, AtFailed, ReportsDone, ReadResent, AskEngine, SettleDone,
        ScanLost, ScanEnds, RetryTypes
  <2>4. open' \in [Scanners -> SUBSET Submissions]
    BY <1>2
    DEF Prepare, Query, IngestFails, ReportsDone, ReadResent, AskEngine, Settled, SettleDone,
        ScanLost, ScanEnds, RetryTypes
  <2> QED
    BY <2>1, <2>2, <2>3, <2>4 DEF rows, engine, dispatch, RetryTypes
<1>3. ASSUME NEW x \in Scanners, Ingest(x) PROVE RetryTypes'
  <2>1. PICK s \in Submissions : IngestReport(x, s)
    BY <1>3 DEF Ingest
  <2>2. s[1] \in Chains
    BY DEF Submissions
  <2>3. /\ status' \in [Chains -> {"none", "resent"} \cup Open \cup Closed]
        /\ dlr' \in [Submissions -> {"none", "failed", "delivered"}]
    BY <2>1, <2>2
    DEF IngestReport, OpenChain, ContinueChain, Open, Closed, RetryTypes
  <2>4. pos' \in [Scanners -> Nat] /\ ingested' \in SUBSET Nat
    <3>1. pos[x] + 1 \in Nat
      BY DEF RetryTypes
    <3>2. pos' = [pos EXCEPT ![x] = pos[x] + 1] /\ ingested' = ingested \cup {pos[x] + 1}
      BY <1>3 DEF Ingest
    <3> QED
      BY <3>1, <3>2 DEF RetryTypes
  <2> QED
    BY <1>3, <2>3, <2>4 DEF Ingest, engine, dispatch, RetryTypes
<1>4. ASSUME NEW x \in Scanners, NEW s \in Submissions, SettleChain(x, s) PROVE RetryTypes'
  <2>1. s[1] \in Chains
    BY DEF Submissions
  <2> QED
    BY <1>4, <2>1 DEF SettleChain, engine, dispatch, Closed, RetryTypes
<1>5. ASSUME NEW x \in Scanners, RecordScan(x) PROVE RetryTypes'
  BY <1>5 DEF RecordScan, ScanEnds, ScanSteps, rows, engine, dispatch, RetryTypes
<1>6. ASSUME NEW w \in Workers, NEW j \in DispatchJobs, Take(j, w) PROVE RetryTypes'
  BY <1>6 DEF Take, Goes, Aside, rows, scan, DispatchSteps, RetryTypes
<1>7. ASSUME NEW w \in Workers, Return(w) \/ Throw(w) \/ Crash(w) PROVE RetryTypes'
  <2>1. UNCHANGED <<rows, watermark, engine, scan, ingested>> /\ Forget(w)
    BY <1>7 DEF Return, Throw, Crash, Aside, engine
  <2>2. /\ pc' = [pc EXCEPT ![w] = "idle"] /\ job' = [job EXCEPT ![w] = Nobody]
        /\ refs' = [refs EXCEPT ![w] = {}] /\ fence' = [fence EXCEPT ![w] = 0]
        /\ verdict' = [verdict EXCEPT ![w] = "none"]
    BY <2>1 DEF Forget
  <2> QED
    BY <2>1, <2>2 DEF rows, engine, scan, Numbers, RetryTypes
<1>8. ASSUME NEW w \in Workers, Load(w) PROVE RetryTypes'
  BY <1>8 DEF Load, Finish, Goes, Aside, rows, scan, DispatchSteps, Closed, RetryTypes
<1>9. ASSUME NEW w \in Workers, CheckEngine(w) PROVE RetryTypes'
  BY <1>9 DEF CheckEngine, Finish, Goes, Aside, rows, scan, DispatchSteps, Closed, RetryTypes
<1>10. ASSUME NEW w \in Workers, Claim(w) PROVE RetryTypes'
  <2>1. Mine(w) \in Chains
    BY <1>10, JobsNameChains DEF Claim, RetryTypes
  <2>2. /\ pc' \in [Workers -> DispatchSteps \cup {"idle"}]
        /\ verdict' \in [Workers -> Closed \cup {"none"}]
        /\ status' \in [Chains -> {"none", "resent"} \cup Open \cup Closed]
    BY <1>10, <2>1 DEF Claim, Finish, Goes, DispatchSteps, Open, Closed, RetryTypes
  <2>3. attempts' \in [Chains -> Numbers] /\ fence' \in [Workers -> Numbers]
    BY <1>10, <2>1 DEF Claim, AttemptLeft, CountClaim, Numbers, RetryTypes
  <2>4. \A v \in Workers : pc'[v] # "idle" => job[v] \in DispatchJobs
    BY <1>10 DEF Claim, Finish, Goes, RetryTypes
  <2> QED
    BY <1>10, <2>2, <2>3, <2>4 DEF Claim, Aside, scan, RetryTypes
<1>11. ASSUME NEW w \in Workers, ChooseBind(w) \/ Refuse(w) PROVE RetryTypes'
  <2>1. Attempt(w) \in Submissions
    BY <1>11, JobsNameChains DEF ChooseBind, Refuse, Finish, Goes, Attempt, RetryTypes
  <2>2. row' \in [Submissions -> {"none", "submitted", "refused", "no_bind"}]
    BY <1>11, <2>1 DEF ChooseBind, Refuse, RecordAttempt, RetryTypes
  <2>3. /\ pc' \in [Workers -> DispatchSteps \cup {"idle"}]
        /\ verdict' \in [Workers -> Closed \cup {"none"}]
        /\ \A v \in Workers : pc'[v] # "idle" => job[v] \in DispatchJobs
    BY <1>11 DEF ChooseBind, Refuse, Finish, Goes, DispatchSteps, Closed, RetryTypes
  <2>4. /\ UNCHANGED <<status, attempts, dlr, spooled, job, refs, fence, watermark, failId, lastId>>
        /\ UNCHANGED <<delivered, spc, pos, open, ingested>>
    BY <1>11 DEF ChooseBind, Refuse, Aside, scan
  <2> QED
    BY <2>2, <2>3, <2>4 DEF RetryTypes
<1>12. ASSUME NEW w \in Workers, Send(w) \/ CheckFence(w) \/ SendFails(w) PROVE RetryTypes'
  <2>1. Attempt(w) \in Submissions
    BY <1>12, JobsNameChains DEF Send, CheckFence, SendFails, Goes, Attempt, RetryTypes
  <2>2. /\ spooled' \in SUBSET Submissions
        /\ pc' \in [Workers -> DispatchSteps \cup {"idle"}]
        /\ \A v \in Workers : pc'[v] # "idle" => job[v] \in DispatchJobs
    BY <1>12, <2>1 DEF Send, CheckFence, SendFails, Goes, DispatchSteps, RetryTypes
  <2>3. /\ UNCHANGED <<status, attempts, row, dlr, job, refs, fence, verdict, watermark>>
        /\ UNCHANGED <<failId, lastId, delivered, spc, pos, open, ingested>>
    BY <1>12 DEF Send, CheckFence, SendFails, Aside, rows, scan
  <2> QED
    BY <2>2, <2>3 DEF RetryTypes
<1>13. ASSUME NEW w \in Workers, CommitSend(w) PROVE RetryTypes'
  <2>1. Mine(w) \in Chains /\ Attempt(w) \in Submissions
    BY <1>13, JobsNameChains DEF CommitSend, Goes, Attempt, RetryTypes
  <2>2. status' \in [Chains -> {"none", "resent"} \cup Open \cup Closed]
    BY <1>13, <2>1 DEF CommitSend, Resent, RetryTypes
  <2> QED
    BY <1>13, <2>1, <2>2 DEF CommitSend, Goes, Aside, scan, DispatchSteps, RetryTypes
<1>14. ASSUME NEW w \in Workers, RecordCharge(w) PROVE RetryTypes'
  BY <1>14 DEF RecordCharge, Goes, Aside, rows, scan, DispatchSteps, RetryTypes
<1>15. ASSUME NEW w \in Workers, FinishChain(w) PROVE RetryTypes'
  <2>1. Mine(w) \in Chains
    BY <1>15, JobsNameChains DEF FinishChain, RetryTypes
  <2>2. status' \in [Chains -> {"none", "resent"} \cup Open \cup Closed]
    BY <1>15, <2>1 DEF FinishChain, Terminate, RetryTypes
  <2>3. /\ pc' \in [Workers -> DispatchSteps \cup {"idle"}]
        /\ \A v \in Workers : pc'[v] # "idle" => job[v] \in DispatchJobs
    BY <1>15 DEF FinishChain, Goes, DispatchSteps, RetryTypes
  <2> QED
    BY <1>15, <2>2, <2>3 DEF FinishChain, Aside, scan, RetryTypes
<1>16. ASSUME NEW j \in DispatchJobs, Recover(j) \/ CancelJob(j) PROVE RetryTypes'
  BY <1>16 DEF Recover, CancelJob, Aside, rows, dispatch, scan, RetryTypes
<1>17. ASSUME NEW w \in Workers, RecordLost(w) PROVE RetryTypes'
  BY <1>17 DEF RecordLost, Finish, Goes, Aside, rows, scan, DispatchSteps, Closed, RetryTypes
<1>18. CASE UNCHANGED vars
  BY <1>18 DEF vars, rows, engine, dispatch, scan, RetryTypes
<1> HIDE DEF RetryTypes
<1> QED
  BY <1>1, <1>2, <1>3, <1>4, <1>5, <1>6, <1>7, <1>8, <1>9, <1>10, <1>11, <1>12, <1>13, <1>14,
     <1>15, <1>16, <1>17, <1>18
  DEF Next, Scan, Dispatch

-----------------------------------------------------------------------------
(* The watermark.                                                          *)

\* Every report up to a scan's position was ingested.
ScansInv ==
  /\ WatermarkCoversIngested
  /\ \A x \in Scanners : \A i \in 1..pos[x] : i \in ingested

\* Every step keeps the positions within the ingested reports.
LEMMA NextScansInv ==
  ASSUME RetryTypes, ScansInv, [Next]_vars
  PROVE  ScansInv'
<1>1. CASE UNCHANGED <<watermark, pos, ingested>>
  BY <1>1 DEF ScansInv, WatermarkCoversIngested
<1>2. ASSUME NEW x \in Scanners, Prepare(x) PROVE ScansInv'
  BY <1>2 DEF Prepare, ScanAside, ScansInv, WatermarkCoversIngested, RetryTypes
<1>3. ASSUME NEW x \in Scanners, Ingest(x) PROVE ScansInv'
  <2>1. /\ pos' = [pos EXCEPT ![x] = pos[x] + 1] /\ ingested' = ingested \cup {pos[x] + 1}
        /\ watermark' = watermark
    BY <1>3 DEF Ingest
  <2>2. \A i \in 1..(pos[x] + 1) : i \in ingested'
    BY <2>1 DEF ScansInv, RetryTypes
  <2> QED
    BY <2>1, <2>2 DEF ScansInv, WatermarkCoversIngested, RetryTypes
<1>4. ASSUME NEW x \in Scanners, ScanEnds(x), UNCHANGED <<watermark, ingested>> PROVE ScansInv'
  BY <1>4 DEF ScanEnds, ScansInv, WatermarkCoversIngested, RetryTypes
<1>5. ASSUME NEW x \in Scanners, RecordScan(x) PROVE ScansInv'
  <2>1. /\ pos' = [pos EXCEPT ![x] = 0] /\ ingested' = ingested
        /\ watermark' = IF pos[x] > watermark THEN pos[x] ELSE watermark
    BY <1>5 DEF RecordScan, ScanEnds
  <2>2. WatermarkCoversIngested'
    BY <2>1 DEF ScansInv, WatermarkCoversIngested
  <2> QED
    BY <2>1, <2>2 DEF ScansInv, RetryTypes
<1>6. ASSUME NEW x \in Scanners, ScanLost(x) PROVE ScansInv'
  BY <1>4, <1>6 DEF ScanLost, ScanAside
<1>7. ASSUME NEW x \in Scanners, NEW s \in Submissions, SettleChain(x, s) PROVE ScansInv'
  BY <1>1, <1>7 DEF SettleChain
<1>8. ASSUME NEW x \in Scanners,
             \/ Query(x) \/ IngestFails(x) \/ ReportsDone(x) \/ ReadResent(x) \/ AskEngine(x)
             \/ SettleDone(x)
      PROVE  ScansInv'
  BY <1>1, <1>8
  DEF Query, IngestFails, AtFailed, ReportsDone, ReadResent, AskEngine, SettleDone, ScanAside
<1>9. ASSUME NEW w \in Workers, Dispatch(w) \/ Throw(w) \/ SendFails(w) \/ RecordLost(w) \/ Crash(w)
      PROVE  ScansInv'
  <2>1. Aside
    BY <1>9
    DEF Dispatch, Load, CheckEngine, Claim, ChooseBind, Send, CheckFence, CommitSend, RecordCharge,
        Refuse, FinishChain, Return, Throw, SendFails, RecordLost, Crash
  <2> QED
    BY <1>1, <2>1 DEF Aside, scan
<1>10. ASSUME NEW j \in DispatchJobs,
              Recover(j) \/ CancelJob(j) \/ \E w \in Workers : Take(j, w)
       PROVE  ScansInv'
  BY <1>1, <1>10 DEF Recover, CancelJob, Take, Aside, scan
<1>11. ASSUME NEW s \in Submissions, ReportFailure(s) \/ ReportRejection(s) \/ ReportDelivery(s)
       PROVE  ScansInv'
  BY <1>1, <1>11 DEF ReportFailure, ReportRejection, ReportDelivery, scan
<1>12. CASE UNCHANGED vars
  BY <1>1, <1>12 DEF vars, scan
<1> QED
  BY <1>2, <1>3, <1>5, <1>6, <1>7, <1>8, <1>9, <1>10, <1>11, <1>12 DEF Next, Scan

\* No negative report is lost behind the watermark that recordScan writes,
\* however many scans overlap, stop at a rejected report or die.
THEOREM WatermarkLosesNothing == Spec => []WatermarkCoversIngested
<1>1. Init => RetryTypes /\ ScansInv
  BY InitRetryTypes DEF Init, ScansInv, WatermarkCoversIngested
<1>2. RetryTypes /\ ScansInv /\ [Next]_vars => RetryTypes' /\ ScansInv'
  BY NextRetryTypes, NextScansInv
<1>3. ScansInv => WatermarkCoversIngested
  BY DEF ScansInv
<1>4. QED
  BY <1>1, <1>2, <1>3, PTL DEF Spec

\* Scans ask for reports the engine has made and have ingested no other.
ReportsMade ==
  /\ ingested \subseteq 1..lastId
  /\ upto \in [Scanners -> Nat]
  /\ \A x \in Scanners : upto[x] <= lastId

\* A step that at most adds a report, or ends or starts no query.
LEMMA ReportsAreMade ==
  ASSUME RetryTypes, ReportsMade, ingested' = ingested,
         lastId' \in Nat, lastId' >= lastId,
         \/ upto' = upto
         \/ \E x \in Scanners : upto' \in {[upto EXCEPT ![x] = lastId], [upto EXCEPT ![x] = 0]}
  PROVE  ReportsMade'
<1>1. lastId \in Nat /\ upto \in [Scanners -> Nat]
  BY DEF RetryTypes, ReportsMade
<1>2. \A x \in Scanners : upto'[x] <= lastId'
  BY <1>1 DEF ReportsMade
<1>3. upto' \in [Scanners -> Nat]
  BY <1>1
<1> QED
  BY <1>1, <1>2, <1>3 DEF ReportsMade

\* Every step is one of a reader of the engine's reports, or does nothing that
\* such a reader can see.
LEMMA ScanReads ==
  ASSUME RetryTypes, ScansInv, ReportsMade, [Next]_vars
  PROVE  ReportsMade' /\ [Reader!Next]_(Reader!vars)
<1> USE DEF Reader!Next, Reader!vars
<1>a. lastId \in Nat
  BY DEF RetryTypes
<1>1. CASE UNCHANGED <<lastId, ingested, watermark, upto>>
  BY <1>1, <1>a, ReportsAreMade
<1>2. ASSUME NEW s \in Submissions, ReportFailure(s) \/ ReportRejection(s) \/ ReportDelivery(s)
      PROVE  ReportsMade' /\ [Reader!Next]_(Reader!vars)
  <2>1. CASE ReportFailure(s)
    <3>1. lastId' = lastId + 1 /\ UNCHANGED <<ingested, watermark, upto>>
      BY <2>1 DEF ReportFailure, scan
    <3> QED
      BY <1>a, <3>1, ReportsAreMade DEF Reader!Append
  <2>2. CASE ReportRejection(s) \/ ReportDelivery(s)
    BY <1>1, <2>2 DEF ReportRejection, ReportDelivery, scan
  <2> QED
    BY <1>2, <2>1, <2>2
<1>3. ASSUME NEW x \in Scanners, Ingest(x) PROVE ReportsMade' /\ [Reader!Next]_(Reader!vars)
  <2>1. /\ pos[x] < upto[x] /\ ingested' = ingested \cup {pos[x] + 1}
        /\ UNCHANGED <<lastId, watermark, upto>>
    BY <1>3 DEF Ingest, engine
  <2>2. pos[x] \in Nat /\ upto[x] \in Nat /\ upto[x] <= lastId
    BY DEF RetryTypes, ReportsMade
  <2>3. pos[x] + 1 \in 1..lastId
    BY <1>a, <2>1, <2>2
  <2> QED
    BY <2>1, <2>3 DEF ReportsMade, Reader!Process
<1>4. ASSUME NEW x \in Scanners, Query(x) \/ ReportsDone(x) \/ ScanLost(x)
      PROVE  ReportsMade' /\ [Reader!Next]_(Reader!vars)
  <2>1. UNCHANGED <<lastId, ingested, watermark>>
    BY <1>4 DEF Query, ReportsDone, ScanLost, ScanAside, engine
  <2>2. upto' \in {[upto EXCEPT ![x] = lastId], [upto EXCEPT ![x] = 0]}
    BY <1>4 DEF Query, ReportsDone, ScanLost, ScanEnds
  <2> QED
    BY <1>a, <2>1, <2>2, ReportsAreMade
<1>5. ASSUME NEW x \in Scanners, RecordScan(x) PROVE ReportsMade' /\ [Reader!Next]_(Reader!vars)
  <2>1. /\ UNCHANGED <<lastId, ingested>> /\ upto' = [upto EXCEPT ![x] = 0]
        /\ watermark' = IF pos[x] > watermark THEN pos[x] ELSE watermark
    BY <1>5 DEF RecordScan, ScanEnds, engine
  <2>a. ReportsMade'
    <3>1. upto' \in {[upto EXCEPT ![x] = lastId], [upto EXCEPT ![x] = 0]}
      BY <2>1
    <3>2. lastId' \in Nat /\ lastId' >= lastId
      BY <1>a, <2>1
    <3> QED
      BY <2>1, <3>1, <3>2, ReportsAreMade
  <2>2. CASE watermark' = watermark
    BY <2>1, <2>2, <2>a DEF ReportsMade
  <2>3. CASE pos[x] > watermark /\ watermark' = pos[x]
    <3>1. 1..pos[x] \subseteq ingested
      BY DEF ScansInv
    <3>2. pos[x] \in 1..lastId
      BY <2>3, <3>1 DEF RetryTypes, ReportsMade
    <3> QED
      BY <2>1, <2>3, <2>a, <3>1, <3>2 DEF Reader!Advance
  <2> QED
    BY <2>1, <2>2, <2>3
<1>6. ASSUME NEW x \in Scanners,
             \/ Prepare(x) \/ IngestFails(x) \/ ReadResent(x) \/ AskEngine(x) \/ SettleDone(x)
             \/ \E s \in Submissions : SettleChain(x, s)
      PROVE  ReportsMade' /\ [Reader!Next]_(Reader!vars)
  BY <1>1, <1>6
  DEF Prepare, IngestFails, ReadResent, AskEngine, SettleDone, SettleChain, ScanAside, engine
<1>7. ASSUME NEW w \in Workers, Dispatch(w) \/ Throw(w) \/ SendFails(w) \/ RecordLost(w) \/ Crash(w)
      PROVE  ReportsMade' /\ [Reader!Next]_(Reader!vars)
  <2>1. Aside
    BY <1>7
    DEF Dispatch, Load, CheckEngine, Claim, ChooseBind, Send, CheckFence, CommitSend, RecordCharge,
        Refuse, FinishChain, Return, Throw, SendFails, RecordLost, Crash
  <2> QED
    BY <1>1, <2>1 DEF Aside, scan
<1>8. ASSUME NEW j \in DispatchJobs,
             Recover(j) \/ CancelJob(j) \/ \E w \in Workers : Take(j, w)
      PROVE  ReportsMade' /\ [Reader!Next]_(Reader!vars)
  BY <1>1, <1>8 DEF Recover, CancelJob, Take, Aside, scan
<1>9. CASE UNCHANGED vars
  BY <1>1, <1>9 DEF vars, scan, engine
<1> HIDE DEF Reader!Next, Reader!vars
<1> QED
  BY <1>2, <1>3, <1>4, <1>5, <1>6, <1>7, <1>8, <1>9 DEF Next, Scan

\* Scans read the engine's negative reports as LogReader promises, however many
\* run at once: recordScan moves the watermark forward only, over reports whose
\* ingest committed, and no scan ingests a report that was never made.
THEOREM ScansReadTheLog == Spec => ImplementsLogReader
<1>1. Init => RetryTypes /\ ScansInv /\ ReportsMade /\ Reader!Init
  BY InitRetryTypes DEF Init, ScansInv, WatermarkCoversIngested, ReportsMade, Reader!Init
<1>2. RetryTypes /\ ScansInv /\ ReportsMade /\ [Next]_vars
        => RetryTypes' /\ ScansInv' /\ ReportsMade' /\ [Reader!Next]_(Reader!vars)
  BY NextRetryTypes, NextScansInv, ScanReads
<1>3. QED
  BY <1>1, <1>2, PTL DEF Spec, ImplementsLogReader, Reader!Spec

-----------------------------------------------------------------------------
(* What the rows say.                                                      *)

\* A worker's fence is a count its chain has reached.
FenceCounted ==
  \A w \in Workers :
    /\ pc[w] = "idle" => fence[w] = 0
    /\ pc[w] # "idle" => fence[w] <= attempts[Mine(w)]

\* What a worker and a scan carry from one transaction to the next is true
\* when they use it.
CarriedTrue ==
  /\ \A w \in Workers : pc[w] \in {"commit", "mark"} => Attempt(w) \in spooled
  /\ \A w \in Workers : \A s \in refs[w] : pc[w] = "check" /\ s[1] = Mine(w)
  /\ \A w \in Workers : pc[w] = "finish" =>
       /\ verdict[w] \in Closed
       /\ verdict[w] = "delivered" => \E s \in delivered : s[1] = Mine(w)
  /\ \A x \in Scanners : spc[x] = "settling" => open[x] \subseteq delivered

RecordsInv == SubmissionsCounted /\ FenceCounted /\ CarriedTrue /\ RecordsAreTrue

\* The original messages are spooled, and nothing else has happened.
LEMMA InitRecordsInv == Init => RecordsInv
  BY BudgetAssumption
  DEF Init, RecordsInv, SubmissionsCounted, FenceCounted, CarriedTrue, RecordsAreTrue, Submissions,
      Numbers

\* The engine and the scans.
LEMMA ScanRecordsInv ==
  ASSUME RetryTypes, RecordsInv,
         \/ \E s \in Submissions : ReportFailure(s) \/ ReportRejection(s) \/ ReportDelivery(s)
         \/ \E x \in Scanners : Scan(x)
  PROVE  RecordsInv'
<1> USE DEF RecordsInv
<1>1. ASSUME NEW s \in Submissions, ReportFailure(s) PROVE RecordsInv'
  <2>1. /\ UNCHANGED <<rows, spooled, delivered, dispatch, scan>>
        /\ failId' = [failId EXCEPT ![s] = lastId + 1]
    BY <1>1 DEF ReportFailure
  <2>2. \A t \in Submissions : failId[t] # 0 => failId'[t] # 0
    BY <2>1 DEF RetryTypes
  <2> QED
    BY <2>1, <2>2
    DEF rows, dispatch, scan, SubmissionsCounted, FenceCounted, CarriedTrue, RecordsAreTrue,
        Attempt, Mine
<1>2. ASSUME NEW s \in Submissions, ReportRejection(s) \/ ReportDelivery(s) PROVE RecordsInv'
  <2>1. /\ UNCHANGED <<rows, spooled, failId, dispatch, scan>>
        /\ delivered \subseteq delivered'
    BY <1>2 DEF ReportRejection, ReportDelivery
  <2> QED
    BY <2>1
    DEF rows, dispatch, scan, SubmissionsCounted, FenceCounted, CarriedTrue, RecordsAreTrue,
        Attempt, Mine
<1>3. ASSUME NEW x \in Scanners,
             \/ Prepare(x) \/ Query(x) \/ IngestFails(x) \/ ReportsDone(x) \/ ReadResent(x)
             \/ AskEngine(x) \/ SettleDone(x) \/ RecordScan(x) \/ ScanLost(x)
      PROVE  RecordsInv'
  <2>1. UNCHANGED <<rows, engine, dispatch>>
    BY <1>3
    DEF Prepare, Query, IngestFails, ReportsDone, ReadResent, AskEngine, SettleDone, RecordScan,
        ScanLost, ScanAside
  <2>2. \A y \in Scanners : spc'[y] = "settling" => open'[y] \subseteq delivered
    BY <1>3
    DEF Prepare, Query, IngestFails, ReportsDone, ReadResent, AskEngine, Settled, SettleDone,
        RecordScan, ScanLost, ScanMoves, ScanEnds, CarriedTrue, RetryTypes
  <2>3. SubmissionsCounted' /\ FenceCounted' /\ RecordsAreTrue'
    BY <2>1
    DEF rows, engine, dispatch, SubmissionsCounted, FenceCounted, RecordsAreTrue, Mine
  <2>4. CarriedTrue'
    BY <2>1, <2>2 DEF engine, dispatch, CarriedTrue, Attempt, Mine
  <2> QED
    BY <2>3, <2>4
<1>4. ASSUME NEW x \in Scanners, Ingest(x) PROVE RecordsInv'
  <2>1. PICK s \in Submissions : failId[s] = pos[x] + 1 /\ IngestReport(x, s)
    BY <1>4 DEF Ingest
  <2>2. UNCHANGED <<attempts, row, engine, dispatch, spc, open>>
    BY <1>4 DEF Ingest
  <2>3. dlr' = dlr \/ dlr' = [dlr EXCEPT ![s] = "failed"]
    BY <2>1 DEF IngestReport
  <2>4. failId[s] # 0
    BY <2>1 DEF RetryTypes
  <2>5. \A c \in Chains : status'[c] = "delivered" => status[c] = "delivered"
    BY <2>1 DEF IngestReport, OpenChain, ContinueChain, RetryTypes
  <2>6. SubmissionsCounted' /\ FenceCounted' /\ CarriedTrue'
    BY <2>2 DEF engine, dispatch, SubmissionsCounted, FenceCounted, CarriedTrue, Attempt, Mine
  <2>7. RecordsAreTrue'
    BY <2>2, <2>3, <2>4, <2>5 DEF engine, RecordsAreTrue, RetryTypes
  <2> QED
    BY <2>6, <2>7
<1>5. ASSUME NEW x \in Scanners, NEW s \in Submissions, SettleChain(x, s) PROVE RecordsInv'
  <2>1. /\ UNCHANGED <<attempts, row, engine, dispatch, spc>>
        /\ spc[x] = "settling" /\ s \in open[x] /\ open' = [open EXCEPT ![x] = @ \ {s}]
        /\ dlr' = [dlr EXCEPT ![s] = "delivered"]
        /\ status' = [status EXCEPT ![s[1]] = "delivered"]
    BY <1>5 DEF SettleChain
  <2>2. s \in delivered
    BY <2>1 DEF CarriedTrue
  <2>3. SubmissionsCounted' /\ FenceCounted'
    BY <2>1 DEF engine, dispatch, SubmissionsCounted, FenceCounted, Mine
  <2>4. CarriedTrue'
    BY <2>1 DEF engine, dispatch, CarriedTrue, Attempt, Mine, RetryTypes
  <2>5. RecordsAreTrue'
    BY <2>1, <2>2 DEF engine, RecordsAreTrue, RetryTypes
  <2> QED
    BY <2>3, <2>4, <2>5
<1> QED
  BY <1>1, <1>2, <1>3, <1>4, <1>5 DEF Scan

\* dispatch(), its faults and the queue.
LEMMA DispatchRecordsInv ==
  ASSUME RetryTypes, RecordsInv, NEW w \in Workers,
         \/ Dispatch(w) \/ Throw(w) \/ SendFails(w) \/ RecordLost(w) \/ Crash(w)
         \/ \E j \in DispatchJobs : Take(j, w),
         RetryTypes'
  PROVE  RecordsInv'
<1> USE DEF RecordsInv
<1>0. UNCHANGED <<failId, delivered, scan>>
  BY DEF Dispatch, Load, CheckEngine, Claim, ChooseBind, Send, CheckFence, CommitSend,
         RecordCharge, Refuse, FinishChain, Return, Throw, SendFails, RecordLost, Crash, Take,
         Aside
<1>1. ASSUME NEW j \in DispatchJobs, Take(j, w) PROVE RecordsInv'
  <2>1. /\ UNCHANGED <<rows, spooled, refs, fence, verdict>>
        /\ pc[w] = "idle" /\ pc' = [pc EXCEPT ![w] = "load"] /\ job' = [job EXCEPT ![w] = j]
    BY <1>1 DEF Take, Goes
  <2>2. SubmissionsCounted' /\ RecordsAreTrue'
    BY <1>0, <2>1 DEF rows, SubmissionsCounted, RecordsAreTrue
  <2>3. j[1] \in Chains
    BY DEF DispatchJobs
  <2>4. FenceCounted'
    BY <2>1, <2>3 DEF rows, FenceCounted, Mine, ChainOf, Numbers, RetryTypes
  <2>5. CarriedTrue'
    BY <1>0, <2>1 DEF scan, CarriedTrue, Attempt, Mine, RetryTypes
  <2> QED
    BY <2>2, <2>4, <2>5
<1>2. ASSUME Return(w) \/ Throw(w) \/ Crash(w) PROVE RecordsInv'
  <2>1. /\ UNCHANGED <<rows, spooled>>
        /\ pc' = [pc EXCEPT ![w] = "idle"] /\ job' = [job EXCEPT ![w] = Nobody]
        /\ refs' = [refs EXCEPT ![w] = {}] /\ fence' = [fence EXCEPT ![w] = 0]
        /\ verdict' = [verdict EXCEPT ![w] = "none"]
    BY <1>2 DEF Return, Throw, Crash, Forget
  <2>2. SubmissionsCounted' /\ RecordsAreTrue'
    BY <1>0, <2>1 DEF rows, SubmissionsCounted, RecordsAreTrue
  <2>3. FenceCounted' /\ CarriedTrue'
    BY <1>0, <2>1 DEF rows, scan, FenceCounted, CarriedTrue, Attempt, Mine, RetryTypes
  <2> QED
    BY <2>2, <2>3
<1>3. ASSUME Load(w) PROVE RecordsInv'
  <2>1. /\ UNCHANGED <<rows, spooled, job, fence>> /\ pc[w] = "load"
        /\ \/ pc' = [pc EXCEPT ![w] = "return"] /\ UNCHANGED <<refs, verdict>>
           \/ /\ pc' = [pc EXCEPT ![w] = "finish"] /\ UNCHANGED refs
              /\ verdict' = [verdict EXCEPT ![w] = "abandoned"]
           \/ /\ pc' = [pc EXCEPT ![w] = "check"] /\ UNCHANGED verdict
              /\ refs' = [refs EXCEPT ![w] =
                   {s \in Submissions : s[1] = Mine(w) /\ row[s] = "submitted"}]
    BY <1>3 DEF Load, Finish, Goes
  <2>2. SubmissionsCounted' /\ RecordsAreTrue' /\ FenceCounted'
    BY <1>0, <2>1 DEF rows, SubmissionsCounted, RecordsAreTrue, FenceCounted, Mine, RetryTypes
  <2>3. CarriedTrue'
    BY <1>0, <2>1 DEF scan, CarriedTrue, Attempt, Mine, Closed, RetryTypes
  <2> QED
    BY <2>2, <2>3
<1>4. ASSUME CheckEngine(w) PROVE RecordsInv'
  <2>1. /\ UNCHANGED <<rows, spooled, job, fence>> /\ pc[w] = "check"
        /\ refs' = [refs EXCEPT ![w] = {}]
        /\ \/ /\ pc' = [pc EXCEPT ![w] = "finish"] /\ refs[w] \cap delivered # {}
              /\ verdict' = [verdict EXCEPT ![w] = "delivered"]
           \/ pc' = [pc EXCEPT ![w] = "claim"] /\ UNCHANGED verdict
    BY <1>4 DEF CheckEngine, Finish, Goes
  <2>2. SubmissionsCounted' /\ RecordsAreTrue' /\ FenceCounted'
    BY <1>0, <2>1 DEF rows, SubmissionsCounted, RecordsAreTrue, FenceCounted, Mine, RetryTypes
  <2>3. refs[w] \cap delivered # {} => \E s \in delivered : s[1] = Mine(w)
    BY DEF CarriedTrue
  <2>4. CarriedTrue'
    BY <1>0, <2>1, <2>3, SMTT(30) DEF scan, CarriedTrue, Attempt, Mine, Closed, RetryTypes
  <2> QED
    BY <2>2, <2>4
<1>5. ASSUME Claim(w) PROVE RecordsInv'
  <2>1. /\ UNCHANGED <<row, dlr, spooled, job, refs>> /\ pc[w] = "claim"
        /\ \/ /\ pc' = [pc EXCEPT ![w] = "choose"] /\ UNCHANGED verdict
              /\ attempts' = [attempts EXCEPT ![Mine(w)] = @ + 1]
              /\ fence' = [fence EXCEPT ![w] = attempts[Mine(w)] + 1]
              /\ status' = [status EXCEPT ![Mine(w)] = "retrying"]
           \/ /\ pc' = [pc EXCEPT ![w] = "finish"] /\ UNCHANGED <<status, attempts, fence>>
              /\ verdict' = [verdict EXCEPT ![w] = "exhausted"]
    BY <1>5 DEF Claim, CountClaim, Finish, Goes
  <2>2. Mine(w) \in Chains
    BY <2>1, JobsNameChains DEF RetryTypes
  <2>3. \A c \in Chains : attempts[c] <= attempts'[c]
    <3>1. attempts \in [Chains -> Numbers] /\ \A c \in Chains : attempts[c] \in Nat
      BY DEF RetryTypes, Numbers
    <3>2. attempts' = attempts \/ attempts' = [attempts EXCEPT ![Mine(w)] = attempts[Mine(w)] + 1]
      BY <2>1
    <3> QED
      BY <2>2, <3>1, <3>2
  <2>4. SubmissionsCounted'
    BY <2>1, <2>3, RetryTypes' DEF SubmissionsCounted, RetryTypes, Submissions, Numbers
  <2>5. RecordsAreTrue'
    BY <1>0, <2>1, <2>2 DEF RecordsAreTrue, RetryTypes
  <2>6. FenceCounted'
    BY <2>1, <2>2, <2>3, RetryTypes', JobsNameChains
    DEF FenceCounted, Mine, RetryTypes, Numbers
  <2>7. CarriedTrue'
    BY <1>0, <2>1 DEF scan, CarriedTrue, Attempt, Mine, Closed, RetryTypes
  <2> QED
    BY <2>4, <2>5, <2>6, <2>7
<1>6. ASSUME ChooseBind(w) \/ Refuse(w) \/ RecordLost(w) PROVE RecordsInv'
  <2>1. /\ UNCHANGED <<status, attempts, dlr, spooled, job, refs, fence>>
        /\ pc[w] \in {"choose", "refuse"}
        /\ \/ pc' = [pc EXCEPT ![w] = "send"] /\ UNCHANGED verdict
           \/ /\ pc' = [pc EXCEPT ![w] = "finish"]
              /\ \E v \in {"exhausted", "failed"} : verdict' = [verdict EXCEPT ![w] = v]
        /\ \A s \in Submissions : row'[s] = "submitted" => row[s] = "submitted"
    BY <1>6 DEF ChooseBind, Refuse, RecordLost, RecordAttempt, Finish, Goes, rows, RetryTypes
  <2>2. SubmissionsCounted' /\ RecordsAreTrue' /\ FenceCounted'
    BY <1>0, <2>1 DEF SubmissionsCounted, RecordsAreTrue, FenceCounted, Mine, RetryTypes
  <2>3. CarriedTrue'
    BY <1>0, <2>1 DEF scan, CarriedTrue, Attempt, Mine, Closed, RetryTypes
  <2> QED
    BY <2>2, <2>3
<1>7. ASSUME Send(w) \/ CheckFence(w) \/ SendFails(w) PROVE RecordsInv'
  <2>1. /\ UNCHANGED <<rows, job, refs, fence, verdict>>
        /\ pc[w] \in {"send", "commit", "mark", "charge"}
        /\ \/ pc' = [pc EXCEPT ![w] = "refuse"] /\ spooled' \in {spooled, spooled \cup {Attempt(w)}}
           \/ pc' = [pc EXCEPT ![w] = "commit"] /\ spooled' = spooled \cup {Attempt(w)}
           \/ pc[w] = "commit" /\ pc' = [pc EXCEPT ![w] = "mark"] /\ spooled' = spooled
    BY <1>7 DEF Send, CheckFence, SendFails, Goes
  <2>2. Attempt(w)[1] = Mine(w) /\ Attempt(w)[2] = fence[w]
    BY DEF Attempt
  <2>3. fence[w] <= attempts[Mine(w)]
    BY <2>1 DEF FenceCounted
  <2>4. SubmissionsCounted'
    BY <2>1, <2>2, <2>3 DEF rows, SubmissionsCounted
  <2>5. RecordsAreTrue' /\ FenceCounted'
    BY <1>0, <2>1 DEF rows, RecordsAreTrue, FenceCounted, Mine, RetryTypes
  <2>6. CarriedTrue'
    BY <1>0, <2>1 DEF scan, CarriedTrue, Attempt, Mine, RetryTypes
  <2> QED
    BY <2>4, <2>5, <2>6
<1>8. ASSUME CommitSend(w) PROVE RecordsInv'
  <2>1. /\ UNCHANGED <<attempts, dlr, spooled, job, refs, fence, verdict>> /\ pc[w] = "mark"
        /\ pc' = [pc EXCEPT ![w] = "charge"]
        /\ row' = [row EXCEPT ![Attempt(w)] = "submitted"]
        /\ status' \in {status, [status EXCEPT ![Mine(w)] = "resent"]}
    BY <1>8 DEF CommitSend, Resent, Goes
  <2>2. Attempt(w) \in spooled
    BY <2>1 DEF CarriedTrue
  <2>3. SubmissionsCounted' /\ FenceCounted'
    BY <2>1 DEF SubmissionsCounted, FenceCounted, Mine, RetryTypes
  <2>4. RecordsAreTrue'
    BY <1>0, <2>1, <2>2 DEF RecordsAreTrue, RetryTypes
  <2>5. CarriedTrue'
    BY <1>0, <2>1 DEF scan, CarriedTrue, Attempt, Mine, RetryTypes
  <2> QED
    BY <2>3, <2>4, <2>5
<1>9. ASSUME RecordCharge(w) PROVE RecordsInv'
  <2>1. /\ UNCHANGED <<rows, spooled, job, refs, fence, verdict>>
        /\ pc[w] = "charge" /\ pc' = [pc EXCEPT ![w] = "return"]
    BY <1>9 DEF RecordCharge, Goes
  <2>2. SubmissionsCounted' /\ RecordsAreTrue' /\ FenceCounted'
    BY <1>0, <2>1 DEF rows, SubmissionsCounted, RecordsAreTrue, FenceCounted, Mine, RetryTypes
  <2>3. CarriedTrue'
    BY <1>0, <2>1 DEF scan, CarriedTrue, Attempt, Mine, RetryTypes
  <2> QED
    BY <2>2, <2>3
<1>10. ASSUME FinishChain(w) PROVE RecordsInv'
  <2>1. /\ UNCHANGED <<attempts, row, dlr, spooled, job, refs, fence, verdict>>
        /\ pc[w] = "finish" /\ pc' = [pc EXCEPT ![w] = "return"]
        /\ status' = [status EXCEPT ![Mine(w)] = verdict[w]]
    BY <1>10 DEF FinishChain, Terminate, Goes
  <2>2. verdict[w] = "delivered" => \E s \in delivered : s[1] = Mine(w)
    BY <2>1 DEF CarriedTrue
  <2>3. SubmissionsCounted' /\ FenceCounted'
    BY <2>1 DEF SubmissionsCounted, FenceCounted, Mine, RetryTypes
  <2>4. RecordsAreTrue'
    BY <1>0, <2>1, <2>2 DEF RecordsAreTrue, RetryTypes
  <2>5. CarriedTrue'
    BY <1>0, <2>1 DEF scan, CarriedTrue, Attempt, Mine, RetryTypes
  <2> QED
    BY <2>3, <2>4, <2>5
<1> QED
  BY <1>1, <1>2, <1>3, <1>4, <1>5, <1>6, <1>7, <1>8, <1>9, <1>10 DEF Dispatch

\* Every step keeps the rows true.
LEMMA NextRecordsInv ==
  ASSUME RetryTypes, RecordsInv, [Next]_vars
  PROVE  RecordsInv'
<1>1. RetryTypes'
  BY NextRetryTypes
<1>2. CASE UNCHANGED <<rows, engine, dispatch, scan>>
  BY <1>2
  DEF rows, engine, dispatch, scan, RecordsInv, SubmissionsCounted, FenceCounted, CarriedTrue,
      RecordsAreTrue, Attempt, Mine
<1>3. ASSUME NEW j \in DispatchJobs, Recover(j) \/ CancelJob(j) PROVE RecordsInv'
  BY <1>2, <1>3 DEF Recover, CancelJob, Aside, engine
<1>4. CASE UNCHANGED vars
  BY <1>2, <1>4 DEF vars
<1> QED
  BY <1>1, <1>3, <1>4, ScanRecordsInv, DispatchRecordsInv DEF Next

\* However dispatch jobs crash, repeat or race, no more than max_attempts
\* submissions of a chain reach the engine, because the claim counts each one
\* before it is spooled; and an attempt row that says submitted, or a chain or
\* row that says delivered, is borne out by the engine.
THEOREM RowsTellTheTruth == Spec => [](SubmissionsCounted /\ RecordsAreTrue)
<1>1. Init => RetryTypes /\ RecordsInv
  BY InitRetryTypes, InitRecordsInv
<1>2. RetryTypes /\ RecordsInv /\ [Next]_vars => RetryTypes' /\ RecordsInv'
  BY NextRetryTypes, NextRecordsInv
<1>3. RecordsInv => SubmissionsCounted /\ RecordsAreTrue
  BY DEF RecordsInv
<1>4. QED
  BY <1>1, <1>2, <1>3, PTL DEF Spec

-----------------------------------------------------------------------------
(* What "resent" means, when a report never precedes its sender's COMMIT.  *)

Sending == {"choose", "send", "commit", "mark"}

\* Reports are numbered in the order they arrive, one for each submission.
ReportsInv ==
  /\ ingested \subseteq 1..lastId
  /\ \A s \in Submissions : failId[s] <= lastId /\ (failId[s] # 0 => s \in spooled)
  /\ \A s, t \in Submissions : failId[s] = failId[t] /\ failId[s] # 0 => s = t

\* A claimed attempt has one sender, and is neither spooled before it sends nor
\* reported on before it commits.
FencesInv ==
  /\ \A w \in Workers : pc[w] \in Sending => fence[w] >= 1
  /\ \A v, w \in Workers :
       pc[v] \in Sending /\ pc[w] \in Sending /\ Attempt(v) = Attempt(w) => v = w
  /\ \A w \in Workers : pc[w] \in {"choose", "send"} => Attempt(w) \notin spooled
  /\ \A w \in Workers : pc[w] \in {"commit", "mark"} => failId[Attempt(w)] = 0

\* A resent chain waits for a recorded attempt whose failure nobody ingested.
ResentInv ==
  \A c \in Chains : status[c] = "resent" =>
    /\ attempts[c] >= 1
    /\ row[<<c, attempts[c]>>] = "submitted"
    /\ failId[<<c, attempts[c]>>] \notin ingested

WaitingInv == ReportsInv /\ FencesInv /\ ResentInv

\* No chain is resent and no report has arrived.
LEMMA InitWaitingInv == Init => WaitingInv
  BY DEF Init, WaitingInv, ReportsInv, FencesInv, ResentInv, Sending

\* The engine's reports.
LEMMA ReportsWaitingInv ==
  ASSUME ReportsAfterCommit, RetryTypes, RecordsInv, WaitingInv, NEW s \in Submissions,
         ReportFailure(s) \/ ReportRejection(s) \/ ReportDelivery(s)
  PROVE  WaitingInv'
<1> USE DEF WaitingInv
<1>1. CASE ReportRejection(s) \/ ReportDelivery(s)
  BY <1>1
  DEF ReportRejection, ReportDelivery, rows, dispatch, ReportsInv, FencesInv, ResentInv, Attempt,
      Mine
<1>2. CASE ReportFailure(s)
  <2>1. /\ UNCHANGED <<rows, spooled, dispatch, ingested>>
        /\ s \in spooled /\ failId[s] = 0 /\ lastId' = lastId + 1
        /\ failId' = [failId EXCEPT ![s] = lastId + 1] /\ ~InSeam(s)
    BY <1>2 DEF ReportFailure, Reportable
  <2>2. lastId \in Nat /\ \A t \in Submissions : failId[t] \in Nat
    BY DEF RetryTypes
  <2>3. /\ failId'[s] = lastId + 1
        /\ \A t \in Submissions : t # s => failId'[t] = failId[t]
    BY <2>1 DEF RetryTypes
  <2>4. ReportsInv'
    <3>1. ingested' \subseteq 1..lastId'
      BY <2>1, <2>2 DEF ReportsInv
    <3>2. \A t \in Submissions : failId'[t] <= lastId' /\ (failId'[t] # 0 => t \in spooled')
      BY <2>1, <2>2, <2>3 DEF ReportsInv
    <3>3. \A t, u \in Submissions : failId'[t] = failId'[u] /\ failId'[t] # 0 => t = u
      BY <2>2, <2>3 DEF ReportsInv
    <3> QED
      BY <3>1, <3>2, <3>3 DEF ReportsInv
  <2>5. FencesInv'
    <3>1. \A w \in Workers : pc[w] \in {"commit", "mark"} =>
            Attempt(w) \in Submissions /\ Attempt(w) # s
      BY <2>1, JobsNameChains DEF InSeam, Attempt, RetryTypes
    <3>2. \A w \in Workers : Attempt(w)' = Attempt(w) /\ pc'[w] = pc[w] /\ fence'[w] = fence[w]
      BY <2>1 DEF Attempt, Mine, dispatch
    <3> QED
      BY <2>1, <2>3, <3>1, <3>2 DEF FencesInv, Sending
  <2>6. ResentInv'
    <3>1. lastId + 1 \notin ingested
      BY <2>2 DEF ReportsInv
    <3>2. \A c \in Chains : <<c, attempts[c]>> \in Submissions
      BY DEF Submissions, RetryTypes
    <3> QED
      BY <2>1, <2>3, <3>1, <3>2 DEF rows, ResentInv
  <2> QED
    BY <2>4, <2>5, <2>6
<1> QED
  BY <1>1, <1>2

\* The scans.
LEMMA ScanWaitingInv ==
  ASSUME RetryTypes, RecordsInv, WaitingInv, NEW x \in Scanners, Scan(x)
  PROVE  WaitingInv'
<1> USE DEF WaitingInv
<1>1. ASSUME \/ Prepare(x) \/ Query(x) \/ IngestFails(x) \/ ReportsDone(x) \/ ReadResent(x)
             \/ AskEngine(x) \/ SettleDone(x) \/ RecordScan(x) \/ ScanLost(x)
      PROVE  WaitingInv'
  <2>1. UNCHANGED <<rows, engine, dispatch, ingested>>
    BY <1>1
    DEF Prepare, Query, IngestFails, ReportsDone, ReadResent, AskEngine, SettleDone, RecordScan,
        ScanLost, ScanAside
  <2> QED
    BY <2>1 DEF rows, engine, dispatch, ReportsInv, FencesInv, ResentInv, Attempt, Mine
<1>2. ASSUME NEW s \in Submissions, SettleChain(x, s) PROVE WaitingInv'
  <2>1. /\ UNCHANGED <<attempts, row, engine, dispatch, ingested>>
        /\ status' = [status EXCEPT ![s[1]] = "delivered"]
    BY <1>2 DEF SettleChain
  <2>2. ReportsInv' /\ FencesInv'
    BY <2>1 DEF engine, dispatch, ReportsInv, FencesInv, Attempt, Mine
  <2>3. ResentInv'
    BY <2>1 DEF engine, ResentInv, RetryTypes
  <2> QED
    BY <2>2, <2>3
<1>3. ASSUME Ingest(x) PROVE WaitingInv'
  <2>1. PICK s \in Submissions : failId[s] = pos[x] + 1 /\ IngestReport(x, s)
    BY <1>3 DEF Ingest
  <2>2. /\ UNCHANGED <<attempts, row, engine, dispatch>>
        /\ ingested' = ingested \cup {failId[s]}
    BY <1>3, <2>1 DEF Ingest
  <2>3. failId[s] \in 1..lastId
    BY <2>1 DEF ReportsInv, RetryTypes
  <2>4. ReportsInv'
    BY <2>2, <2>3 DEF engine, ReportsInv
  <2>5. FencesInv'
    BY <2>2 DEF engine, dispatch, FencesInv, Attempt, Mine
  <2>6. ASSUME NEW c \in Chains, status'[c] = "resent"
        PROVE  status[c] = "resent" /\ s # <<c, attempts[c]>>
    <3>1. status[c] = "resent"
      BY <2>1, <2>6 DEF IngestReport, OpenChain, ContinueChain, RetryTypes
    <3>2. ASSUME s = <<c, attempts[c]>> PROVE FALSE
      <4>1. s[1] = c /\ s[2] # 0 /\ row[s] = "submitted"
        BY <3>1, <3>2 DEF ResentInv, RetryTypes, Numbers
      <4>2. ContinueChain(x, c)
        BY <2>1, <4>1 DEF IngestReport
      <4> QED
        BY <2>6, <3>1, <4>2 DEF ContinueChain, Continuable, RetryTypes
    <3> QED
      BY <3>1, <3>2
  <2>7. \A c \in Chains : <<c, attempts[c]>> \in Submissions
    BY DEF Submissions, RetryTypes
  <2>8. ResentInv'
    <3> SUFFICES ASSUME NEW c \in Chains, status'[c] = "resent"
                 PROVE  /\ attempts[c] >= 1 /\ row[<<c, attempts[c]>>] = "submitted"
                        /\ failId[<<c, attempts[c]>>] \notin ingested'
      BY <2>2 DEF ResentInv, engine
    <3>1. failId[<<c, attempts[c]>>] # failId[s]
      BY <2>3, <2>6, <2>7 DEF ReportsInv
    <3> QED
      BY <2>2, <2>6, <3>1 DEF ResentInv
  <2> QED
    BY <2>4, <2>5, <2>8
<1> QED
  BY <1>1, <1>2, <1>3 DEF Scan

\* A worker that leaves the senders, or was none, disturbs no fence.
LEMMA OutOfSending ==
  ASSUME FencesInv, NEW w \in Workers, RetryTypes, pc'[w] \notin Sending,
         \A v \in Workers : v # w =>
           pc'[v] = pc[v] /\ job'[v] = job[v] /\ fence'[v] = fence[v],
         UNCHANGED <<spooled, failId>>
  PROVE  FencesInv'
  BY DEF FencesInv, Sending, Attempt, Mine

\* dispatch(), its faults and the queue.
LEMMA DispatchWaitingInv ==
  ASSUME RetryTypes, RecordsInv, WaitingInv, RetryTypes', NEW w \in Workers,
         \/ Dispatch(w) \/ Throw(w) \/ SendFails(w) \/ RecordLost(w) \/ Crash(w)
         \/ \E j \in DispatchJobs : Take(j, w)
  PROVE  WaitingInv'
<1> USE DEF WaitingInv
<1>0. UNCHANGED <<failId, lastId, ingested>>
  BY DEF Dispatch, Load, CheckEngine, Claim, ChooseBind, Send, CheckFence, CommitSend,
         RecordCharge, Refuse, FinishChain, Return, Throw, SendFails, RecordLost, Crash, Take,
         Aside
<1>1. ReportsInv'
  <2>1. spooled \subseteq spooled'
    BY DEF Dispatch, Load, CheckEngine, Claim, ChooseBind, Send, CheckFence, CommitSend,
           RecordCharge, Refuse, FinishChain, Return, Throw, SendFails, RecordLost, Crash, Take
  <2> QED
    BY <1>0, <2>1 DEF ReportsInv
<1>2. ASSUME \/ \E j \in DispatchJobs : Take(j, w)
             \/ Return(w) \/ Throw(w) \/ Crash(w) \/ Load(w) \/ CheckEngine(w) \/ RecordCharge(w)
      PROVE  WaitingInv'
  <2>1. UNCHANGED <<rows, spooled>>
    BY <1>2 DEF Take, Return, Throw, Crash, Load, CheckEngine, RecordCharge
  <2>2. pc'[w] \notin Sending
    BY <1>2
    DEF Take, Return, Throw, Crash, Forget, Load, CheckEngine, RecordCharge, Finish, Goes, Sending,
        RetryTypes
  <2>3. \A v \in Workers : v # w => pc'[v] = pc[v] /\ job'[v] = job[v] /\ fence'[v] = fence[v]
    BY <1>2
    DEF Take, Return, Throw, Crash, Forget, Load, CheckEngine, RecordCharge, Finish, Goes,
        RetryTypes
  <2>4. FencesInv'
    BY <1>0, <2>1, <2>2, <2>3, OutOfSending
  <2>5. ResentInv'
    BY <1>0, <2>1 DEF rows, ResentInv
  <2> QED
    BY <1>1, <2>4, <2>5
<1>3. ASSUME Claim(w) PROVE WaitingInv'
  <2>1. /\ UNCHANGED <<row, spooled, job>> /\ pc[w] = "claim"
        /\ \/ /\ status[Mine(w)] \in Open
              /\ pc' = [pc EXCEPT ![w] = "choose"]
              /\ attempts' = [attempts EXCEPT ![Mine(w)] = @ + 1]
              /\ fence' = [fence EXCEPT ![w] = attempts[Mine(w)] + 1]
              /\ status' = [status EXCEPT ![Mine(w)] = "retrying"]
           \/ /\ pc' = [pc EXCEPT ![w] = "finish"] /\ UNCHANGED <<status, attempts, fence>>
    BY <1>3 DEF Claim, CountClaim, Finish, Goes
  <2>2. Mine(w) \in Chains /\ job[w] \in DispatchJobs
    BY <2>1, JobsNameChains DEF RetryTypes
  <2>3. CASE pc' = [pc EXCEPT ![w] = "finish"] /\ UNCHANGED <<status, attempts, fence>>
    <3>1. FencesInv'
      BY <1>0, <2>1, <2>3, OutOfSending, SMTT(30) DEF Sending, RetryTypes
    <3>2. ResentInv'
      BY <1>0, <2>1, <2>3 DEF ResentInv
    <3> QED
      BY <1>1, <3>1, <3>2
  <2>4. CASE /\ status[Mine(w)] \in Open
             /\ pc' = [pc EXCEPT ![w] = "choose"]
             /\ attempts' = [attempts EXCEPT ![Mine(w)] = @ + 1]
             /\ fence' = [fence EXCEPT ![w] = attempts[Mine(w)] + 1]
             /\ status' = [status EXCEPT ![Mine(w)] = "retrying"]
    <3> DEFINE n == attempts[Mine(w)] + 1
    <3>1. attempts[Mine(w)] \in Nat /\ n \in Nat /\ n >= 1
      BY <2>2 DEF RetryTypes, Numbers
    <3>2. Attempt(w)' = <<Mine(w), n>>
      BY <2>1, <2>4 DEF Attempt, Mine, RetryTypes
    <3>3. \A v \in Workers : v # w =>
            Attempt(v)' = Attempt(v) /\ pc'[v] = pc[v] /\ fence'[v] = fence[v]
      BY <2>1, <2>4 DEF Attempt, Mine, RetryTypes
    <3>4. <<Mine(w), n>> \notin spooled
      BY <3>1 DEF RecordsInv, SubmissionsCounted
    <3>5. \A v \in Workers : pc[v] \in Sending => Attempt(v) # <<Mine(w), n>>
      BY <3>1 DEF RecordsInv, FenceCounted, Attempt, Sending
    <3>6. pc'[w] = "choose" /\ fence'[w] = n
      BY <2>4 DEF RetryTypes
    <3> HIDE DEF n
    <3>7. FencesInv'
      BY <1>0, <2>1, <3>1, <3>2, <3>3, <3>4, <3>5, <3>6 DEF FencesInv, Sending
    <3>8. ResentInv'
      BY <1>0, <2>1, <2>2, <2>4 DEF ResentInv, RetryTypes
    <3> QED
      BY <1>1, <3>7, <3>8
  <2> QED
    BY <2>1, <2>3, <2>4
<1>4. ASSUME ChooseBind(w) \/ Refuse(w) \/ RecordLost(w) PROVE WaitingInv'
  <2>1. /\ UNCHANGED <<status, attempts, spooled, job, fence>>
        /\ \A s \in Submissions : row[s] = "submitted" => row'[s] = "submitted"
        /\ \/ pc[w] = "choose" /\ pc' = [pc EXCEPT ![w] = "send"]
           \/ pc' = [pc EXCEPT ![w] = "finish"]
    BY <1>4 DEF ChooseBind, Refuse, RecordLost, RecordAttempt, Finish, Goes, rows, RetryTypes
  <2>2. FencesInv'
    BY <1>0, <2>1, SMTT(30) DEF FencesInv, Sending, Attempt, Mine, RetryTypes
  <2>3. \A c \in Chains : <<c, attempts[c]>> \in Submissions
    BY DEF Submissions, RetryTypes
  <2>4. ResentInv'
    BY <1>0, <2>1, <2>3 DEF ResentInv
  <2> QED
    BY <1>1, <2>2, <2>4
<1>5. ASSUME Send(w) \/ SendFails(w) PROVE WaitingInv'
  <2>1. /\ UNCHANGED <<rows, job, fence>>
        /\ \/ pc' = [pc EXCEPT ![w] = "refuse"] /\ spooled' = spooled
           \/ /\ pc[w] = "send" /\ spooled' = spooled \cup {Attempt(w)}
              /\ \E to \in {"refuse", "commit"} : pc' = [pc EXCEPT ![w] = to]
    BY <1>5 DEF Send, SendFails, Goes
  <2>2. pc[w] = "send" => Attempt(w) \in Submissions
    BY JobsNameChains DEF Attempt, RetryTypes
  <2>3. pc[w] = "send" => failId[Attempt(w)] = 0
    BY <2>2 DEF FencesInv, ReportsInv
  <2>4. FencesInv'
    <3>1. \A v \in Workers : Attempt(v)' = Attempt(v) /\ fence'[v] = fence[v] /\ job'[v] = job[v]
      BY <2>1 DEF Attempt, Mine
    <3>2. \A v \in Workers : v # w => pc'[v] = pc[v]
      BY <2>1 DEF RetryTypes
    <3>3. CASE pc' = [pc EXCEPT ![w] = "refuse"] /\ spooled' = spooled
      <4>1. pc'[w] \notin Sending
        BY <3>3 DEF RetryTypes, Sending
      <4> QED
        BY <1>0, <3>1, <3>2, <3>3, <4>1, OutOfSending
    <3>4. CASE /\ pc[w] = "send" /\ spooled' = spooled \cup {Attempt(w)}
               /\ \E to \in {"refuse", "commit"} : pc' = [pc EXCEPT ![w] = to]
      <4>1. pc'[w] \in {"refuse", "commit"}
        BY <3>4 DEF RetryTypes
      <4>2. \A v \in Workers : v # w /\ pc[v] \in Sending => Attempt(v) # Attempt(w)
        BY <3>4 DEF FencesInv, Sending
      <4> QED
        BY <1>0, <2>3, <3>1, <3>2, <3>4, <4>1, <4>2 DEF FencesInv, Sending
    <3> QED
      BY <2>1, <3>3, <3>4
  <2>5. ResentInv'
    BY <1>0, <2>1 DEF rows, ResentInv
  <2> QED
    BY <1>1, <2>4, <2>5
<1>6. ASSUME CommitSend(w) PROVE WaitingInv'
  <2>1. /\ UNCHANGED <<attempts, spooled, job, fence>> /\ pc[w] = "mark"
        /\ pc' = [pc EXCEPT ![w] = "charge"]
        /\ row' = [row EXCEPT ![Attempt(w)] = "submitted"]
        /\ \/ UNCHANGED status
           \/ /\ attempts[Mine(w)] = fence[w]
              /\ status' = [status EXCEPT ![Mine(w)] = "resent"]
    BY <1>6 DEF CommitSend, Resent, Goes
  <2>2. FencesInv'
    <3>1. pc'[w] = "charge" /\ \A v \in Workers : v # w => pc'[v] = pc[v]
      BY <2>1 DEF RetryTypes
    <3> QED
      BY <1>0, <2>1, <3>1, OutOfSending DEF Sending
  <2>3. /\ Mine(w) \in Chains /\ Attempt(w) \in Submissions
        /\ \A s \in Submissions : row[s] = "submitted" => row'[s] = "submitted"
        /\ \A c \in Chains : <<c, attempts[c]>> \in Submissions
    BY <2>1, JobsNameChains DEF Attempt, Submissions, RetryTypes
  <2>4. CASE UNCHANGED status
    BY <1>0, <1>1, <2>1, <2>2, <2>3, <2>4 DEF ResentInv
  <2>5. CASE /\ attempts[Mine(w)] = fence[w]
             /\ status' = [status EXCEPT ![Mine(w)] = "resent"]
    <3>1. Attempt(w) = <<Mine(w), attempts[Mine(w)]>> /\ attempts[Mine(w)] = fence[w]
      BY <2>5 DEF Attempt
    <3>2. fence[w] >= 1 /\ failId[Attempt(w)] = 0 /\ 0 \notin ingested
      BY <2>1 DEF FencesInv, Sending, ReportsInv
    <3>3. row'[Attempt(w)] = "submitted"
      BY <2>1, <2>3 DEF RetryTypes
    <3>4. \A c \in Chains : c # Mine(w) => status'[c] = status[c]
      BY <2>5 DEF RetryTypes
    <3>5. ResentInv'
      BY <1>0, <2>1, <2>3, <3>1, <3>2, <3>3, <3>4 DEF ResentInv
    <3> QED
      BY <1>1, <2>2, <3>5
  <2> QED
    BY <2>1, <2>4, <2>5
<1>7. ASSUME FinishChain(w) PROVE WaitingInv'
  <2>1. /\ UNCHANGED <<attempts, row, spooled, job, fence>>
        /\ pc[w] = "finish" /\ pc' = [pc EXCEPT ![w] = "return"]
        /\ status' = [status EXCEPT ![Mine(w)] = verdict[w]]
    BY <1>7 DEF FinishChain, Terminate, Goes
  <2>2. verdict[w] # "resent"
    BY <2>1 DEF RecordsInv, CarriedTrue, Closed
  <2>3. FencesInv'
    BY <1>0, <2>1, OutOfSending, SMTT(30) DEF Sending, RetryTypes
  <2>4. ResentInv'
    BY <1>0, <2>1, <2>2 DEF ResentInv, RetryTypes
  <2> QED
    BY <1>1, <2>3, <2>4
<1>8. ASSUME CheckFence(w) PROVE WaitingInv'
  <2>1. /\ UNCHANGED <<rows, spooled, job, fence>> /\ pc[w] = "commit"
        /\ \E to \in {"mark", "refuse"} : pc' = [pc EXCEPT ![w] = to]
    BY <1>8 DEF CheckFence, Goes
  <2>2. /\ pc'[w] \in {"mark", "refuse"}
        /\ \A v \in Workers : (v # w => pc'[v] = pc[v]) /\ Attempt(v)' = Attempt(v)
    BY <2>1 DEF RetryTypes, Attempt, Mine
  <2>3. FencesInv'
    BY <1>0, <2>1, <2>2 DEF FencesInv, Sending
  <2>4. ResentInv'
    BY <1>0, <2>1 DEF rows, ResentInv
  <2> QED
    BY <1>1, <2>3, <2>4
<1> QED
  BY <1>2, <1>3, <1>4, <1>5, <1>6, <1>7, <1>8 DEF Dispatch

\* Every step keeps what "resent" means.
LEMMA NextWaitingInv ==
  ASSUME ReportsAfterCommit, RetryTypes, RecordsInv, WaitingInv, [Next]_vars
  PROVE  WaitingInv'
<1>1. RetryTypes'
  BY NextRetryTypes
<1>2. CASE UNCHANGED <<rows, engine, dispatch, ingested>>
  BY <1>2
  DEF rows, engine, dispatch, WaitingInv, ReportsInv, FencesInv, ResentInv, Attempt, Mine
<1>3. ASSUME NEW j \in DispatchJobs, Recover(j) \/ CancelJob(j) PROVE WaitingInv'
  BY <1>2, <1>3 DEF Recover, CancelJob, Aside, engine
<1>4. CASE UNCHANGED vars
  BY <1>2, <1>4 DEF vars
<1> QED
  BY <1>1, <1>3, <1>4, ReportsWaitingInv, ScanWaitingInv, DispatchWaitingInv DEF Next

\* While a carrier's report never overtakes the sender's COMMIT, a resent chain
\* really waits: no scan moved the watermark past a failure of the attempt it
\* was resent with, so the next scan still finds it and the chain goes on.
THEOREM ResentChainsWait == ReportsAfterCommit => (Spec => []ResentMeansUnknown)
<1> SUFFICES ASSUME ReportsAfterCommit PROVE Spec => []ResentMeansUnknown
  OBVIOUS
<1>1. Init => RetryTypes /\ ScansInv /\ RecordsInv /\ WaitingInv
  BY InitRetryTypes, InitRecordsInv, InitWaitingInv
  DEF Init, ScansInv, WatermarkCoversIngested
<1>2. RetryTypes /\ ScansInv /\ RecordsInv /\ WaitingInv /\ [Next]_vars =>
        RetryTypes' /\ ScansInv' /\ RecordsInv' /\ WaitingInv'
  BY NextRetryTypes, NextScansInv, NextRecordsInv, NextWaitingInv
<1>3. RetryTypes /\ ScansInv /\ WaitingInv => ResentMeansUnknown
  <2> SUFFICES ASSUME RetryTypes, ScansInv, WaitingInv, NEW c \in Chains, status[c] = "resent"
               PROVE  /\ row[<<c, attempts[c]>>] = "submitted"
                      /\ \/ failId[<<c, attempts[c]>>] = 0
                         \/ failId[<<c, attempts[c]>>] > watermark
    BY DEF ResentMeansUnknown
  <2>1. failId[<<c, attempts[c]>>] \in Nat /\ watermark \in Nat
    BY DEF RetryTypes, Submissions
  <2> QED
    BY <2>1 DEF WaitingInv, ResentInv, ScansInv, WatermarkCoversIngested
<1>4. QED
  BY <1>1, <1>2, <1>3, PTL DEF Spec

-----------------------------------------------------------------------------
(* What is sent is recorded, while nothing fails and scans do not overlap. *)

\* The chain's row as a job that has not claimed finds it, and as its claim
\* leaves it.
Due(j) == status[j[1]] = "pending" /\ attempts[j[1]] = j[2] - 1
Claimed(j) == status[j[1]] = "retrying" /\ attempts[j[1]] = j[2]

\* A waiting job is due; so is one whose worker has not claimed; a worker that
\* has claimed, and has neither sent nor given up, is the chain's only one.
TurnsInv ==
  /\ \A c \in Chains : status[c] = "none" => attempts[c] = 0
  /\ \A j \in DispatchJobs :
       /\ phase[j] = "waiting" => Due(j)
       /\ phase[j] = "taken" => executor[j] # Nobody
  /\ \A w \in Workers :
       /\ pc[w] # "idle" => phase[job[w]] = "taken" /\ executor[job[w]] = w
       /\ pc[w] \in {"load", "check", "claim"} => Due(job[w])
       /\ pc[w] \in {"choose", "send", "commit", "mark", "refuse"} =>
            Claimed(job[w]) /\ fence[w] = job[w][2]
       /\ pc[w] = "finish" => Due(job[w]) \/ Claimed(job[w])

\* The chains a scan is about to settle still wait for what it asked about.
SettlesInv ==
  \A x \in Scanners : spc[x] \in {"events", "settling"} =>
    \A s \in open[x] : status[s[1]] = "resent" /\ attempts[s[1]] = s[2]

SendsRecorded == \A s \in spooled : row[s] = "submitted" \/ InSeam(s)

QueueTypes ==
  /\ phase \in [DispatchJobs -> {"absent", "waiting", "taken", "over"}]
  /\ executor \in [DispatchJobs -> Workers \cup {Nobody}]
  /\ faults \in Nat

\* Nothing has failed yet, and scans take turns.
Undisturbed == faults = 0 /\ Cardinality(Scanners) = 1

UndisturbedInv == QueueTypes /\ (Undisturbed => TurnsInv /\ SettlesInv /\ SendsRecorded)

\* Every original message is recorded and no job exists.
LEMMA InitUndisturbedInv == Init => UndisturbedInv
<1> SUFFICES ASSUME Init PROVE UndisturbedInv
  OBVIOUS
<1>1. QueueTypes
  BY DEF Init, Queue!Init, QueueTypes
<1>2. TurnsInv
  BY DEF Init, Queue!Init, TurnsInv
<1>3. SettlesInv
  BY DEF Init, SettlesInv
<1>4. SendsRecorded
  BY BudgetAssumption DEF Init, SendsRecorded, Submissions, Numbers
<1> QED
  BY <1>1, <1>2, <1>3, <1>4 DEF UndisturbedInv

\* Every step keeps the types of the queue.
LEMMA NextQueueTypes ==
  ASSUME RetryTypes, QueueTypes, [Next]_vars
  PROVE  QueueTypes'
<1>1. ASSUME UNCHANGED queue, faults' = faults \/ Fault PROVE QueueTypes'
  BY <1>1 DEF QueueTypes, queue, Fault
<1>2. ASSUME NEW s \in Submissions, ReportFailure(s) \/ ReportRejection(s) \/ ReportDelivery(s)
      PROVE  QueueTypes'
  BY <1>1, <1>2 DEF ReportFailure, ReportRejection, ReportDelivery
<1>3. ASSUME NEW x \in Scanners, Scan(x) PROVE QueueTypes'
  <2>1. ASSUME Ingest(x) PROVE QueueTypes'
    <3>1. PICK s \in Submissions : IngestReport(x, s)
      BY <2>1 DEF Ingest
    <3>2. UNCHANGED queue \/ \E j \in DispatchJobs : Queue!Submit(j)
      <4>1. s[1] \in Chains /\ \A n \in 1..MaxAttempts : <<s[1], n>> \in DispatchJobs
        BY DEF Submissions, DispatchJobs
      <4>2. 1 \in 1..MaxAttempts
        BY BudgetAssumption
      <4>3. attempts[s[1]] < MaxAttempts => attempts[s[1]] + 1 \in 1..MaxAttempts
        BY <4>1, BudgetAssumption DEF RetryTypes, Numbers
      <4> QED
        BY <3>1, <4>1, <4>2, <4>3
        DEF IngestReport, OpenChain, ContinueChain, EnqueueDispatch
    <3>3. faults' = faults
      BY <2>1 DEF Ingest
    <3> QED
      BY <3>2, <3>3 DEF Queue!Submit, QueueTypes, queue
  <2>2. ASSUME \/ Prepare(x) \/ Query(x) \/ IngestFails(x) \/ ReportsDone(x) \/ ReadResent(x)
               \/ AskEngine(x) \/ SettleDone(x) \/ RecordScan(x) \/ ScanLost(x)
               \/ \E s \in Submissions : SettleChain(x, s)
        PROVE  QueueTypes'
    BY <1>1, <2>2
    DEF Prepare, Query, IngestFails, ReportsDone, ReadResent, AskEngine, SettleDone, RecordScan,
        ScanLost, SettleChain, ScanAside
  <2> QED
    BY <1>3, <2>1, <2>2 DEF Scan
<1>4. ASSUME NEW w \in Workers,
             \/ Load(w) \/ CheckEngine(w) \/ Claim(w) \/ ChooseBind(w) \/ Send(w) \/ CheckFence(w)
             \/ CommitSend(w) \/ RecordCharge(w) \/ Refuse(w) \/ FinishChain(w) \/ SendFails(w)
             \/ RecordLost(w)
      PROVE  QueueTypes'
  BY <1>1, <1>4
  DEF Load, CheckEngine, Claim, ChooseBind, Send, CheckFence, CommitSend, RecordCharge, Refuse,
      FinishChain, SendFails, RecordLost
<1>5. ASSUME NEW w \in Workers, Return(w) \/ Throw(w) \/ Crash(w) PROVE QueueTypes'
  <2>1. /\ Queue!Settle(job[w]) \/ Queue!Lose(job[w])
        /\ faults' = faults \/ Fault
        /\ job[w] \in DispatchJobs
    BY <1>5 DEF Return, Throw, Crash, RetryTypes
  <2> QED
    BY <2>1 DEF Queue!Settle, Queue!Lose, QueueTypes, Fault
<1>6. ASSUME NEW j \in DispatchJobs,
             Recover(j) \/ CancelJob(j) \/ \E w \in Workers : Take(j, w)
      PROVE  QueueTypes'
  BY <1>6
  DEF Recover, CancelJob, Take, Queue!Recover, Queue!Withdraw, Queue!Take, QueueTypes, Fault
<1>7. CASE UNCHANGED vars
  BY <1>1, <1>7 DEF vars
<1> QED
  BY <1>2, <1>3, <1>4, <1>5, <1>6, <1>7 DEF Next, Dispatch

\* The jobs of one chain take turns.
LEMMA OneTurn ==
  ASSUME RetryTypes, NEW j \in DispatchJobs, NEW k \in DispatchJobs, j[1] = k[1],
         Due(j) \/ Claimed(j), Due(k) \/ Claimed(k)
  PROVE  j = k
  BY DEF Due, Claimed, DispatchJobs

\* A chain whose status is neither pending nor retrying may take any status,
\* but to become pending it needs its next job.
LEMMA IdleChainMoves ==
  ASSUME RetryTypes, QueueTypes, TurnsInv, NEW c \in Chains,
         status[c] \notin Open, NEW t, t # "none",
         status' = [status EXCEPT ![c] = t],
         UNCHANGED <<attempts, executor, dispatch>>,
         NEW n \in Nat, n = attempts[c] + 1,
         \/ UNCHANGED phase
         \/ /\ t = "pending" /\ <<c, n>> \in DispatchJobs /\ phase[<<c, n>>] = "absent"
            /\ phase' = [phase EXCEPT ![<<c, n>>] = "waiting"]
  PROVE  TurnsInv'
<1>1. \A j \in DispatchJobs :
        Due(j) \/ Claimed(j) => j[1] # c /\ (Due(j) => Due(j)') /\ (Claimed(j) => Claimed(j)')
  BY DEF Due, Claimed, Open, RetryTypes, DispatchJobs
<1>2. \A d \in Chains : status'[d] = "none" => attempts'[d] = 0
  BY DEF TurnsInv, RetryTypes
<1>3. \A j \in DispatchJobs :
        /\ phase'[j] = "waiting" => Due(j)'
        /\ phase'[j] = "taken" => executor'[j] # Nobody
  <2>1. t = "pending" => Due(<<c, n>>)'
    BY DEF Due, RetryTypes, Numbers
  <2>2. CASE UNCHANGED phase
    BY <1>1, <2>2 DEF TurnsInv
  <2>3. CASE t = "pending" /\ phase' = [phase EXCEPT ![<<c, n>>] = "waiting"]
    BY <1>1, <2>1, <2>3 DEF TurnsInv, QueueTypes
  <2> QED
    BY <2>2, <2>3
<1>4. \A w \in Workers :
        /\ pc'[w] # "idle" => phase'[job'[w]] = "taken" /\ executor'[job'[w]] = w
        /\ pc'[w] \in {"load", "check", "claim"} => Due(job[w])'
        /\ pc'[w] \in {"choose", "send", "commit", "mark", "refuse"} =>
             Claimed(job[w])' /\ fence'[w] = job'[w][2]
        /\ pc'[w] = "finish" => Due(job[w])' \/ Claimed(job[w])'
  <2> SUFFICES ASSUME NEW w \in Workers, pc[w] # "idle"
               PROVE  /\ phase'[job[w]] = "taken" /\ executor[job[w]] = w
                      /\ pc[w] \in {"load", "check", "claim"} => Due(job[w])'
                      /\ pc[w] \in {"choose", "send", "commit", "mark", "refuse"} =>
                           Claimed(job[w])' /\ fence[w] = job[w][2]
                      /\ pc[w] = "finish" => Due(job[w])' \/ Claimed(job[w])'
    BY DEF dispatch
  <2>1. job[w] \in DispatchJobs /\ phase[job[w]] = "taken"
    BY DEF RetryTypes, TurnsInv
  <2>2. phase'[job[w]] = "taken"
    BY <2>1 DEF QueueTypes
  <2> QED
    BY <1>1, <2>1, <2>2 DEF TurnsInv, dispatch
<1> QED
  BY <1>2, <1>3, <1>4 DEF TurnsInv, dispatch

\* A worker's turn does not depend on what leaves queue, counts and statuses.
LEMMA TurnsStay ==
  ASSUME TurnsInv, UNCHANGED <<queue, status, attempts, dispatch>>
  PROVE  TurnsInv'
  BY DEF TurnsInv, Due, Claimed, queue, dispatch

\* The only scan settles what still waits, and opens and continues chains that
\* no worker is busy with.
LEMMA ScanUndisturbed ==
  ASSUME RetryTypes, RecordsInv, QueueTypes, TurnsInv, SettlesInv, SendsRecorded,
         NEW x \in Scanners, \A y \in Scanners : y = x, Scan(x), ~Fault
  PROVE  TurnsInv' /\ SettlesInv' /\ SendsRecorded'
<1> DEFINE Goal == TurnsInv' /\ SettlesInv' /\ SendsRecorded'
<1>0. SendsRecorded'
  <2>1. UNCHANGED <<row, spooled, dispatch>>
    BY DEF Scan, Prepare, Query, Ingest, IngestFails, ReportsDone, ReadResent, AskEngine,
           SettleChain, SettleDone, RecordScan, ScanLost, ScanAside, rows, engine
  <2> QED
    BY <2>1 DEF SendsRecorded, InSeam, Attempt, Mine, dispatch
<1>1. ASSUME \/ Prepare(x) \/ Query(x) \/ ReportsDone(x) \/ ReadResent(x) \/ AskEngine(x)
             \/ SettleDone(x) \/ RecordScan(x)
      PROVE  Goal
  <2>1. UNCHANGED <<queue, rows, dispatch>>
    BY <1>1
    DEF Prepare, Query, ReportsDone, ReadResent, AskEngine, SettleDone, RecordScan, ScanAside
  <2>2. TurnsInv'
    BY <2>1, TurnsStay DEF rows
  <2>3. ASSUME spc'[x] \in {"events", "settling"}
        PROVE  \A s \in open'[x] : status[s[1]] = "resent" /\ attempts[s[1]] = s[2]
    <3>1. CASE ReadResent(x)
      BY <3>1 DEF ReadResent, Unsettled, RetryTypes
    <3>2. CASE AskEngine(x)
      BY <3>2 DEF AskEngine, Settled, ScanMoves, SettlesInv, RetryTypes
    <3>3. CASE Prepare(x) \/ Query(x) \/ ReportsDone(x) \/ SettleDone(x) \/ RecordScan(x)
      BY <2>3, <3>3
      DEF Prepare, Query, ReportsDone, SettleDone, RecordScan, ScanMoves, ScanEnds, RetryTypes
    <3> QED
      BY <1>1, <3>1, <3>2, <3>3
  <2>4. SettlesInv'
    BY <2>1, <2>3 DEF SettlesInv, rows
  <2> QED
    BY <1>0, <2>2, <2>4
<1>2. ASSUME NEW s \in Submissions, SettleChain(x, s) PROVE Goal
  <2>1. /\ UNCHANGED <<queue, attempts, dispatch, spc>> /\ spc[x] = "settling" /\ s \in open[x]
        /\ open' = [open EXCEPT ![x] = @ \ {s}]
        /\ status' = [status EXCEPT ![s[1]] = "delivered"]
    BY <1>2 DEF SettleChain
  <2>2. s[1] \in Chains /\ status[s[1]] = "resent" /\ attempts[s[1]] = s[2]
    BY <2>1 DEF Submissions, SettlesInv
  <2>3. attempts[s[1]] + 1 \in Nat
    BY <2>2 DEF RetryTypes, Numbers
  <2>4. TurnsInv'
    BY <2>1, <2>2, <2>3, IdleChainMoves DEF Open, queue
  <2>5. \A t \in open[x] : t # s => t[1] # s[1]
    BY <2>1, <2>2 DEF SettlesInv, Submissions, RetryTypes
  <2>6. SettlesInv'
    BY <2>1, <2>5 DEF SettlesInv, Submissions, RetryTypes
  <2> QED
    BY <1>0, <2>4, <2>6
<1>3. ASSUME Ingest(x) PROVE Goal
  <2>1. PICK s \in Submissions : IngestReport(x, s)
    BY <1>3 DEF Ingest
  <2> DEFINE j == <<s[1], attempts[s[1]] + 1>>
             IdleMoves ==
               \E t \in {"pending", "abandoned", "exhausted"} :
                 /\ status[s[1]] \notin Open
                 /\ status' = [status EXCEPT ![s[1]] = t]
                 /\ UNCHANGED executor
                 /\ \/ UNCHANGED phase
                    \/ /\ t = "pending" /\ j \in DispatchJobs /\ phase[j] = "absent"
                       /\ phase' = [phase EXCEPT ![j] = "waiting"]
  <2>2. UNCHANGED <<attempts, dispatch, spc, open>> /\ spc[x] = "reports"
    BY <1>3 DEF Ingest
  <2>3. SettlesInv'
    BY <2>2 DEF SettlesInv
  <2>4. /\ s[1] \in Chains /\ \A n \in 1..MaxAttempts : <<s[1], n>> \in DispatchJobs
        /\ attempts[s[1]] + 1 \in Nat /\ 1 \in 1..MaxAttempts
        /\ attempts[s[1]] < MaxAttempts => attempts[s[1]] + 1 \in 1..MaxAttempts
    BY BudgetAssumption DEF Submissions, DispatchJobs, RetryTypes, Numbers
  <2>5. CASE UNCHANGED <<queue, status>>
    BY <1>0, <2>2, <2>3, <2>5, TurnsStay
  <2>6. CASE IdleMoves
    BY <1>0, <2>2, <2>3, <2>4, <2>6, IdleChainMoves
  <2>7. ASSUME OpenChain(x, s[1]), ~UNCHANGED <<queue, status>> PROVE IdleMoves
    <3>1. status[s[1]] = "none" /\ attempts[s[1]] + 1 = 1
      BY <2>4, <2>7 DEF OpenChain, TurnsInv
    <3> QED
      BY <2>4, <2>7, <3>1 DEF OpenChain, EnqueueDispatch, Queue!Submit, Open, queue
  <2>8. ASSUME ContinueChain(x, s[1]), ~UNCHANGED <<queue, status>> PROVE IdleMoves
    BY <2>4, <2>8 DEF ContinueChain, Continuable, EnqueueDispatch, Queue!Submit, Open, queue
  <2> QED
    BY <2>1, <2>5, <2>6, <2>7, <2>8 DEF IngestReport
<1>4. ~(IngestFails(x) \/ ScanLost(x))
  BY DEF IngestFails, ScanLost
<1> QED
  BY <1>1, <1>2, <1>3, <1>4 DEF Scan

\* A worker's step that moves its own chain on, if it holds the chain's turn,
\* and leaves it in the turn that its next step needs.
LEMMA TurnMoves ==
  ASSUME RetryTypes, RetryTypes', QueueTypes, TurnsInv, SettlesInv, NEW w \in Workers,
         pc[w] # "idle", NEW to, pc' = [pc EXCEPT ![w] = to],
         UNCHANGED <<queue, job, scan>>,
         \A v \in Workers : v # w => fence'[v] = fence[v],
         \A c \in Chains : c # Mine(w) => status'[c] = status[c] /\ attempts'[c] = attempts[c],
         UNCHANGED <<status, attempts>> \/ Due(job[w]) \/ Claimed(job[w]),
         UNCHANGED <<status, attempts>> \/ status'[Mine(w)] # "none", to # "idle",
         to \in {"load", "check", "claim"} => Due(job[w])',
         to \in {"choose", "send", "commit", "mark", "refuse"} =>
           Claimed(job[w])' /\ fence'[w] = job[w][2],
         to = "finish" => Due(job[w])' \/ Claimed(job[w])'
  PROVE  TurnsInv' /\ SettlesInv'
<1> DEFINE k == job[w]
<1>1. k \in DispatchJobs /\ Mine(w) = k[1] /\ phase[k] = "taken" /\ executor[k] = w
  BY DEF RetryTypes, Mine, ChainOf, TurnsInv
<1>2. \A j \in DispatchJobs :
        j # k => (Due(j) => Due(j)') /\ (Claimed(j) => Claimed(j)')
  <2> SUFFICES ASSUME NEW j \in DispatchJobs, j # k, Due(j) \/ Claimed(j)
               PROVE  status'[j[1]] = status[j[1]] /\ attempts'[j[1]] = attempts[j[1]]
    BY DEF Due, Claimed
  <2>1. j[1] \in Chains
    BY DEF DispatchJobs
  <2>2. CASE UNCHANGED <<status, attempts>>
    BY <2>2
  <2>3. CASE Due(k) \/ Claimed(k)
    BY <1>1, <2>1, <2>3, OneTurn
  <2> QED
    BY <2>2, <2>3
<1>3. \A c \in Chains : status'[c] = "none" => attempts'[c] = 0
  BY DEF TurnsInv
<1>4. \A j \in DispatchJobs :
        (phase'[j] = "waiting" => Due(j)') /\ (phase'[j] = "taken" => executor'[j] # Nobody)
  BY <1>1, <1>2 DEF TurnsInv, queue
<1>5. \A v \in Workers :
        /\ pc'[v] # "idle" => phase'[job'[v]] = "taken" /\ executor'[job'[v]] = v
        /\ pc'[v] \in {"load", "check", "claim"} => Due(job[v])'
        /\ pc'[v] \in {"choose", "send", "commit", "mark", "refuse"} =>
             Claimed(job[v])' /\ fence'[v] = job'[v][2]
        /\ pc'[v] = "finish" => Due(job[v])' \/ Claimed(job[v])'
  <2> SUFFICES ASSUME NEW v \in Workers
               PROVE  /\ pc'[v] # "idle" => phase[job[v]] = "taken" /\ executor[job[v]] = v
                      /\ pc'[v] \in {"load", "check", "claim"} => Due(job[v])'
                      /\ pc'[v] \in {"choose", "send", "commit", "mark", "refuse"} =>
                           Claimed(job[v])' /\ fence'[v] = job[v][2]
                      /\ pc'[v] = "finish" => Due(job[v])' \/ Claimed(job[v])'
    BY DEF queue
  <2>1. CASE v = w
    BY <1>1, <2>1 DEF RetryTypes
  <2>2. CASE v # w
    <3>1. pc'[v] = pc[v] /\ (pc[v] # "idle" => job[v] \in DispatchJobs /\ job[v] # k)
      BY <1>1, <2>2 DEF RetryTypes, TurnsInv
    <3> QED
      BY <1>2, <2>2, <3>1 DEF TurnsInv
  <2> QED
    BY <2>1, <2>2
<1>6. TurnsInv'
  BY <1>3, <1>4, <1>5 DEF TurnsInv
<1>7. SettlesInv'
  BY DEF SettlesInv, scan, Due, Claimed, Mine, ChainOf, RetryTypes, Submissions
<1> QED
  BY <1>6, <1>7

\* Nobody but its sender ends a send's seam, and its sender ends it with the
\* attempt's row.
LEMMA SendsStayRecorded ==
  ASSUME RetryTypes, SendsRecorded, NEW w \in Workers,
         \A v \in Workers : v # w =>
           pc'[v] = pc[v] /\ job'[v] = job[v] /\ fence'[v] = fence[v],
         \A s \in spooled : row[s] = "submitted" => row'[s] = "submitted",
         pc[w] \in {"commit", "mark"} => row'[Attempt(w)] = "submitted",
         spooled' = spooled
  PROVE  SendsRecorded'
<1> SUFFICES ASSUME NEW s \in spooled, row'[s] # "submitted" PROVE InSeam(s)'
  BY DEF SendsRecorded
<1>1. PICK v \in Workers : pc[v] \in {"commit", "mark"} /\ Attempt(v) = s
  BY DEF SendsRecorded, InSeam
<1>2. v # w
  BY <1>1
<1> QED
  BY <1>1, <1>2 DEF InSeam, Attempt, Mine

\* dispatch(), while nothing fails.
LEMMA DispatchUndisturbed ==
  ASSUME RetryTypes, RetryTypes', RecordsInv, QueueTypes, TurnsInv, SettlesInv, SendsRecorded,
         NEW w \in Workers, Dispatch(w)
  PROVE  TurnsInv' /\ SettlesInv' /\ SendsRecorded'
<1> DEFINE k == job[w]
           Goal == TurnsInv' /\ SettlesInv' /\ SendsRecorded'
<1>0. /\ pc[w] # "idle" /\ UNCHANGED scan
      /\ k \in DispatchJobs /\ Mine(w) = k[1] /\ Mine(w) \in Chains /\ k[2] \in 1..MaxAttempts
      /\ phase[k] = "taken" /\ executor[k] = w
  <2>1. pc[w] # "idle" /\ UNCHANGED scan
    BY DEF Dispatch, Load, CheckEngine, Claim, ChooseBind, Send, CheckFence, CommitSend,
           RecordCharge, Refuse, FinishChain, Return, Finish, Goes, Aside
  <2> QED
    BY <2>1 DEF RetryTypes, Mine, ChainOf, DispatchJobs, TurnsInv
<1>1. ASSUME Load(w) \/ CheckEngine(w) PROVE Goal
  <2>1. /\ UNCHANGED <<queue, rows, spooled, job, fence>> /\ pc[w] \in {"load", "check"}
        /\ \E to \in {"return", "finish", "check", "claim"} : pc' = [pc EXCEPT ![w] = to]
    BY <1>1 DEF Load, CheckEngine, Finish, Goes
  <2>2. Due(k) /\ (Due(k))'
    BY <2>1 DEF TurnsInv, Due, rows
  <2>3. TurnsInv' /\ SettlesInv'
    BY <1>0, <2>1, <2>2, TurnMoves DEF rows, Due
  <2>4. SendsRecorded'
    BY <2>1, SendsStayRecorded, SMTT(30) DEF rows, RetryTypes
  <2> QED
    BY <2>3, <2>4
<1>2. ASSUME Claim(w) PROVE Goal
  <2>1. Due(k) /\ pc[w] = "claim" /\ UNCHANGED <<queue, row, spooled, job>>
    BY <1>2 DEF Claim, TurnsInv
  <2>2. status[Mine(w)] \in Open /\ AttemptLeft(Mine(w))
    BY <1>0, <2>1, BudgetAssumption DEF Due, Open, AttemptLeft
  <2>3. /\ pc' = [pc EXCEPT ![w] = "choose"]
        /\ status' = [status EXCEPT ![Mine(w)] = "retrying"]
        /\ attempts' = [attempts EXCEPT ![Mine(w)] = @ + 1]
        /\ fence' = [fence EXCEPT ![w] = attempts[Mine(w)] + 1]
    BY <1>2, <2>2 DEF Claim, CountClaim, Goes
  <2>4. Claimed(k)' /\ fence'[w] = k[2] /\ status'[Mine(w)] # "none"
    BY <1>0, <2>1, <2>3 DEF Due, Claimed, RetryTypes, Numbers
  <2>5. \A v \in Workers : v # w => fence'[v] = fence[v] /\ pc'[v] = pc[v]
    BY <2>3 DEF RetryTypes
  <2>6. \A c \in Chains : c # Mine(w) => status'[c] = status[c] /\ attempts'[c] = attempts[c]
    BY <2>3 DEF RetryTypes
  <2>7. TurnsInv' /\ SettlesInv'
    BY <1>0, <2>1, <2>3, <2>4, <2>5, <2>6, TurnMoves
  <2>8. SendsRecorded'
    BY <2>1, <2>5, SendsStayRecorded
  <2> QED
    BY <2>7, <2>8
<1>3. ASSUME ChooseBind(w) \/ Refuse(w) PROVE Goal
  <2>1. /\ UNCHANGED <<queue, status, attempts, spooled, job, fence>>
        /\ pc[w] \in {"choose", "refuse"}
        /\ \E to \in {"send", "finish"} : pc' = [pc EXCEPT ![w] = to]
        /\ \A s \in Submissions : row[s] = "submitted" => row'[s] = "submitted"
    BY <1>3 DEF ChooseBind, Refuse, RecordAttempt, Finish, Goes, RetryTypes
  <2>2. Claimed(k) /\ Claimed(k)' /\ fence[w] = k[2]
    BY <2>1 DEF TurnsInv, Claimed
  <2>3. TurnsInv' /\ SettlesInv'
    BY <1>0, <2>1, <2>2, TurnMoves DEF Claimed
  <2>4. SendsRecorded'
    <3>1. /\ pc[w] \notin {"commit", "mark"}
          /\ \A v \in Workers : v # w => pc'[v] = pc[v]
          /\ \A s \in spooled : row[s] = "submitted" => row'[s] = "submitted"
      BY <2>1 DEF RetryTypes
    <3> QED
      BY <2>1, <3>1, SendsStayRecorded
  <2> QED
    BY <2>3, <2>4
<1>4. ASSUME Send(w) PROVE Goal
  <2>1. /\ UNCHANGED <<queue, rows, job, fence>> /\ pc[w] = "send"
        /\ \/ pc' = [pc EXCEPT ![w] = "refuse"] /\ UNCHANGED spooled
           \/ pc' = [pc EXCEPT ![w] = "commit"] /\ spooled' = spooled \cup {Attempt(w)}
    BY <1>4 DEF Send, Goes
  <2>2. Claimed(k) /\ (Claimed(k))' /\ fence[w] = k[2]
    BY <2>1 DEF TurnsInv, Claimed, rows
  <2>3. TurnsInv' /\ SettlesInv'
    BY <1>0, <2>1, <2>2, TurnMoves DEF rows, Claimed
  <2>4. SendsRecorded'
    <3>1. CASE pc' = [pc EXCEPT ![w] = "refuse"] /\ UNCHANGED spooled
      BY <2>1, <3>1, SendsStayRecorded, SMTT(30) DEF rows, RetryTypes
    <3>2. CASE pc' = [pc EXCEPT ![w] = "commit"] /\ spooled' = spooled \cup {Attempt(w)}
      <4>1. \A v \in Workers : Attempt(v)' = Attempt(v)
        BY <2>1 DEF Attempt, Mine
      <4>2. pc'[w] = "commit" /\ \A v \in Workers : v # w => pc'[v] = pc[v]
        BY <2>1, <3>2 DEF RetryTypes
      <4> QED
        BY <2>1, <3>2, <4>1, <4>2 DEF SendsRecorded, InSeam, rows
    <3> QED
      BY <2>1, <3>1, <3>2
  <2> QED
    BY <2>3, <2>4
<1>5. ASSUME CommitSend(w) PROVE Goal
  <2>1. pc[w] = "mark" /\ Claimed(k) /\ fence[w] = k[2]
    BY <1>5 DEF CommitSend, Goes, TurnsInv
  <2>2. attempts[Mine(w)] = fence[w]
    BY <1>0, <2>1 DEF Claimed
  <2>3. /\ UNCHANGED <<queue, attempts, spooled, job, fence>>
        /\ pc' = [pc EXCEPT ![w] = "charge"]
        /\ row' = [row EXCEPT ![Attempt(w)] = "submitted"]
        /\ status' = [status EXCEPT ![Mine(w)] = "resent"]
    BY <1>5, <2>2 DEF CommitSend, Resent, Goes
  <2>4. Attempt(w) \in Submissions
    BY <1>0, <2>1, JobsNameChains DEF Attempt, RetryTypes
  <2>5. TurnsInv' /\ SettlesInv'
    <3>1. /\ status'[Mine(w)] # "none"
          /\ \A c \in Chains : c # Mine(w) => status'[c] = status[c] /\ attempts'[c] = attempts[c]
      BY <1>0, <2>3 DEF RetryTypes
    <3> QED
      BY <1>0, <2>1, <2>3, <3>1, TurnMoves
  <2>6. SendsRecorded'
    BY <2>3, <2>4, SendsStayRecorded DEF RetryTypes
  <2> QED
    BY <2>5, <2>6
<1>6. ASSUME RecordCharge(w) PROVE Goal
  <2>1. /\ UNCHANGED <<queue, rows, spooled, job, fence>> /\ pc[w] = "charge"
        /\ pc' = [pc EXCEPT ![w] = "return"]
    BY <1>6 DEF RecordCharge, Goes
  <2> QED
    BY <1>0, <2>1, TurnMoves, SendsStayRecorded DEF rows, RetryTypes
<1>7. ASSUME FinishChain(w) PROVE Goal
  <2>1. /\ UNCHANGED <<queue, attempts, row, spooled, job, fence>> /\ pc[w] = "finish"
        /\ pc' = [pc EXCEPT ![w] = "return"]
        /\ status' = [status EXCEPT ![Mine(w)] = verdict[w]]
    BY <1>7 DEF FinishChain, Terminate, Goes
  <2>2. verdict[w] # "none" /\ (Due(k) \/ Claimed(k))
    BY <2>1 DEF RecordsInv, CarriedTrue, Closed, TurnsInv
  <2>3. /\ status'[Mine(w)] # "none"
        /\ \A c \in Chains : c # Mine(w) => status'[c] = status[c] /\ attempts'[c] = attempts[c]
    BY <1>0, <2>1, <2>2 DEF RetryTypes
  <2>4. TurnsInv' /\ SettlesInv'
    BY <1>0, <2>1, <2>2, <2>3, TurnMoves
  <2>5. SendsRecorded'
    BY <2>1, SendsStayRecorded DEF RetryTypes
  <2> QED
    BY <2>4, <2>5
<1>8. ASSUME Return(w) PROVE Goal
  <2>1. /\ UNCHANGED <<rows, spooled>> /\ pc[w] = "return"
        /\ pc' = [pc EXCEPT ![w] = "idle"] /\ job' = [job EXCEPT ![w] = Nobody]
        /\ fence' = [fence EXCEPT ![w] = 0]
    BY <1>8 DEF Return, Forget
  <2>2. /\ phase' = [phase EXCEPT ![k] = "over"]
        /\ executor' = [executor EXCEPT ![k] = Nobody]
    BY <1>0, <1>8 DEF Return, Queue!Settle, Queue!Lose, QueueTypes
  <2>3. \A v \in Workers : v # w => pc'[v] = pc[v] /\ job'[v] = job[v] /\ fence'[v] = fence[v]
    BY <2>1 DEF RetryTypes
  <2>4. pc'[w] = "idle" /\ \A v \in Workers : v # w /\ pc[v] # "idle" => job[v] # k
    BY <1>0, <2>1 DEF RetryTypes, TurnsInv
  <2>5. \A j \in DispatchJobs : j # k => phase'[j] = phase[j] /\ executor'[j] = executor[j]
    BY <2>2 DEF QueueTypes
  <2>6. phase'[k] = "over" /\ \A j \in DispatchJobs : Due(j)' = Due(j) /\ Claimed(j)' = Claimed(j)
    BY <1>0, <2>1, <2>2 DEF QueueTypes, Due, Claimed, rows
  <2>7. TurnsInv'
    <3>1. \A c \in Chains : status'[c] = "none" => attempts'[c] = 0
      BY <2>1 DEF TurnsInv, rows
    <3>2. \A j \in DispatchJobs :
            (phase'[j] = "waiting" => Due(j)') /\ (phase'[j] = "taken" => executor'[j] # Nobody)
      BY <2>5, <2>6 DEF TurnsInv
    <3>3. \A v \in Workers : pc'[v] # "idle" => v # w /\ job[v] \in DispatchJobs /\ job[v] # k
      BY <2>3, <2>4 DEF RetryTypes
    <3> QED
      BY <2>3, <2>5, <2>6, <3>1, <3>2, <3>3 DEF TurnsInv
  <2>8. SettlesInv'
    BY <1>0, <2>1 DEF SettlesInv, scan, rows
  <2>9. SendsRecorded'
    BY <2>1, <2>3, SendsStayRecorded DEF rows
  <2> QED
    BY <2>7, <2>8, <2>9
<1>9. ASSUME CheckFence(w) PROVE Goal
  <2>1. pc[w] = "commit" /\ Claimed(k) /\ fence[w] = k[2]
    BY <1>9 DEF CheckFence, Goes, TurnsInv
  <2>2. Fenced(w)
    BY <1>0, <2>1 DEF Claimed, Fenced
  <2>3. /\ UNCHANGED <<queue, rows, spooled, job, fence>>
        /\ pc' = [pc EXCEPT ![w] = "mark"]
    BY <1>9, <2>2 DEF CheckFence, Goes
  <2>4. Claimed(k)'
    BY <2>1, <2>3 DEF Claimed, rows
  <2>5. TurnsInv' /\ SettlesInv'
    BY <1>0, <2>1, <2>3, <2>4, TurnMoves DEF rows
  <2>6. SendsRecorded'
    <3>1. \A v \in Workers : Attempt(v)' = Attempt(v)
      BY <2>3 DEF Attempt, Mine
    <3>2. pc'[w] = "mark" /\ \A v \in Workers : v # w => pc'[v] = pc[v]
      BY <2>3 DEF RetryTypes
    <3> QED
      BY <2>3, <3>1, <3>2 DEF SendsRecorded, InSeam, rows
  <2> QED
    BY <2>5, <2>6
<1> QED
  BY <1>1, <1>2, <1>3, <1>4, <1>5, <1>6, <1>7, <1>8, <1>9 DEF Dispatch

\* A worker takes a job that is due.
LEMMA TakeUndisturbed ==
  ASSUME RetryTypes, RetryTypes', QueueTypes, TurnsInv, SettlesInv, SendsRecorded,
         NEW w \in Workers, NEW k \in DispatchJobs, Take(k, w)
  PROVE  TurnsInv' /\ SettlesInv' /\ SendsRecorded'
<1>1. /\ UNCHANGED <<rows, spooled, fence, scan>> /\ pc[w] = "idle"
      /\ pc' = [pc EXCEPT ![w] = "load"] /\ job' = [job EXCEPT ![w] = k]
      /\ phase[k] = "waiting" /\ phase' = [phase EXCEPT ![k] = "taken"]
      /\ executor' = [executor EXCEPT ![k] = w]
  BY DEF Take, Goes, Queue!Take, Aside
<1>2. \A v \in Workers : v # w => pc'[v] = pc[v] /\ job'[v] = job[v] /\ fence'[v] = fence[v]
  BY <1>1 DEF RetryTypes
<1>3. Due(k) /\ pc'[w] = "load" /\ job'[w] = k /\ phase'[k] = "taken" /\ executor'[k] = w
  BY <1>1 DEF TurnsInv, RetryTypes, QueueTypes
<1>4. \A j \in DispatchJobs : j # k => phase'[j] = phase[j] /\ executor'[j] = executor[j]
  BY <1>1 DEF QueueTypes
<1>5. \A j \in DispatchJobs : Due(j)' = Due(j) /\ Claimed(j)' = Claimed(j)
  BY <1>1 DEF Due, Claimed, rows
<1>6. \A v \in Workers : v # w /\ pc[v] # "idle" => job[v] \in DispatchJobs /\ job[v] # k
  BY <1>1 DEF RetryTypes, TurnsInv
<1>7. TurnsInv'
  <2>1. \A c \in Chains : status'[c] = "none" => attempts'[c] = 0
    BY <1>1 DEF TurnsInv, rows
  <2>2. \A j \in DispatchJobs :
          (phase'[j] = "waiting" => Due(j)') /\ (phase'[j] = "taken" => executor'[j] # Nobody)
    BY <1>3, <1>4, <1>5, ActorsAssumption DEF TurnsInv
  <2>3. \A v \in Workers : v # w =>
          /\ pc'[v] # "idle" => phase'[job'[v]] = "taken" /\ executor'[job'[v]] = v
          /\ pc'[v] \in {"load", "check", "claim"} => Due(job[v])'
          /\ pc'[v] \in {"choose", "send", "commit", "mark", "refuse"} =>
               Claimed(job[v])' /\ fence'[v] = job'[v][2]
          /\ pc'[v] = "finish" => Due(job[v])' \/ Claimed(job[v])'
    BY <1>2, <1>4, <1>5, <1>6 DEF TurnsInv
  <2> QED
    BY <1>3, <1>5, <2>1, <2>2, <2>3 DEF TurnsInv
<1>8. SettlesInv'
  BY <1>1 DEF SettlesInv, scan, rows
<1>9. SendsRecorded'
  BY <1>1, <1>2, SendsStayRecorded DEF rows
<1> QED
  BY <1>7, <1>8, <1>9

\* Every step of an undisturbed system keeps its invariant.
LEMMA NextUndisturbedInv ==
  ASSUME RetryTypes, RecordsInv, UndisturbedInv, [Next]_vars
  PROVE  UndisturbedInv'
<1>1. RetryTypes' /\ QueueTypes /\ QueueTypes'
  BY NextRetryTypes, NextQueueTypes DEF UndisturbedInv
<1> DEFINE Goal == TurnsInv' /\ SettlesInv' /\ SendsRecorded'
<1>2. ASSUME Undisturbed' PROVE Goal
  <2>1. faults \in Nat /\ (faults' = faults \/ Fault)
    <3>1. faults' = faults \/ Fault
      BY DEF Next, ReportFailure, ReportRejection, ReportDelivery, Scan, Prepare, Query, Ingest,
             IngestFails, ReportsDone, ReadResent, AskEngine, SettleDone, RecordScan, ScanLost,
             SettleChain, Dispatch, Load, CheckEngine, Claim, ChooseBind, Send, CheckFence,
             CommitSend, RecordCharge, Refuse, FinishChain, Return, Throw, SendFails, RecordLost,
             Crash, Recover, CancelJob, Take, vars
    <3> QED
      BY <1>1, <3>1 DEF QueueTypes
  <2>2. ~Fault /\ Undisturbed
    BY <1>2, <2>1 DEF Undisturbed, Fault
  <2>3. TurnsInv /\ SettlesInv /\ SendsRecorded
    BY <2>2 DEF UndisturbedInv
  <2>4. ASSUME UNCHANGED <<queue, rows, spooled, dispatch, scan>> PROVE Goal
    <3>1. TurnsInv'
      BY <2>3, <2>4, TurnsStay DEF rows
    <3>2. SettlesInv' /\ SendsRecorded'
      BY <2>3, <2>4 DEF SettlesInv, SendsRecorded, InSeam, Attempt, Mine, rows, dispatch, scan
    <3> QED
      BY <3>1, <3>2
  <2>5. ASSUME NEW s \in Submissions, ReportFailure(s) \/ ReportRejection(s) \/ ReportDelivery(s)
        PROVE  Goal
    BY <2>4, <2>5 DEF ReportFailure, ReportRejection, ReportDelivery
  <2>6. ASSUME NEW x \in Scanners, Scan(x) PROVE Goal
    <3>1. \A y \in Scanners : y = x
      BY <2>2, FS_Singleton, ActorsAssumption DEF Undisturbed
    <3> QED
      BY <1>1, <2>2, <2>3, <2>6, <3>1, ScanUndisturbed
  <2>7. ASSUME NEW w \in Workers, Dispatch(w) PROVE Goal
    BY <1>1, <2>3, <2>7, DispatchUndisturbed
  <2>8. ASSUME NEW w \in Workers, Throw(w) \/ SendFails(w) \/ RecordLost(w) \/ Crash(w) PROVE FALSE
    BY <2>2, <2>8 DEF Throw, SendFails, RecordLost, Crash
  <2>9. ASSUME NEW j \in DispatchJobs, Recover(j) \/ CancelJob(j) PROVE FALSE
    BY <2>2, <2>3, <2>9 DEF Recover, CancelJob, Queue!Recover, TurnsInv
  <2>10. ASSUME NEW j \in DispatchJobs, NEW w \in Workers, Take(j, w) PROVE Goal
    BY <1>1, <2>3, <2>10, TakeUndisturbed
  <2>11. CASE UNCHANGED vars
    BY <2>4, <2>11 DEF vars, engine
  <2> HIDE DEF Goal
  <2> QED
    BY <2>5, <2>6, <2>7, <2>8, <2>9, <2>10, <2>11 DEF Next
<1> QED
  BY <1>1, <1>2 DEF UndisturbedInv

\* While nothing fails and scans take turns, no attempt is in the engine that
\* its attempt row does not say was submitted, or is about to: each job of a
\* chain finds the row as the scan that enqueued it left it, so the fence of
\* onSubmitted never refuses a send that has reached the engine.
THEOREM SendsAreRecorded == Spec => []NoSendUnrecorded
<1>1. Init => RetryTypes /\ RecordsInv /\ UndisturbedInv
  BY InitRetryTypes, InitRecordsInv, InitUndisturbedInv
<1>2. RetryTypes /\ RecordsInv /\ UndisturbedInv /\ [Next]_vars =>
        RetryTypes' /\ RecordsInv' /\ UndisturbedInv'
  BY NextRetryTypes, NextRecordsInv, NextUndisturbedInv
<1>3. UndisturbedInv => NoSendUnrecorded
  BY DEF UndisturbedInv, Undisturbed, SendsRecorded, NoSendUnrecorded
<1>4. QED
  BY <1>1, <1>2, <1>3, PTL DEF Spec

-----------------------------------------------------------------------------
(* What ends a chain, and what can take that back.                         *)

\* The only step that takes a chain's end back is a sender's UPDATE.
LEMMA OnlySendersReopen ==
  ASSUME RetryTypes, RecordsInv, [Next]_vars,
         NEW c \in Chains, status[c] \in Closed, status'[c] \notin Closed
  PROVE  \E w \in Workers : CommitSend(w) /\ Mine(w) = c /\ attempts[c] = fence[w]
<1>1. status'[c] # status[c]
  OBVIOUS
<1>2. ASSUME NEW s \in Submissions,
             ReportFailure(s) \/ ReportRejection(s) \/ ReportDelivery(s)
      PROVE  FALSE
  BY <1>1, <1>2 DEF ReportFailure, ReportRejection, ReportDelivery, rows
<1>3. ASSUME NEW x \in Scanners, Scan(x) PROVE FALSE
  <2>1. ASSUME NEW s \in Submissions, IngestReport(x, s) PROVE FALSE
    BY <1>1, <2>1 DEF IngestReport, OpenChain, ContinueChain, Continuable, Closed, RetryTypes
  <2>2. ASSUME NEW s \in Submissions, SettleChain(x, s) PROVE FALSE
    BY <2>2 DEF SettleChain, Closed, RetryTypes
  <2>3. ASSUME \/ Prepare(x) \/ Query(x) \/ IngestFails(x) \/ ReportsDone(x) \/ ReadResent(x)
               \/ AskEngine(x) \/ SettleDone(x) \/ RecordScan(x) \/ ScanLost(x)
        PROVE  FALSE
    BY <1>1, <2>3
    DEF Prepare, Query, IngestFails, ReportsDone, ReadResent, AskEngine, SettleDone, RecordScan,
        ScanLost, ScanAside, rows
  <2>4. ASSUME Ingest(x) PROVE FALSE
    BY <2>1, <2>4 DEF Ingest
  <2> QED
    BY <1>3, <2>2, <2>3, <2>4 DEF Scan
<1>4. ASSUME NEW w \in Workers,
             Dispatch(w) \/ Throw(w) \/ SendFails(w) \/ RecordLost(w) \/ Crash(w)
      PROVE  CommitSend(w) /\ Mine(w) = c /\ attempts[c] = fence[w]
  <2>1. ASSUME Claim(w) PROVE FALSE
    BY <1>1, <2>1 DEF Claim, Open, Closed, RetryTypes
  <2>2. ASSUME CommitSend(w) PROVE Mine(w) = c /\ attempts[c] = fence[w]
    BY <1>1, <2>2 DEF CommitSend, Resent, RetryTypes
  <2>3. ASSUME FinishChain(w) PROVE FALSE
    <3>1. verdict[w] \in Closed
      BY <2>3 DEF FinishChain, RecordsInv, CarriedTrue
    <3> QED
      BY <2>3, <3>1 DEF FinishChain, Terminate, RetryTypes
  <2>4. ASSUME \/ Load(w) \/ CheckEngine(w) \/ ChooseBind(w) \/ Send(w) \/ CheckFence(w)
               \/ RecordCharge(w) \/ Refuse(w) \/ Return(w) \/ Throw(w) \/ SendFails(w)
               \/ RecordLost(w) \/ Crash(w)
        PROVE  FALSE
    BY <1>1, <2>4
    DEF Load, CheckEngine, ChooseBind, Send, CheckFence, RecordCharge, Refuse, Return, Throw,
        SendFails, RecordLost, Crash, rows
  <2> QED
    BY <1>4, <2>1, <2>2, <2>3, <2>4 DEF Dispatch
<1>5. ASSUME NEW j \in DispatchJobs,
             Recover(j) \/ CancelJob(j) \/ \E w \in Workers : Take(j, w)
      PROVE  FALSE
  BY <1>1, <1>5 DEF Recover, CancelJob, Take, rows
<1>6. ASSUME UNCHANGED vars PROVE FALSE
  BY <1>1, <1>6 DEF vars, rows
<1> QED
  BY <1>2, <1>3, <1>4, <1>5, <1>6 DEF Next

\* A sender of an ended chain does not get past the check of its fence.
LEMMA EndedChainsStop ==
  ASSUME [Next]_vars, NEW c \in Chains, status[c] \in Closed,
         NEW w \in Workers, pc[w] = "commit", Mine(w) = c, RetryTypes
  PROVE  pc'[w] # "mark"
<1>1. ASSUME NEW v \in Workers, CheckFence(v) PROVE pc'[w] # "mark"
  BY <1>1 DEF CheckFence, Goes, Fenced, Closed, RetryTypes
<1>2. ASSUME NEW v \in Workers,
             \/ Load(v) \/ CheckEngine(v) \/ Claim(v) \/ ChooseBind(v) \/ Send(v)
             \/ CommitSend(v) \/ RecordCharge(v) \/ Refuse(v) \/ FinishChain(v)
      PROVE  pc'[w] # "mark"
  BY <1>2
  DEF Load, CheckEngine, Claim, ChooseBind, Send, CommitSend, RecordCharge, Refuse, FinishChain,
      Goes, Finish, RetryTypes
<1>3. ASSUME NEW v \in Workers, Return(v) \/ Throw(v) \/ SendFails(v) \/ RecordLost(v) \/ Crash(v)
      PROVE  pc'[w] # "mark"
  BY <1>3 DEF Return, Throw, SendFails, RecordLost, Crash, Forget, Finish, Goes, RetryTypes
<1>4. ASSUME \/ \E s \in Submissions : ReportFailure(s) \/ ReportRejection(s) \/ ReportDelivery(s)
             \/ \E x \in Scanners : Scan(x)
             \/ \E j \in DispatchJobs : Recover(j) \/ CancelJob(j)
             \/ UNCHANGED vars
      PROVE  pc'[w] # "mark"
  BY <1>4
  DEF ReportFailure, ReportRejection, ReportDelivery, Scan, Prepare, Query, Ingest, IngestFails,
      ReportsDone, ReadResent, AskEngine, SettleDone, RecordScan, ScanLost, SettleChain, ScanAside,
      Recover, CancelJob, dispatch, vars
<1>5. ASSUME NEW j \in DispatchJobs, NEW v \in Workers, Take(j, v) PROVE pc'[w] # "mark"
  BY <1>5 DEF Take, Goes, RetryTypes
<1> QED
  BY <1>1, <1>2, <1>3, <1>4, <1>5 DEF Next, Dispatch

\* A chain that finish(), settleResentChains or continueChain ended lets no
\* sender pass its fence, and is open again only to the sender of its last
\* claimed attempt that had passed it before the end was written; never so
\* while nothing has failed and scans take turns.
THEOREM ClosedChainsStay == Spec => ClosedStaysClosed
<1> DEFINE Kept ==
      \A c \in Chains : status[c] \in Closed =>
        /\ \A w \in Workers : pc[w] = "commit" /\ Mine(w) = c => pc'[w] # "mark"
        /\ status'[c] \notin Closed =>
             /\ faults > 0 \/ Cardinality(Scanners) # 1
             /\ EndedInSend(c) /\ status'[c] = "resent" /\ attempts'[c] = attempts[c]
<1>1. Init => RetryTypes /\ RecordsInv /\ UndisturbedInv
  BY InitRetryTypes, InitRecordsInv, InitUndisturbedInv
<1>2. RetryTypes /\ RecordsInv /\ UndisturbedInv /\ [Next]_vars =>
        RetryTypes' /\ RecordsInv' /\ UndisturbedInv'
  BY NextRetryTypes, NextRecordsInv, NextUndisturbedInv
<1>3. RetryTypes /\ RecordsInv /\ UndisturbedInv /\ [Next]_vars => [Kept]_vars
  <2> SUFFICES ASSUME RetryTypes, RecordsInv, UndisturbedInv, [Next]_vars,
                      NEW c \in Chains, status[c] \in Closed, status'[c] \notin Closed
               PROVE  /\ faults > 0 \/ Cardinality(Scanners) # 1
                      /\ EndedInSend(c) /\ status'[c] = "resent" /\ attempts'[c] = attempts[c]
    BY EndedChainsStop
  <2>1. PICK w \in Workers : CommitSend(w) /\ Mine(w) = c /\ attempts[c] = fence[w]
    BY OnlySendersReopen
  <2>2. /\ pc[w] = "mark" /\ attempts' = attempts
        /\ status' = [status EXCEPT ![c] = "resent"]
    BY <2>1 DEF CommitSend, Resent, Goes
  <2>3. EndedInSend(c) /\ status'[c] = "resent"
    BY <2>1, <2>2 DEF EndedInSend, Attempt, RetryTypes
  <2>4. ASSUME ~(faults > 0 \/ Cardinality(Scanners) # 1) PROVE FALSE
    <3>1. TurnsInv
      BY <2>4 DEF UndisturbedInv, Undisturbed, QueueTypes
    <3>2. Claimed(job[w]) /\ job[w][1] = c
      BY <2>1, <2>2, <3>1 DEF TurnsInv, Mine, ChainOf
    <3> QED
      BY <3>2 DEF Claimed, Closed
  <2> QED
    BY <2>2, <2>3, <2>4
<1>4. QED
  BY <1>1, <1>2, <1>3, PTL DEF Spec, ClosedStaysClosed

==============================================================================
