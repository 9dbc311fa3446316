---------------------------- MODULE CampaignProofs ----------------------------
(***************************************************************************)
(* A campaign, for any number of recipients, runners and faults.           *)
(*                                                                         *)
(* The inductive invariant is CampInv: what a claimed campaign's one call  *)
(* holds.  The recipients split into those to do, those sent to and those  *)
(* that failed, and no row says anything yet.                              *)
(***************************************************************************)
EXTENDS Campaign, TLAPS

CampTypes ==
  /\ campStatus \in {"none", "scheduled", "queued", "running", "completed", "partial", "failed"}
  /\ recipient \in [Recipients -> {"pending", "submitted", "failed"}]
  /\ runnerPc \in [Runners -> {"idle", "probe", "send", "finalise"}]
  /\ todo \in [Runners -> SUBSET Recipients]
  /\ good \in [Runners -> SUBSET Recipients] /\ bad \in [Runners -> SUBSET Recipients]
  /\ sentTo \in [Recipients -> Nat]
  /\ unsure \in SUBSET Recipients /\ stranded \in BOOLEAN

\* Until the claimed campaign is finished no recipient's row is written.
NothingWritten ==
  campStatus \in {"none", "scheduled", "queued", "running"} =>
    \A p \in Recipients : recipient[p] = "pending"

\* Before the claim nothing was sent.
NothingSent ==
  campStatus \in {"none", "scheduled", "queued"} => \A p \in Recipients : sentTo[p] = 0

\* A call at work has the campaign's claim, alone, and has accounted for every
\* recipient.
RunnerHolds ==
  \A x \in Runners :
    runnerPc[x] # "idle" =>
      /\ campStatus = "running"
      /\ \A y \in Runners : runnerPc[y] # "idle" => y = x
      /\ \A p \in Recipients : p \in todo[x] \/ p \in good[x] \/ p \in bad[x]
      /\ \A p \in todo[x] : sentTo[p] = 0 /\ p \notin good[x] /\ p \notin bad[x]
      /\ \A p \in good[x] : sentTo[p] = 1 /\ p \notin bad[x]
      /\ \A p \in bad[x] : sentTo[p] = 0 \/ (sentTo[p] = 1 /\ p \in unsure)
      /\ runnerPc[x] = "finalise" => todo[x] = {}
      /\ runnerPc[x] = "probe" => good[x] = {} /\ bad[x] = {}

\* An idle call has no outcomes.
IdleHoldsNothing ==
  \A x \in Runners : runnerPc[x] = "idle" => todo[x] = {} /\ good[x] = {} /\ bad[x] = {}

CampInv ==
  /\ CampTypes /\ NothingWritten /\ NothingSent /\ RunnerHolds /\ IdleHoldsNothing
  /\ CampaignHonest

\* Nothing has been created.
LEMMA InitCampInv == CampInit => CampInv
<1> SUFFICES ASSUME CampInit PROVE CampInv
  OBVIOUS
<1>1. CampTypes
  BY DEF CampInit, CampTypes
<1>2. NothingWritten /\ NothingSent /\ RunnerHolds /\ IdleHoldsNothing
  BY DEF CampInit, NothingWritten, NothingSent, RunnerHolds, IdleHoldsNothing
<1>3. Recorded("submitted") = {} /\ Recorded("failed") = {}
  BY DEF CampInit, Recorded
<1>4. CampaignHonest
  BY <1>3 DEF CampInit, CampaignHonest
<1> QED
  BY <1>1, <1>2, <1>4 DEF CampInv

\* After a step that leaves every recipient's row unwritten, the record is
\* honest if nobody was sent to twice and a running campaign has its call.
LEMMA HonestUnwritten ==
  ASSUME \A p \in Recipients : recipient'[p] = "pending",
         campStatus' # "completed",
         \A p \in Recipients : sentTo'[p] <= 1,
         campStatus' = "running" => stranded' \/ \E x \in Runners : runnerPc'[x] # "idle"
  PROVE  CampaignHonest'
<1>1. Recorded("submitted")' = {} /\ Recorded("failed")' = {} /\ Recorded("pending")' = Recipients
  BY DEF Recorded
<1> QED
  BY <1>1 DEF CampaignHonest

\* createJob, releaseBulk and cancel() write the campaign's row alone.
LEMMA RowStepCampInv ==
  ASSUME CampInv, CreateCampaign \/ ReleaseCampaign \/ CancelCampaign
  PROVE  CampInv'
<1>1. /\ UNCHANGED <<recipient, runnerPc, todo, good, bad, sentTo, unsure, stranded>>
      /\ campStatus \in {"none", "scheduled"}
      /\ campStatus' \in {"queued", "scheduled", "failed"}
  BY DEF CreateCampaign, ReleaseCampaign, CancelCampaign, RowOnly
<1>2. \A p \in Recipients : recipient[p] = "pending" /\ sentTo[p] = 0
  BY <1>1 DEF CampInv, NothingWritten, NothingSent
<1>3. CampTypes' /\ NothingWritten' /\ NothingSent' /\ IdleHoldsNothing'
  BY <1>1, <1>2 DEF CampInv, CampTypes, NothingWritten, NothingSent, IdleHoldsNothing
<1>4. RunnerHolds'
  BY <1>1 DEF CampInv, RunnerHolds
<1>5. CampaignHonest'
  BY <1>1, <1>2, HonestUnwritten
<1> QED
  BY <1>3, <1>4, <1>5 DEF CampInv

\* The claim: the one call that wins takes every recipient.
LEMMA ClaimCampInv ==
  ASSUME CampInv, NEW x \in Runners, ClaimCampaign(x)
  PROVE  CampInv'
<1>1. /\ UNCHANGED <<recipient, good, bad, sentTo, unsure, stranded>>
      /\ campStatus = "queued" /\ campStatus' = "running"
      /\ runnerPc[x] = "idle" /\ runnerPc' = [runnerPc EXCEPT ![x] = "probe"]
  BY DEF ClaimCampaign, Dispatchable, RunnerGoes
<1>2. \A p \in Recipients : recipient[p] = "pending" /\ sentTo[p] = 0
  BY <1>1 DEF CampInv, NothingWritten, NothingSent
<1>3. todo' = [todo EXCEPT ![x] = Recipients]
  BY <1>2 DEF ClaimCampaign
<1>4. CampTypes' /\ NothingWritten' /\ NothingSent' /\ IdleHoldsNothing'
  BY <1>1, <1>2, <1>3 DEF CampInv, CampTypes, NothingWritten, NothingSent, IdleHoldsNothing
<1>5. \A y \in Runners : runnerPc[y] = "idle"
  BY <1>1 DEF CampInv, RunnerHolds
<1>6. good[x] = {} /\ bad[x] = {}
  BY <1>1 DEF CampInv, IdleHoldsNothing
<1>7. RunnerHolds'
  BY <1>1, <1>2, <1>3, <1>5, <1>6 DEF RunnerHolds, CampInv, CampTypes
<1>8. runnerPc'[x] # "idle"
  BY <1>1 DEF CampInv, CampTypes
<1>9. CampaignHonest'
  BY <1>1, <1>2, <1>8, HonestUnwritten
<1> QED
  BY <1>4, <1>7, <1>9 DEF CampInv

\* A step of the call that holds the claim, up to finalise(), which sorts its
\* recipients into sent and failed.
LEMMA RunnerCampInv ==
  ASSUME CampInv, NEW x \in Runners, runnerPc[x] # "idle",
         UNCHANGED <<campStatus, recipient, stranded>>,
         runnerPc' \in [Runners -> {"idle", "probe", "send", "finalise"}],
         runnerPc'[x] # "idle", \A y \in Runners : y # x => runnerPc'[y] = runnerPc[y],
         CampTypes',
         \A y \in Runners : y # x => todo'[y] = todo[y] /\ good'[y] = good[y] /\ bad'[y] = bad[y],
         \A p \in Recipients : p \in todo'[x] \/ p \in good'[x] \/ p \in bad'[x],
         \A p \in todo'[x] : sentTo'[p] = 0 /\ p \notin good'[x] /\ p \notin bad'[x],
         \A p \in good'[x] : sentTo'[p] = 1 /\ p \notin bad'[x],
         \A p \in bad'[x] : sentTo'[p] = 0 \/ (sentTo'[p] = 1 /\ p \in unsure'),
         runnerPc'[x] = "finalise" => todo'[x] = {},
         runnerPc'[x] = "probe" => good'[x] = {} /\ bad'[x] = {}
  PROVE  CampInv'
<1>1. campStatus = "running" /\ \A y \in Runners : y # x => runnerPc[y] = "idle"
  BY DEF CampInv, RunnerHolds
<1>2. RunnerHolds' /\ IdleHoldsNothing'
  BY <1>1 DEF CampInv, RunnerHolds, IdleHoldsNothing
<1>3. NothingWritten' /\ NothingSent'
  BY <1>1 DEF CampInv, NothingWritten, NothingSent
<1>4. \A p \in Recipients : recipient'[p] = "pending" /\ sentTo'[p] <= 1
  BY <1>1 DEF CampInv, NothingWritten
<1>5. CampaignHonest'
  BY <1>1, <1>4, HonestUnwritten
<1> QED
  BY <1>2, <1>3, <1>5 DEF CampInv

\* finalise(): the rows say what the call's outcomes say, and the status is
\* drawn from them.
LEMMA FinaliseCampInv ==
  ASSUME CampInv, NEW x \in Runners, Finalise(x)
  PROVE  CampInv'
<1>1. /\ runnerPc[x] = "finalise" /\ runnerPc' = [runnerPc EXCEPT ![x] = "idle"]
      /\ UNCHANGED <<todo, sentTo, unsure, stranded>>
      /\ good' = [good EXCEPT ![x] = {}] /\ bad' = [bad EXCEPT ![x] = {}]
      /\ campStatus' = Verdict(x)
  BY DEF Finalise, RunnerGoes
<1>2. /\ campStatus = "running" /\ todo[x] = {}
      /\ \A y \in Runners : y # x => runnerPc[y] = "idle"
      /\ \A p \in Recipients : p \in good[x] \/ p \in bad[x]
      /\ \A p \in good[x] : sentTo[p] = 1 /\ p \notin bad[x]
      /\ \A p \in bad[x] : sentTo[p] = 0 \/ (sentTo[p] = 1 /\ p \in unsure)
      /\ good[x] \subseteq Recipients /\ bad[x] \subseteq Recipients
  BY <1>1 DEF CampInv, RunnerHolds, CampTypes
<1>3. recipient' = [p \in Recipients |-> IF p \in good[x] THEN "submitted" ELSE "failed"]
  BY <1>2 DEF Finalise
<1>4. /\ Recorded("submitted")' = good[x]
      /\ Recorded("failed")' = bad[x]
      /\ Recorded("pending")' = {}
  BY <1>2, <1>3 DEF Recorded
<1>5. campStatus' \in {"completed", "partial", "failed"}
  BY <1>1 DEF Verdict
<1>6. CampTypes'
  BY <1>1, <1>3, <1>5 DEF CampInv, CampTypes
<1>7. NothingWritten' /\ NothingSent' /\ IdleHoldsNothing'
  BY <1>1, <1>2, <1>5 DEF NothingWritten, NothingSent, IdleHoldsNothing, CampInv, CampTypes
<1>8. RunnerHolds'
  BY <1>1, <1>2 DEF RunnerHolds, CampInv, CampTypes
<1>9. CampaignHonest'
  <2>1. \A p \in Recipients : sentTo'[p] <= 1
    BY <1>1, <1>2
  <2>2. /\ \A p \in Recorded("submitted")' : sentTo'[p] = 1
        /\ \A p \in Recorded("failed")' : sentTo'[p] = 0 \/ p \in unsure'
    BY <1>1, <1>2, <1>4
  <2>3. campStatus' = "completed" => Recorded("submitted")' = Recipients
    BY <1>1, <1>2, <1>4 DEF Verdict
  <2>4. campStatus' \in {"partial", "failed"} =>
          (Recorded("submitted")' = {} <=> campStatus' = "failed")
    BY <1>1, <1>2, <1>4 DEF Verdict
  <2> QED
    BY <1>5, <2>1, <2>2, <2>3, <2>4 DEF CampaignHonest
<1> QED
  BY <1>6, <1>7, <1>8, <1>9 DEF CampInv

\* Every step of a campaign keeps the invariant.
LEMMA NextCampInv ==
  ASSUME CampInv, [CampNext]_campVars
  PROVE  CampInv'
<1>1. CASE CreateCampaign \/ ReleaseCampaign \/ CancelCampaign
  BY <1>1, RowStepCampInv
<1>2. ASSUME NEW x \in Runners, ClaimCampaign(x) PROVE CampInv'
  BY <1>2, ClaimCampInv
<1>3. ASSUME NEW x \in Runners, Probe(x) PROVE CampInv'
  <2>1. /\ runnerPc[x] = "probe"
        /\ UNCHANGED <<campStatus, recipient, stranded, good, sentTo, unsure>>
    BY <1>3 DEF Probe, CampAside, RunnerGoes
  <2>2. /\ good[x] = {} /\ bad[x] = {} /\ todo[x] = Recipients
        /\ \A p \in Recipients : sentTo[p] = 0
    <3>1. runnerPc[x] # "idle" /\ good[x] = {} /\ bad[x] = {} /\ todo[x] \subseteq Recipients
      BY <2>1 DEF CampInv, RunnerHolds, CampTypes
    <3>2. \A p \in Recipients : p \in todo[x]
      BY <3>1 DEF CampInv, RunnerHolds
    <3>3. \A p \in todo[x] : sentTo[p] = 0
      BY <3>1 DEF CampInv, RunnerHolds
    <3> QED
      BY <3>1, <3>2, <3>3
  <2>3. CASE runnerPc' = [runnerPc EXCEPT ![x] = "send"] /\ UNCHANGED <<todo, bad>>
    <3>1. CampTypes'
      BY <2>1, <2>3 DEF CampInv, CampTypes
    <3> QED
      BY <2>1, <2>2, <2>3, <3>1, RunnerCampInv DEF CampInv, CampTypes, RunnerHolds
  <2>4. CASE /\ runnerPc' = [runnerPc EXCEPT ![x] = "finalise"]
             /\ bad' = [bad EXCEPT ![x] = todo[x]] /\ todo' = [todo EXCEPT ![x] = {}]
    <3>1. CampTypes'
      BY <2>1, <2>4 DEF CampInv, CampTypes
    <3> QED
      BY <2>1, <2>2, <2>4, <3>1, RunnerCampInv DEF CampInv, CampTypes, RunnerHolds
  <2> QED
    BY <1>3, <2>3, <2>4 DEF Probe, RunnerGoes
<1>4. ASSUME NEW x \in Runners, NEW p \in Recipients, SendOne(x, p) PROVE CampInv'
  <2>1. /\ runnerPc[x] = "send" /\ p \in todo[x]
        /\ UNCHANGED <<campStatus, recipient, stranded, runnerPc, unsure>>
        /\ todo' = [todo EXCEPT ![x] = @ \ {p}]
    BY <1>4 DEF SendOne, CampAside
  <2>2. CASE /\ good' = [good EXCEPT ![x] = @ \cup {p}]
             /\ sentTo' = [sentTo EXCEPT ![p] = @ + 1] /\ UNCHANGED bad
    <3>1. CampTypes'
      BY <2>1, <2>2 DEF CampInv, CampTypes
    <3>2. sentTo[p] = 0 /\ p \notin good[x] /\ p \notin bad[x]
      BY <2>1 DEF CampInv, RunnerHolds
    <3> QED
      BY <2>1, <2>2, <3>1, <3>2, RunnerCampInv DEF CampInv, CampTypes, RunnerHolds
  <2>3. CASE bad' = [bad EXCEPT ![x] = @ \cup {p}] /\ UNCHANGED <<good, sentTo>>
    <3>1. CampTypes'
      BY <2>1, <2>3 DEF CampInv, CampTypes
    <3>2. sentTo[p] = 0 /\ p \notin good[x] /\ p \notin bad[x]
      BY <2>1 DEF CampInv, RunnerHolds
    <3> QED
      BY <2>1, <2>3, <3>1, <3>2, RunnerCampInv DEF CampInv, CampTypes, RunnerHolds
  <2> QED
    BY <1>4, <2>2, <2>3 DEF SendOne
<1>5. ASSUME NEW x \in Runners, NEW p \in Recipients, SendUnsure(x, p) PROVE CampInv'
  <2>1. /\ runnerPc[x] = "send" /\ p \in todo[x]
        /\ UNCHANGED <<campStatus, recipient, stranded, runnerPc, good>>
        /\ todo' = [todo EXCEPT ![x] = @ \ {p}]
        /\ bad' = [bad EXCEPT ![x] = @ \cup {p}]
        /\ sentTo' = [sentTo EXCEPT ![p] = @ + 1] /\ unsure' = unsure \cup {p}
    BY <1>5 DEF SendUnsure, CampAside
  <2>2. CampTypes'
    BY <2>1 DEF CampInv, CampTypes
  <2>3. sentTo[p] = 0 /\ p \notin good[x] /\ p \notin bad[x]
    BY <2>1 DEF CampInv, RunnerHolds
  <2> QED
    BY <2>1, <2>2, <2>3, RunnerCampInv DEF CampInv, CampTypes, RunnerHolds
<1>6. ASSUME NEW x \in Runners, SendsDone(x) PROVE CampInv'
  <2>1. /\ runnerPc[x] = "send" /\ todo[x] = {}
        /\ runnerPc' = [runnerPc EXCEPT ![x] = "finalise"]
        /\ UNCHANGED <<campStatus, recipient, stranded, todo, good, bad, sentTo, unsure>>
    BY <1>6 DEF SendsDone, RunnerGoes, CampAside
  <2>2. CampTypes'
    BY <2>1 DEF CampInv, CampTypes
  <2> QED
    BY <2>1, <2>2, RunnerCampInv DEF CampInv, CampTypes, RunnerHolds
<1>7. ASSUME NEW x \in Runners, Finalise(x) PROVE CampInv'
  BY <1>7, FinaliseCampInv
<1>8. ASSUME NEW x \in Runners, RunnerLost(x) PROVE CampInv'
  <2>1. /\ runnerPc[x] # "idle" /\ runnerPc' = [runnerPc EXCEPT ![x] = "idle"]
        /\ todo' = [todo EXCEPT ![x] = {}]
        /\ good' = [good EXCEPT ![x] = {}] /\ bad' = [bad EXCEPT ![x] = {}]
        /\ stranded' = TRUE /\ UNCHANGED <<campStatus, recipient, sentTo, unsure>>
    BY <1>8 DEF RunnerLost
  <2>2. /\ campStatus = "running" /\ \A y \in Runners : y # x => runnerPc[y] = "idle"
    BY <2>1 DEF CampInv, RunnerHolds
  <2>3. \A p \in Recipients : recipient[p] = "pending" /\ sentTo[p] <= 1
    BY <2>2 DEF CampInv, NothingWritten, CampaignHonest
  <2>4. CampTypes' /\ NothingWritten' /\ NothingSent' /\ IdleHoldsNothing'
    BY <2>1, <2>2, <2>3 DEF CampInv, CampTypes, NothingWritten, NothingSent, IdleHoldsNothing
  <2>5. RunnerHolds'
    BY <2>1, <2>2 DEF CampInv, CampTypes, RunnerHolds
  <2>6. stranded'
    BY <2>1
  <2>7. CampaignHonest'
    BY <2>1, <2>2, <2>3, <2>6, HonestUnwritten
  <2> QED
    BY <2>4, <2>5, <2>7 DEF CampInv
<1>9. CASE UNCHANGED campVars
  BY <1>9
  DEF campVars, CampInv, CampTypes, NothingWritten, NothingSent, RunnerHolds, IdleHoldsNothing,
      CampaignHonest, Recorded
<1> QED
  BY <1>1, <1>2, <1>3, <1>4, <1>5, <1>6, <1>7, <1>8, <1>9 DEF CampNext

\* "no recipient is submitted twice" by any number of overlapping and dying
\* calls of processJob, and a finished campaign's rows and status are what
\* happened.
THEOREM CampaignsHonest == CampSpec => []CampaignHonest
<1>1. CampInv => CampaignHonest
  BY DEF CampInv
<1>2. QED
  BY <1>1, InitCampInv, NextCampInv, PTL DEF CampSpec

===============================================================================
