------------------------------- MODULE Campaign -------------------------------
(***************************************************************************)
(* One campaign: its bulk_send_jobs row, its bulk_send_recipients rows and *)
(* the calls of processJob() that the runner's tick, the create's inline   *)
(* kick and a release make, on any replica.                                *)
(*                                                                         *)
(* send() is SendPath's: it sends or it throws, and it may throw after the *)
(* spool took the message.                                                 *)
(***************************************************************************)
EXTENDS Naturals, FiniteSets

CONSTANTS
  Recipients,
  Runners,       \* calls of processJob that may overlap
  MaxCampFaults  \* bound: crashes, rejected transactions and lost answers

ASSUME CampBounds == MaxCampFaults \in Nat /\ IsFiniteSet(Recipients) /\ Recipients # {}

VARIABLES
  campStatus,  \* bulk_send_jobs.status, "none" before the INSERT
  recipient,   \* bulk_send_recipients.status
  runnerPc,    \* where a call of processJob is
  todo,        \* the claimed recipients it has yet to send to
  good, bad,   \* the outcomes it has yet to record
  sentTo,      \* history: messages spooled for a recipient
  unsure,      \* history: recipients whose send threw after the spool took it
  stranded,    \* history: a call that had claimed the campaign ended early
  campFaults

campVars == <<campStatus, recipient, runnerPc, todo, good, bad, sentTo, unsure, stranded,
              campFaults>>

CampInit ==
  /\ campStatus = "none"
  /\ recipient = [p \in Recipients |-> "pending"]
  /\ runnerPc = [x \in Runners |-> "idle"]
  /\ todo = [x \in Runners |-> {}]
  /\ good = [x \in Runners |-> {}] /\ bad = [x \in Runners |-> {}]
  /\ sentTo = [p \in Recipients |-> 0]
  /\ unsure = {} /\ stranded = FALSE /\ campFaults = 0

CampFault == campFaults < MaxCampFaults /\ campFaults' = campFaults + 1

RunnerGoes(x, from, to) == runnerPc[x] = from /\ runnerPc' = [runnerPc EXCEPT ![x] = to]

\* Everything but the row.
RowOnly ==
  UNCHANGED <<recipient, runnerPc, todo, good, bad, sentTo, unsure, stranded, campFaults>>

\* createJob: held until its instant, or queued at once.
CreateCampaign ==
  /\ campStatus = "none"
  /\ campStatus' \in {"queued", "scheduled"}
  /\ RowOnly

\* releaseBulk's transaction; its call of processJob is ClaimCampaign.
ReleaseCampaign == campStatus = "scheduled" /\ campStatus' = "queued" /\ RowOnly

\* cancel() of the campaign's hold.
CancelCampaign == campStatus = "scheduled" /\ campStatus' = "failed" /\ RowOnly

-----------------------------------------------------------------------------
(* processJob().                                                           *)

\* Mutation: a campaign that is being sent is claimed again.
DispatchableRunning == {"queued", "running"}

\* DISPATCHABLE_STATUSES
Dispatchable == {"queued"}

\* The advisory lock and the guarded UPDATE: one call wins, the others return
\* "skipped".
ClaimCampaign(x) ==
  /\ campStatus \in Dispatchable
  /\ RunnerGoes(x, "idle", "probe")
  /\ campStatus' = "running"
  /\ todo' = [todo EXCEPT ![x] = {p \in Recipients : recipient[p] = "pending"}]
  /\ UNCHANGED <<recipient, good, bad, sentTo, unsure, stranded, campFaults>>

\* What no step between the claim and finalise() touches.
CampAside == UNCHANGED <<campStatus, recipient, stranded>>

Probe(x) ==
  /\ \/ RunnerGoes(x, "probe", "send") /\ UNCHANGED <<todo, bad>>
     \/ /\ RunnerGoes(x, "probe", "finalise")
        /\ bad' = [bad EXCEPT ![x] = todo[x]]
        /\ todo' = [todo EXCEPT ![x] = {}]
  /\ UNCHANGED <<good, sentTo, unsure, campFaults>> /\ CampAside

\* send() returned or refused; the next recipient's turn.
SendOne(x, p) ==
  /\ runnerPc[x] = "send" /\ p \in todo[x]
  /\ todo' = [todo EXCEPT ![x] = @ \ {p}]
  /\ \/ /\ good' = [good EXCEPT ![x] = @ \cup {p}]
        /\ sentTo' = [sentTo EXCEPT ![p] = @ + 1]
        /\ UNCHANGED bad
     \/ bad' = [bad EXCEPT ![x] = @ \cup {p}] /\ UNCHANGED <<good, sentTo>>
  /\ UNCHANGED <<runnerPc, unsure, campFaults>> /\ CampAside

\* send() threw after the spool took the message.
SendUnsure(x, p) ==
  /\ CampFault
  /\ runnerPc[x] = "send" /\ p \in todo[x]
  /\ todo' = [todo EXCEPT ![x] = @ \ {p}]
  /\ bad' = [bad EXCEPT ![x] = @ \cup {p}]
  /\ sentTo' = [sentTo EXCEPT ![p] = @ + 1]
  /\ unsure' = unsure \cup {p}
  /\ UNCHANGED <<runnerPc, good>> /\ CampAside

SendsDone(x) ==
  /\ todo[x] = {}
  /\ RunnerGoes(x, "send", "finalise")
  /\ UNCHANGED <<todo, good, bad, sentTo, unsure, campFaults>> /\ CampAside

\* finalise()'s status, from this call's outcomes.
Verdict(x) ==
  IF bad[x] = {} THEN "completed" ELSE IF good[x] = {} THEN "failed" ELSE "partial"

Finalise(x) ==
  /\ RunnerGoes(x, "finalise", "idle")
  /\ campStatus' = Verdict(x)
  /\ recipient' = [p \in Recipients |-> IF p \in good[x] THEN "submitted"
                                        ELSE IF p \in bad[x] THEN "failed" ELSE recipient[p]]
  /\ good' = [good EXCEPT ![x] = {}] /\ bad' = [bad EXCEPT ![x] = {}]
  /\ UNCHANGED <<todo, sentTo, unsure, stranded, campFaults>>

\* The process ends, probe() throws or finalise()'s transaction is rejected:
\* the outcomes are gone and the row stays running.
RunnerLost(x) ==
  /\ CampFault
  /\ runnerPc[x] # "idle"
  /\ runnerPc' = [runnerPc EXCEPT ![x] = "idle"]
  /\ todo' = [todo EXCEPT ![x] = {}]
  /\ good' = [good EXCEPT ![x] = {}] /\ bad' = [bad EXCEPT ![x] = {}]
  /\ stranded' = TRUE
  /\ UNCHANGED <<campStatus, recipient, sentTo, unsure>>

-----------------------------------------------------------------------------
CampNext ==
  \/ CreateCampaign \/ ReleaseCampaign \/ CancelCampaign
  \/ \E x \in Runners :
       \/ ClaimCampaign(x) \/ Probe(x) \/ SendsDone(x) \/ Finalise(x) \/ RunnerLost(x)
       \/ \E p \in Recipients : SendOne(x, p) \/ SendUnsure(x, p)

CampSpec == CampInit /\ [][CampNext]_campVars

-----------------------------------------------------------------------------
(* Properties.                                                             *)

Recorded(v) == {p \in Recipients : recipient[p] = v}

\* "no recipient is submitted twice", whichever calls overlap and die; a
\* running campaign has a call that will finish it, unless that call died; and
\* the record of a finished one is what happened: a submitted recipient was
\* sent to, a failed one was not unless its send's answer was lost.
CampaignHonest ==
  /\ \A p \in Recipients : sentTo[p] <= 1
  /\ campStatus = "running" => stranded \/ \E x \in Runners : runnerPc[x] # "idle"
  /\ \A p \in Recorded("submitted") : sentTo[p] = 1
  /\ \A p \in Recorded("failed") : sentTo[p] = 0 \/ p \in unsure
  /\ campStatus = "completed" => Recorded("submitted") = Recipients
  /\ campStatus \in {"partial", "failed"} /\ Recorded("pending") # Recipients =>
       (Recorded("submitted") = {} <=> campStatus = "failed")

===============================================================================
