----------------------------- MODULE JobService -----------------------------
(***************************************************************************)
(* What the job queue promises its callers, with no rows, heartbeats,      *)
(* locks or clocks: a submitted job is executed by at most one worker at a *)
(* time and at most Limit[j] times, an execution that ends without a       *)
(* result gives the job back or buries it, and a job that is over stays    *)
(* over even when the worker it was taken from is still busy with it.      *)
(***************************************************************************)
EXTENDS Naturals

CONSTANTS Jobs, Workers, Nobody, Limit

VARIABLES
  phase,     \* "absent", "waiting", "taken" or "over"
  executor,  \* the worker inside the job's handler, or Nobody
  runs       \* executions begun

vars == <<phase, executor, runs>>

Init ==
  /\ phase = [j \in Jobs |-> "absent"]
  /\ executor = [j \in Jobs |-> Nobody]
  /\ runs = [j \in Jobs |-> 0]

Submit(j) ==
  /\ phase[j] = "absent"
  /\ phase' = [phase EXCEPT ![j] = "waiting"]
  /\ UNCHANGED <<executor, runs>>

\* A worker starts executing: nobody else is, and an execution is left.
Take(j, w) ==
  /\ phase[j] = "waiting"
  /\ executor[j] = Nobody
  /\ runs[j] < Limit[j]
  /\ phase' = [phase EXCEPT ![j] = "taken"]
  /\ executor' = [executor EXCEPT ![j] = w]
  /\ runs' = [runs EXCEPT ![j] = @ + 1]

\* The executor reports an outcome: done or buried, or another try if one is
\* left.
Settle(j) ==
  /\ phase[j] = "taken"
  /\ executor[j] # Nobody
  /\ \/ phase' = [phase EXCEPT ![j] = "over"]
     \/ runs[j] < Limit[j] /\ phase' = [phase EXCEPT ![j] = "waiting"]
  /\ executor' = [executor EXCEPT ![j] = Nobody]
  /\ UNCHANGED runs

\* The executor is gone without an outcome on record: it died, could not
\* write, or the job was withdrawn under it.
Lose(j) ==
  /\ executor[j] # Nobody
  /\ phase[j] \in {"taken", "over"}
  /\ executor' = [executor EXCEPT ![j] = Nobody]
  /\ UNCHANGED <<phase, runs>>

\* Every job of S whose executor is gone is recovered.
Recover(S) ==
  /\ \A j \in S : phase[j] = "taken" /\ executor[j] = Nobody
  /\ phase' = [j \in Jobs |->
       IF j \notin S THEN phase[j]
       ELSE IF runs[j] < Limit[j] THEN "waiting" ELSE "over"]
  /\ UNCHANGED <<executor, runs>>

Withdraw(j) ==
  /\ phase[j] \in {"waiting", "taken"}
  /\ phase' = [phase EXCEPT ![j] = "over"]
  /\ UNCHANGED <<executor, runs>>

Next ==
  \/ \E j \in Jobs :
       \/ Submit(j) \/ Settle(j) \/ Lose(j) \/ Withdraw(j)
       \/ \E w \in Workers : Take(j, w)
  \/ \E S \in SUBSET Jobs : Recover(S)

Spec == Init /\ [][Next]_vars

=============================================================================
