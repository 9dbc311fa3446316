----------------------------- MODULE MCJobQueue -----------------------------
(* Small instances of JobQueue for TLC.                                    *)
EXTENDS JobQueue, TLC

CONSTANTS Attempts,  \* max_attempts of every job
          Laggard,   \* a replica still on the previous release ...
          NewType    \* ... which lacks the handler of this job's type

MCMaxAttempts == [j \in Jobs |-> Attempts]

\* During a rolling deploy one replica may lack the handler of a job type.
MCHandles == [w \in Workers |-> IF w = Laggard THEN Jobs \ {NewType} ELSE Jobs]

=============================================================================
