--------------------------- MODULE MCScheduledSend ---------------------------
(* Small instances of ScheduledSend for TLC.                               *)
EXTENDS ScheduledSend, TLC

CONSTANT Attempts  \* SCHEDULED_RELEASE_MAX_ATTEMPTS

MCMaxAttempts == [j \in Jobs |-> Attempts]

MCHandles == [w \in Workers |-> Jobs]

\* No action tells two holds or two workers apart.
Symmetry == Permutations(Jobs) \cup Permutations(Workers)

==============================================================================
