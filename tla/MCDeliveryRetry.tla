-------------------------- MODULE MCDeliveryRetry --------------------------
(* Small instances of DeliveryRetry for TLC.                               *)
EXTENDS DeliveryRetry, TLC

\* No action tells two workers or two scans apart.
Symmetry == Permutations(Workers) \cup Permutations(Scanners)

=============================================================================
