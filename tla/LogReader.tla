------------------------------ MODULE LogReader ------------------------------
(***************************************************************************)
(* What reading the engine's tables promises, with no sweeps, pages or     *)
(* transactions: the engine appends numbered rows and takes none back, a   *)
(* reader works through them in any order and as often as it likes, and    *)
(* the mark it keeps for the next reader moves forward over finished rows  *)
(* only.  A row at or below the mark is never looked at again.             *)
(***************************************************************************)
EXTENDS Naturals

VARIABLES
  last,  \* the newest row; the rows are 1..last
  done,  \* rows whose work is committed
  mark   \* the watermark

vars == <<last, done, mark>>

Init == last = 0 /\ done = {} /\ mark = 0

\* The engine records a row.
Append == last' = last + 1 /\ UNCHANGED <<done, mark>>

\* The work of row i is committed.
Process(i) == done' = done \cup {i} /\ UNCHANGED <<last, mark>>

\* Everything up to m is done, and the next reader starts there.
Advance(m) ==
  /\ m > mark
  /\ 1..m \subseteq done
  /\ mark' = m
  /\ UNCHANGED <<last, done>>

Next == Append \/ \E i \in 1..last : Process(i) \/ Advance(i)

Spec == Init /\ [][Next]_vars

=============================================================================
