----------------------------- MODULE MCSendPath -----------------------------
(* A small instance of SendPath for TLC.                                   *)
EXTENDS SendPath

CONSTANTS Alone  \* the send whose message no other send repeats

MCKeyOf == [s \in Sends |-> s = Alone]

==============================================================================
