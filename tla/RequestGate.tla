----------------------------- MODULE RequestGate -----------------------------
(***************************************************************************)
(* KamexRequestGate, the circuit breaker in front of the engine's admin    *)
(* port, and the adapter's calls that ask it, which overlap: the poller,   *)
(* the open consoles and the copilot share one gate.                       *)
(*                                                                         *)
(* Time is counted in ticks.  The engine may answer, refuse or time out at *)
(* any call.                                                               *)
(***************************************************************************)
EXTENDS Naturals

CONSTANTS
  Callers,     \* calls of coreDiagnostics and queueSnapshot that may overlap
  Threshold,   \* failures before the first window
  BaseWindow,  \* ticks of the first window
  MaxWindow,   \* ticks of the longest
  MaxExponent  \* the exponent's ceiling

VARIABLES
  failures,  \* consecutiveFailures, up to the one that makes the longest window
  window,    \* suppressedUntil - now(), 0 when it has passed
  gatePc,    \* "idle", waiting for the engine, or for /health after a failure
  probes     \* history: calls let through since the last window began, up to two

gateVars == <<failures, window, gatePc, probes>>

GateInit ==
  /\ failures = 0 /\ window = 0 /\ probes = 0
  /\ gatePc = [c \in Callers |-> "idle"]

GateTick == window > 0 /\ window' = window - 1 /\ UNCHANGED <<failures, gatePc, probes>>

GateGoes(c, from, to) == gatePc[c] = from /\ gatePc' = [gatePc EXCEPT ![c] = to]

AtMost(n, m) == IF n < m THEN n ELSE m

\* check(): a call that is not allowed returns at once.
Check(c) ==
  /\ failures < Threshold \/ window = 0
  /\ GateGoes(c, "idle", "fetch")
  /\ probes' = IF failures < Threshold THEN probes ELSE AtMost(probes + 1, 2)
  /\ UNCHANGED <<failures, window>>

\* The status came back: recordSuccess.
Succeed(c) ==
  /\ GateGoes(c, "fetch", "idle")
  /\ failures' = 0 /\ window' = 0 /\ probes' = 0

\* queueSnapshot: a payload that is not an object is neither.
Unrecorded(c) == GateGoes(c, "fetch", "idle") /\ UNCHANGED <<failures, window, probes>>

\* Refused, or no answer: classifyFailure asks /health first.
FetchFails(c) == GateGoes(c, "fetch", "classify") /\ UNCHANGED <<failures, window, probes>>

CountFailure == AtMost(failures + 1, Threshold + MaxExponent)

WindowFor(n) == AtMost(BaseWindow * 2^(n - Threshold), MaxWindow)

\* recordFailure, of a probe or of a call let through before the window.
RecordFailure(c) ==
  /\ GateGoes(c, "classify", "idle")
  /\ failures' = CountFailure
  /\ \/ failures' < Threshold /\ UNCHANGED <<window, probes>>
     \/ failures' >= Threshold /\ window' = WindowFor(failures') /\ probes' = 0

GateNext ==
  \/ GateTick
  \/ \E c \in Callers :
       Check(c) \/ Succeed(c) \/ Unrecorded(c) \/ FetchFails(c) \/ RecordFailure(c)

GateSpec == GateInit /\ [][GateNext]_gateVars

-----------------------------------------------------------------------------
(* Properties.                                                             *)

\* "exactly one probe is let through, and only its success resets": once the
\* threshold was reached, one call passes an expired window, and the next waits
\* until it was answered.
OneProbe == failures >= Threshold => probes <= 1

===============================================================================
