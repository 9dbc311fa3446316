----------------------------- MODULE SendService -----------------------------
(***************************************************************************)
(* What send() promises whoever calls it, with no transactions, locks or   *)
(* clocks.  A call is refused and leaves nothing behind, or the engine     *)
(* takes its message and the customer is charged for it.  In between the   *)
(* call may be torn: the engine has the message and nobody is charged.     *)
(* A charge is covered by the customer's funds and by the day's cap, and   *)
(* of the messages with one key the engine takes one in a window.          *)
(***************************************************************************)
EXTENDS Naturals

CONSTANTS Sends, Keys, KeyOf, Cap

VARIABLES
  taken,    \* calls whose message the engine has
  charged,
  torn,     \* taken, and never charged
  refused,
  funds,
  count,    \* charges of this day
  window    \* for each key, whose message holds its window

vars == <<taken, charged, torn, refused, funds, count, window>>

Init ==
  /\ taken = {} /\ charged = {} /\ torn = {} /\ refused = {}
  /\ funds \in Nat /\ count = 0
  /\ window = [k \in Keys |-> {}]

Undecided(s) == s \notin taken \cup refused

Refuse(s) ==
  /\ Undecided(s)
  /\ refused' = refused \cup {s}
  /\ UNCHANGED <<taken, charged, torn, funds, count, window>>

\* The engine takes the message: the only one with its key.
Take(s) ==
  /\ Undecided(s) /\ window[KeyOf[s]] = {}
  /\ taken' = taken \cup {s}
  /\ window' = [window EXCEPT ![KeyOf[s]] = {s}]
  /\ UNCHANGED <<charged, torn, refused, funds, count>>

Charge(s) ==
  /\ s \in taken \ (charged \cup torn)
  /\ funds >= 1 /\ funds' = funds - 1
  /\ count < Cap /\ count' = count + 1
  /\ charged' = charged \cup {s}
  /\ UNCHANGED <<taken, torn, refused, window>>

\* The message is on its way, and the call's other effects are undone.
Tear(s) ==
  /\ Undecided(s) \/ s \in taken \ (charged \cup torn)
  /\ taken' = taken \cup {s} /\ torn' = torn \cup {s}
  /\ window' = [k \in Keys |-> window[k] \ {s}]
  /\ UNCHANGED <<charged, refused, funds, count>>

Credit == funds' = funds + 1 /\ UNCHANGED <<taken, charged, torn, refused, count, window>>

NextDay == count' = 0 /\ UNCHANGED <<taken, charged, torn, refused, funds, window>>

\* A window ends, and never under a call that has yet to be charged.
Lapse(k) ==
  /\ window[k] \subseteq charged
  /\ window' = [window EXCEPT ![k] = {}]
  /\ UNCHANGED <<taken, charged, torn, refused, funds, count>>

Next ==
  \/ \E s \in Sends : Refuse(s) \/ Take(s) \/ Charge(s) \/ Tear(s)
  \/ Credit \/ NextDay
  \/ \E k \in Keys : Lapse(k)

Spec == Init /\ [][Next]_vars

==============================================================================
