---------------------------- MODULE SendPathProofs ----------------------------
(***************************************************************************)
(* The send path for any number of calls, keys, days and faults.           *)
(*                                                                         *)
(* Each promise rests on a lock that a call holds until its transaction    *)
(* ends: the balance's row (BalanceInv), the key's uncommitted row         *)
(* (KeyInv) and the quota's row (QuotaInv).                                *)
(***************************************************************************)
EXTENDS SendPath, FiniteSetTheorems, TLAPS

-----------------------------------------------------------------------------
(* The balance.                                                            *)

\* The types that the balance's proof needs.
BalanceTypes ==
  /\ sendPc \in [Sends -> SendSteps]
  /\ balance \in Nat /\ balanceHolder \in Sends \cup {NoSend}
  /\ nextBalance \in [Sends -> Nat]
  /\ inSpool \in SUBSET Sends /\ charged \in SUBSET Sends /\ torn \in SUBSET Sends
  /\ topUps \in Nat

\* A call past the debit holds the balance's row and has written one less.
DebitHolds ==
  \A s \in Sends : sendPc[s] \in {"submit", "commit"} =>
    balanceHolder = s /\ nextBalance[s] + 1 = balance

\* Where a message in the spool, a charge and a torn send leave their call.
OutcomesPlaced ==
  /\ \A s \in charged : sendPc[s] = "sent" /\ s \in inSpool /\ s \notin torn
  /\ \A s \in torn : sendPc[s] \in {"release", "reject", "failed", "sent"} /\ s \in inSpool
  /\ \A s \in Sends : sendPc[s] = "commit" => s \in inSpool
  /\ \A s \in inSpool : s \in charged \/ s \in torn \/ sendPc[s] = "commit"

Posted == balance + Cardinality(charged) = StartBalance + topUps

BalanceInv == BalanceTypes /\ DebitHolds /\ OutcomesPlaced /\ Posted

\* Nothing has been sent.
LEMMA InitBalanceInv == SendInit => BalanceInv
<1> SUFFICES ASSUME SendInit PROVE BalanceInv
  OBVIOUS
<1>1. BalanceTypes /\ DebitHolds /\ OutcomesPlaced
  BY SendBounds DEF SendInit, BalanceTypes, DebitHolds, OutcomesPlaced, SendSteps
<1>2. Posted
  BY SendBounds, FS_EmptySet DEF SendInit, Posted
<1> QED
  BY <1>1, <1>2 DEF BalanceInv

\* A step that neither debits, spools, commits nor rolls back what was spooled.
LEMMA ElsewhereBalanceInv ==
  ASSUME BalanceInv, NEW s \in Sends, UNCHANGED <<balance, topUps, inSpool, charged, torn>>,
         NEW to \in SendSteps \ {"submit", "commit"},
         sendPc' = [sendPc EXCEPT ![s] = to],
         sendPc[s] \notin {"commit", "sent"},
         s \in torn => to \in {"release", "reject", "failed", "sent"},
         \/ UNCHANGED <<balanceHolder, nextBalance>>
         \/ /\ balanceHolder' = FreeIfMine(balanceHolder, s)
            /\ nextBalance' = [nextBalance EXCEPT ![s] = 0]
  PROVE  BalanceInv'
<1>1. BalanceTypes'
  BY DEF BalanceInv, BalanceTypes, FreeIfMine
<1>2. DebitHolds'
  BY DEF BalanceInv, BalanceTypes, DebitHolds, FreeIfMine
<1>3. OutcomesPlaced'
  BY DEF BalanceInv, BalanceTypes, OutcomesPlaced
<1>4. Posted'
  BY DEF BalanceInv, Posted
<1> QED
  BY <1>1, <1>2, <1>3, <1>4 DEF BalanceInv

\* Every step keeps the balance's invariant.
LEMMA NextBalanceInv ==
  ASSUME BalanceInv, [SendNext]_sendVars
  PROVE  BalanceInv'
<1> USE SendBounds, SendActors
<1>1. CASE TopUp
  <2>1. /\ UNCHANGED <<sendPc, balanceHolder, nextBalance, inSpool, charged, torn>>
        /\ balanceHolder = NoSend /\ balance' = balance + 1 /\ topUps' = topUps + 1
    BY <1>1 DEF TopUp, BalanceFree, outcomeVars
  <2>2. BalanceTypes' /\ OutcomesPlaced'
    BY <2>1 DEF BalanceInv, BalanceTypes, OutcomesPlaced
  <2>3. DebitHolds'
    BY <2>1 DEF BalanceInv, DebitHolds
  <2>4. IsFiniteSet(charged) /\ Cardinality(charged) \in Nat
    BY FS_Subset, FS_CardinalityType DEF BalanceInv, BalanceTypes
  <2>5. Posted'
    BY <2>1, <2>4 DEF BalanceInv, BalanceTypes, Posted
  <2> QED
    BY <2>2, <2>3, <2>5 DEF BalanceInv
<1>2. ASSUME NEW s \in Sends,
             \/ BeginSend(s) \/ ClaimKey(s) \/ PolicyChecks(s) \/ PolicyRefuses(s)
             \/ LockQuota(s) \/ ConsumeQuota(s) \/ Release(s) \/ RecordRejection(s)
      PROVE  BalanceInv'
  <2>1. UNCHANGED <<balance, topUps, inSpool, charged, torn>>
    BY <1>2
    DEF BeginSend, ClaimKey, PolicyChecks, PolicyRefuses, LockQuota, ConsumeQuota, Release,
        RecordRejection, Rollback, SendAside, balanceVars, outcomeVars
  <2>2. \/ UNCHANGED <<balanceHolder, nextBalance>>
        \/ /\ balanceHolder' = FreeIfMine(balanceHolder, s)
           /\ nextBalance' = [nextBalance EXCEPT ![s] = 0]
    BY <1>2
    DEF BeginSend, ClaimKey, PolicyChecks, PolicyRefuses, LockQuota, ConsumeQuota, Release,
        RecordRejection, Rollback, FreeLocks, balanceVars
  <2>3. /\ sendPc[s] \in {"new", "claim", "check", "lockQuota", "quota", "release", "reject"}
        /\ \E to \in {"claim", "reject", "check", "lockQuota", "release", "quota", "debit",
                     "failed"} :
             /\ sendPc' = [sendPc EXCEPT ![s] = to]
             /\ sendPc[s] \in {"release", "reject"} => to \in {"reject", "failed"}
    BY <1>2
    DEF BeginSend, ClaimKey, PolicyChecks, PolicyRefuses, LockQuota, ConsumeQuota, Release,
        RecordRejection, Rollback, SendGoes
  <2>4. s \in torn => sendPc[s] \in {"release", "reject"}
    BY <2>3 DEF BalanceInv, OutcomesPlaced
  <2> QED
    BY <2>1, <2>2, <2>3, <2>4, ElsewhereBalanceInv DEF SendSteps
<1>3. ASSUME NEW s \in Sends, Debit(s) PROVE BalanceInv'
  <2>1. UNCHANGED <<balance, topUps, inSpool, charged, torn>> /\ sendPc[s] = "debit"
    BY <1>3 DEF Debit, Rollback, SendAside, outcomeVars, SendGoes
  <2>2. CASE Rollback(s, "debit", "release")
    BY <2>1, <2>2, ElsewhereBalanceInv DEF Rollback, FreeLocks, SendGoes, SendSteps
  <2>3. CASE /\ BalanceFree /\ balance >= 1
             /\ SendGoes(s, "debit", "submit")
             /\ balanceHolder' = s
             /\ nextBalance' = [nextBalance EXCEPT ![s] = balance - 1]
    <3>1. BalanceTypes'
      BY <2>1, <2>3 DEF SendGoes, SendSteps, BalanceInv, BalanceTypes
    <3>2. DebitHolds'
      BY <2>1, <2>3 DEF SendGoes, BalanceFree, BalanceInv, BalanceTypes, DebitHolds
    <3>3. OutcomesPlaced'
      BY <2>1, <2>3 DEF SendGoes, BalanceInv, BalanceTypes, OutcomesPlaced
    <3> QED
      BY <2>1, <3>1, <3>2, <3>3 DEF BalanceInv, Posted
  <2> QED
    BY <1>3, <2>2, <2>3 DEF Debit
<1>4. ASSUME NEW s \in Sends, Submit(s) PROVE BalanceInv'
  <2>1. /\ UNCHANGED <<balance, balanceHolder, nextBalance, topUps, charged, torn>>
        /\ inSpool' = inSpool \cup {s}
        /\ sendPc[s] = "submit" /\ sendPc' = [sendPc EXCEPT ![s] = "commit"]
    BY <1>4 DEF Submit, SendGoes, balanceVars
  <2>2. BalanceTypes' /\ DebitHolds'
    BY <2>1 DEF BalanceInv, BalanceTypes, DebitHolds, SendSteps
  <2>3. OutcomesPlaced'
    BY <2>1 DEF BalanceInv, BalanceTypes, OutcomesPlaced
  <2> QED
    BY <2>1, <2>2, <2>3 DEF BalanceInv, Posted
<1>5. ASSUME NEW s \in Sends, SubmitFails(s) \/ CommitFails(s) PROVE BalanceInv'
  <2>1. /\ UNCHANGED <<balance, topUps, charged>>
        /\ balanceHolder' = FreeIfMine(balanceHolder, s)
        /\ nextBalance' = [nextBalance EXCEPT ![s] = 0]
        /\ sendPc[s] \in {"submit", "commit"}
        /\ \E to \in {"release", "sent"} : sendPc' = [sendPc EXCEPT ![s] = to]
    BY <1>5 DEF SubmitFails, CommitFails, Rollback, FreeLocks, SendGoes
  <2>2. \/ UNCHANGED <<inSpool, torn>> /\ sendPc[s] = "submit"
        \/ inSpool' = inSpool \cup {s} /\ torn' = torn \cup {s}
        \/ UNCHANGED inSpool /\ torn' = torn \cup {s} /\ sendPc[s] = "commit"
    BY <1>5 DEF SubmitFails, CommitFails, Rollback, SendGoes
  <2>3. BalanceTypes'
    BY <2>1, <2>2 DEF BalanceInv, BalanceTypes, FreeIfMine, SendSteps
  <2>4. DebitHolds'
    BY <2>1 DEF BalanceInv, BalanceTypes, DebitHolds, FreeIfMine
  <2>5. OutcomesPlaced'
    BY <2>1, <2>2 DEF BalanceInv, BalanceTypes, OutcomesPlaced
  <2> QED
    BY <2>1, <2>3, <2>4, <2>5 DEF BalanceInv, Posted
<1>6. ASSUME NEW s \in Sends, Commit(s) PROVE BalanceInv'
  <2>1. /\ UNCHANGED <<topUps, inSpool, torn>>
        /\ balanceHolder' = FreeIfMine(balanceHolder, s)
        /\ nextBalance' = [nextBalance EXCEPT ![s] = 0]
        /\ balance' = nextBalance[s] /\ charged' = charged \cup {s}
        /\ sendPc[s] = "commit" /\ sendPc' = [sendPc EXCEPT ![s] = "sent"]
    BY <1>6 DEF Commit, FreeLocks, SendGoes
  <2>2. s \notin charged /\ nextBalance[s] + 1 = balance /\ balanceHolder = s
    BY <2>1 DEF BalanceInv, OutcomesPlaced, DebitHolds
  <2>3. BalanceTypes'
    BY <2>1 DEF BalanceInv, BalanceTypes, FreeIfMine, SendSteps
  <2>4. DebitHolds'
    BY <2>1, <2>2 DEF BalanceInv, BalanceTypes, DebitHolds
  <2>5. OutcomesPlaced'
    BY <2>1 DEF BalanceInv, BalanceTypes, OutcomesPlaced
  <2>6. IsFiniteSet(charged) /\ Cardinality(charged) \in Nat
    BY FS_Subset, FS_CardinalityType DEF BalanceInv, BalanceTypes
  <2>7. Cardinality(charged') = Cardinality(charged) + 1
    BY <2>1, <2>2, <2>6, FS_AddElement
  <2>8. Posted'
    BY <2>1, <2>2, <2>6, <2>7 DEF BalanceInv, BalanceTypes, Posted
  <2> QED
    BY <2>3, <2>4, <2>5, <2>8 DEF BalanceInv
<1>7. CASE Midnight \/ (\E k \in Keys : WindowLapses(k)) \/ UNCHANGED sendVars
  <2>1. UNCHANGED <<sendPc, balance, balanceHolder, nextBalance, topUps, inSpool, charged, torn>>
    BY <1>7 DEF Midnight, WindowLapses, sendVars, balanceVars, outcomeVars
  <2> QED
    BY <2>1 DEF BalanceInv, BalanceTypes, DebitHolds, OutcomesPlaced, Posted
<1> HIDE DEF BalanceInv
<1> QED
  BY <1>1, <1>2, <1>3, <1>4, <1>5, <1>6, <1>7 DEF SendNext, SendStep

\* "if the engine submission then fails, ... no quota was consumed and no debit
\* was posted", and conversely: for any calls, top-ups and faults the balance
\* is what was posted less what was sent, and a message is spooled without a
\* charge only in the seam between the two databases.
THEOREM BalanceKept == SendSpec => []AccountsMatch
<1>1. BalanceInv => AccountsMatch
  BY DEF BalanceInv, BalanceTypes, OutcomesPlaced, Posted, AccountsMatch
<1>2. QED
  BY <1>1, InitBalanceInv, NextBalanceInv, PTL DEF SendSpec

-----------------------------------------------------------------------------
(* Duplicate control.                                                      *)

KeyTypes ==
  /\ sendPc \in [Sends -> SendSteps]
  /\ keyRow \in [Keys -> {"none", "open", "stamped"}]
  /\ keyHolder \in [Keys -> Sends \cup {NoSend}]
  /\ sentSince \in [Keys -> SUBSET Sends]
  /\ torn \in SUBSET Sends

HoldsKey == {"check", "lockQuota", "quota", "debit", "submit", "commit"}

\* A call past the claim has inserted its key's row, and no committed one is
\* there.
ClaimHolds ==
  \A s \in Sends : sendPc[s] \in HoldsKey =>
    keyHolder[KeyOf[s]] = s /\ keyRow[KeyOf[s]] = "none"

\* What counts against a key's window is about to commit or has stamped the
\* row.
SentHoldsKey ==
  \A k \in Keys : \A s \in sentSince[k] \ torn :
    /\ KeyOf[s] = k
    /\ sendPc[s] = "commit" \/ keyRow[k] = "stamped"

OneSent == \A k \in Keys : \A s, t \in sentSince[k] \ torn : s = t

KeyInv == KeyTypes /\ ClaimHolds /\ SentHoldsKey /\ OneSent

\* No key is claimed.
LEMMA InitKeyInv == SendInit => KeyInv
  BY SendActors
  DEF SendInit, KeyInv, KeyTypes, ClaimHolds, SentHoldsKey, OneSent, SendSteps, HoldsKey

\* A transaction that ends without its message in the window.
LEMMA RollbackKeyInv ==
  ASSUME KeyInv, NEW s \in Sends, NEW from, NEW to \in SendSteps \ HoldsKey,
         Rollback(s, from, to), from # "commit" \/ s \in torn',
         torn' \in {torn, torn \cup {s}},
         sentSince' = sentSince \/
           (s \in torn' /\ sentSince' = [sentSince EXCEPT ![KeyOf[s]] = @ \cup {s}])
  PROVE  KeyInv'
<1> USE SendActors
<1>1. /\ sendPc[s] = from /\ sendPc' = [sendPc EXCEPT ![s] = to]
      /\ keyRow' = keyRow /\ keyHolder' = [k \in Keys |-> FreeIfMine(keyHolder[k], s)]
  BY DEF Rollback, FreeLocks, SendGoes
<1>2. KeyTypes'
  BY <1>1 DEF KeyInv, KeyTypes, FreeIfMine
<1>3. ClaimHolds'
  BY <1>1 DEF KeyInv, KeyTypes, ClaimHolds, FreeIfMine
<1>4. \A k \in Keys : sentSince'[k] \ torn' \subseteq sentSince[k] \ torn
  BY DEF KeyInv, KeyTypes
<1>5. SentHoldsKey' /\ OneSent'
  BY <1>1, <1>4 DEF KeyInv, KeyTypes, SentHoldsKey, OneSent
<1> QED
  BY <1>2, <1>3, <1>5 DEF KeyInv

\* Every step keeps the keys' invariant.
LEMMA NextKeyInv ==
  ASSUME KeyInv, [SendNext]_sendVars
  PROVE  KeyInv'
<1> USE SendActors
<1>1. ASSUME NEW s \in Sends, BeginSend(s) PROVE KeyInv'
  BY <1>1
  DEF BeginSend, SendGoes, SendAside, keyVars, outcomeVars, KeyInv, KeyTypes, ClaimHolds,
      SentHoldsKey, OneSent, HoldsKey, SendSteps
<1>2. ASSUME NEW s \in Sends, ClaimKey(s) PROVE KeyInv'
  <2>1. CASE /\ keyHolder[KeyOf[s]] = NoSend /\ keyRow[KeyOf[s]] = "none"
             /\ SendGoes(s, "claim", "check")
             /\ keyHolder' = [keyHolder EXCEPT ![KeyOf[s]] = s]
             /\ UNCHANGED <<keyRow, sentSince, torn>>
    BY <2>1
    DEF SendGoes, KeyInv, KeyTypes, ClaimHolds, SentHoldsKey, OneSent, HoldsKey, SendSteps
  <2>2. CASE Rollback(s, "claim", "reject") /\ UNCHANGED <<sentSince, torn>>
    BY <2>2, RollbackKeyInv DEF HoldsKey, SendSteps
  <2> QED
    BY <1>2, <2>1, <2>2 DEF ClaimKey, SendAside, outcomeVars
<1>3. ASSUME NEW s \in Sends, NEW from, NEW to \in HoldsKey, from \in HoldsKey \ {"commit"},
             to # "commit", SendGoes(s, from, to), UNCHANGED <<keyVars, torn>>
      PROVE  KeyInv'
  BY <1>3
  DEF SendGoes, keyVars, KeyInv, KeyTypes, ClaimHolds, SentHoldsKey, OneSent, HoldsKey, SendSteps
<1>4. ASSUME NEW s \in Sends, PolicyChecks(s) \/ LockQuota(s) PROVE KeyInv'
  BY <1>3, <1>4 DEF PolicyChecks, LockQuota, SendAside, outcomeVars, HoldsKey
<1>5. ASSUME NEW s \in Sends, PolicyRefuses(s) PROVE KeyInv'
  BY <1>5, RollbackKeyInv DEF PolicyRefuses, HoldsKey, SendSteps
<1>6. ASSUME NEW s \in Sends, ConsumeQuota(s) PROVE KeyInv'
  <2>1. CASE SendGoes(s, "quota", "debit") /\ UNCHANGED <<keyVars, torn>>
    BY <1>3, <2>1 DEF HoldsKey
  <2>2. CASE Rollback(s, "quota", "release") /\ UNCHANGED <<sentSince, torn>>
    BY <2>2, RollbackKeyInv DEF HoldsKey, SendSteps
  <2> QED
    BY <1>6, <2>1, <2>2 DEF ConsumeQuota, SendAside, outcomeVars
<1>7. ASSUME NEW s \in Sends, Debit(s) PROVE KeyInv'
  <2>1. CASE SendGoes(s, "debit", "submit") /\ UNCHANGED <<keyVars, torn>>
    BY <1>3, <2>1 DEF HoldsKey
  <2>2. CASE Rollback(s, "debit", "release") /\ UNCHANGED <<sentSince, torn>>
    BY <2>2, RollbackKeyInv DEF HoldsKey, SendSteps
  <2> QED
    BY <1>7, <2>1, <2>2 DEF Debit, SendAside, outcomeVars
<1>8. ASSUME NEW s \in Sends, Submit(s) PROVE KeyInv'
  <2>1. /\ sendPc[s] = "submit" /\ sendPc' = [sendPc EXCEPT ![s] = "commit"]
        /\ UNCHANGED <<keyRow, keyHolder, torn>>
        /\ sentSince' = [sentSince EXCEPT ![KeyOf[s]] = @ \cup {s}]
    BY <1>8 DEF Submit, SendGoes
  <2>2. keyHolder[KeyOf[s]] = s /\ keyRow[KeyOf[s]] = "none"
    BY <2>1 DEF KeyInv, ClaimHolds, HoldsKey
  <2>3. KeyTypes' /\ ClaimHolds'
    BY <2>1 DEF KeyInv, KeyTypes, ClaimHolds, HoldsKey, SendSteps
  <2>4. \A t \in sentSince[KeyOf[s]] \ torn : t = s
    <3>1. TAKE t \in sentSince[KeyOf[s]] \ torn
    <3>2. t \in Sends /\ KeyOf[t] = KeyOf[s] /\ sendPc[t] = "commit"
      BY <2>2 DEF KeyInv, KeyTypes, SentHoldsKey
    <3> QED
      BY <2>2, <3>2 DEF KeyInv, ClaimHolds, HoldsKey
  <2>5. SentHoldsKey'
    BY <2>1 DEF KeyInv, KeyTypes, SentHoldsKey
  <2>6. OneSent'
    BY <2>1, <2>4 DEF KeyInv, KeyTypes, OneSent
  <2> QED
    BY <2>3, <2>5, <2>6 DEF KeyInv
<1>9. ASSUME NEW s \in Sends, SubmitFails(s) PROVE KeyInv'
  BY <1>9, RollbackKeyInv DEF SubmitFails, HoldsKey, SendSteps
<1>10. ASSUME NEW s \in Sends, CommitFails(s) PROVE KeyInv'
  BY <1>10, RollbackKeyInv DEF CommitFails, HoldsKey, SendSteps
<1>11. ASSUME NEW s \in Sends, Commit(s) PROVE KeyInv'
  <2>1. /\ sendPc[s] = "commit" /\ sendPc' = [sendPc EXCEPT ![s] = "sent"]
        /\ UNCHANGED <<sentSince, torn>>
        /\ keyRow' = [keyRow EXCEPT ![KeyOf[s]] = "stamped"]
        /\ keyHolder' = [k \in Keys |-> FreeIfMine(keyHolder[k], s)]
    BY <1>11 DEF Commit, FreeLocks, SendGoes
  <2>2. keyHolder[KeyOf[s]] = s
    BY <2>1 DEF KeyInv, ClaimHolds, HoldsKey
  <2>3. KeyTypes' /\ OneSent'
    BY <2>1 DEF KeyInv, KeyTypes, OneSent, FreeIfMine, SendSteps
  <2>4. ClaimHolds'
    BY <2>1, <2>2 DEF KeyInv, KeyTypes, ClaimHolds, HoldsKey, FreeIfMine
  <2>5. SentHoldsKey'
    BY <2>1 DEF KeyInv, KeyTypes, SentHoldsKey
  <2> QED
    BY <2>3, <2>4, <2>5 DEF KeyInv
<1>12. ASSUME NEW s \in Sends, Release(s) PROVE KeyInv'
  BY <1>12
  DEF Release, Releasable, SendGoes, SendAside, outcomeVars, KeyInv, KeyTypes, ClaimHolds,
      SentHoldsKey, OneSent, HoldsKey, SendSteps
<1>13. ASSUME NEW s \in Sends, RecordRejection(s) PROVE KeyInv'
  BY <1>13
  DEF RecordRejection, SendGoes, keyVars, outcomeVars, KeyInv, KeyTypes, ClaimHolds,
      SentHoldsKey, OneSent, HoldsKey, SendSteps
<1>14. ASSUME NEW k \in Keys, WindowLapses(k) PROVE KeyInv'
  BY <1>14
  DEF WindowLapses, outcomeVars, KeyInv, KeyTypes, ClaimHolds, SentHoldsKey, OneSent, HoldsKey
<1>15. CASE Midnight \/ TopUp \/ UNCHANGED sendVars
  BY <1>15
  DEF Midnight, TopUp, sendVars, keyVars, outcomeVars, KeyInv, KeyTypes, ClaimHolds,
      SentHoldsKey, OneSent
<1> HIDE DEF KeyInv
<1> QED
  BY <1>1, <1>2, <1>4, <1>5, <1>6, <1>7, <1>8, <1>9, <1>10, <1>11, <1>12, <1>13, <1>14, <1>15
  DEF SendNext, SendStep

\* "one wins and the other is told it lost": for any number of calls with one
\* key, whichever are refused, rolled back or released, at most one is spooled
\* in a window, a transaction lost after the spool took its message apart.
THEOREM OneWinsPerWindow == SendSpec => []OnePerWindow
<1>1. KeyInv => OnePerWindow
  <2> SUFFICES ASSUME KeyInv, NEW k \in Keys PROVE Cardinality(sentSince[k] \ torn) <= 1
    BY DEF OnePerWindow
  <2>1. CASE sentSince[k] \ torn = {}
    BY <2>1, FS_EmptySet
  <2>2. ASSUME NEW s \in sentSince[k] \ torn PROVE Cardinality(sentSince[k] \ torn) <= 1
    <3>1. sentSince[k] \ torn = {s}
      BY DEF KeyInv, OneSent
    <3>2. Cardinality({s}) = 1
      BY FS_Singleton
    <3> QED
      BY <3>1, <3>2
  <2> QED
    BY <2>1, <2>2
<1>2. QED
  BY <1>1, InitKeyInv, NextKeyInv, PTL DEF SendSpec

-----------------------------------------------------------------------------
(* The daily quota.                                                        *)

QuotaTypes ==
  /\ sendPc \in [Sends -> SendSteps]
  /\ quotaUsed \in Nat /\ quotaDay \in Days /\ quotaHolder \in Sends \cup {NoSend}
  /\ today \in Days /\ beganOn \in [Sends -> Days] /\ checkedOn \in [Sends -> Days]
  /\ nextUsed \in [Sends -> Nat]
  /\ sentOn \in [Days -> Nat]

\* A call that is open began today, and took today's date if it took one.
Dated ==
  \A s \in Sends :
    /\ InTransaction(s) => beganOn[s] = today
    /\ sendPc[s] \in {"lockQuota", "quota", "debit", "submit", "commit"} => checkedOn[s] = today

\* A call past the lock holds the quota's row, and has counted its message
\* into what was sent today.
QuotaLocked ==
  \A s \in Sends :
    /\ sendPc[s] \in {"quota", "debit", "submit", "commit"} => quotaHolder = s
    /\ sendPc[s] \in {"debit", "submit", "commit"} =>
         nextUsed[s] = sentOn[today] + 1 /\ nextUsed[s] <= QuotaLimit

\* The committed row counts its day's messages, and no later day has any.
WindowCounts ==
  /\ quotaDay <= today /\ quotaUsed = sentOn[quotaDay]
  /\ \A d \in Days : d > quotaDay => sentOn[d] = 0

QuotaInv == QuotaTypes /\ Dated /\ QuotaLocked /\ WindowCounts /\ QuotaHolds

\* A new window with nothing in it.
LEMMA InitQuotaInv == SendInit => QuotaInv
<1> SUFFICES ASSUME SendInit PROVE QuotaInv
  OBVIOUS
<1> USE SendBounds DEF SendInit
<1>1. QuotaTypes
  BY DEF QuotaTypes, SendSteps, Days
<1>2. Dated /\ QuotaLocked
  BY DEF Dated, InTransaction, QuotaLocked
<1>3. WindowCounts /\ QuotaHolds
  BY DEF WindowCounts, QuotaHolds, Days
<1> QED
  BY <1>1, <1>2, <1>3 DEF QuotaInv

\* A transaction that ends gives up what it held and wrote.
LEMMA RollbackQuotaInv ==
  ASSUME QuotaInv, NEW s \in Sends, NEW from,
         NEW to \in {"release", "reject", "sent"}, Rollback(s, from, to)
  PROVE  QuotaInv'
<1> USE SendBounds, SendActors
<1>1. /\ sendPc' = [sendPc EXCEPT ![s] = to]
      /\ UNCHANGED <<quotaUsed, quotaDay, today, sentOn>>
      /\ quotaHolder' = FreeIfMine(quotaHolder, s)
      /\ beganOn' = [beganOn EXCEPT ![s] = 0] /\ checkedOn' = [checkedOn EXCEPT ![s] = 0]
      /\ nextUsed' = [nextUsed EXCEPT ![s] = 0]
  BY DEF Rollback, FreeLocks, SendGoes
<1>2. QuotaTypes'
  BY <1>1, SMTT(30) DEF QuotaInv, QuotaTypes, FreeIfMine, SendSteps, Days
<1>3. Dated'
  BY <1>1 DEF QuotaInv, QuotaTypes, Dated, InTransaction
<1>4. QuotaLocked'
  BY <1>1 DEF QuotaInv, QuotaTypes, QuotaLocked, FreeIfMine
<1>5. WindowCounts' /\ QuotaHolds'
  BY <1>1 DEF QuotaInv, WindowCounts, QuotaHolds
<1> QED
  BY <1>2, <1>3, <1>4, <1>5 DEF QuotaInv

\* Every step keeps the quota's invariant while no transaction is open across
\* midnight.
LEMMA NextQuotaInv ==
  ASSUME ShortSends, QuotaInv, [SendNext]_sendVars
  PROVE  QuotaInv'
<1> USE SendBounds, SendActors
<1>1. CASE Midnight
  <2>1. /\ today' = today + 1 /\ today < MaxDays /\ \A s \in Sends : ~InTransaction(s)
        /\ UNCHANGED <<sendPc, quotaUsed, quotaDay, quotaHolder, nextUsed, checkedOn, beganOn,
                       sentOn>>
    BY <1>1 DEF Midnight, quotaVars, outcomeVars
  <2>2. QuotaTypes'
    BY <2>1 DEF QuotaInv, QuotaTypes, Days
  <2>3. Dated' /\ QuotaLocked'
    BY <2>1 DEF Dated, QuotaLocked, InTransaction
  <2>4. WindowCounts'
    BY <2>1 DEF QuotaInv, QuotaTypes, WindowCounts, Days
  <2>5. QuotaHolds'
    BY <2>1 DEF QuotaInv, QuotaHolds
  <2> QED
    BY <2>2, <2>3, <2>4, <2>5 DEF QuotaInv
<1>2. ASSUME UNCHANGED <<quotaUsed, quotaDay, quotaHolder, nextUsed, checkedOn, beganOn, today,
                         sentOn>>,
             NEW s \in Sends, NEW from, NEW to \in SendSteps, SendGoes(s, from, to),
             to \in {"claim", "check"} => InTransaction(s),
             to \notin {"lockQuota", "quota", "debit"},
             to \in {"submit", "commit"} => from \in {"debit", "submit"}
      PROVE  QuotaInv'
  <2>1. QuotaTypes' /\ WindowCounts' /\ QuotaHolds'
    BY <1>2 DEF QuotaInv, QuotaTypes, WindowCounts, QuotaHolds, SendGoes
  <2>2. Dated'
    BY <1>2 DEF QuotaInv, QuotaTypes, Dated, InTransaction, SendGoes
  <2>3. QuotaLocked'
    BY <1>2 DEF QuotaInv, QuotaTypes, QuotaLocked, SendGoes
  <2> QED
    BY <2>1, <2>2, <2>3 DEF QuotaInv
<1>3. ASSUME NEW s \in Sends, BeginSend(s) PROVE QuotaInv'
  <2>1. /\ UNCHANGED <<quotaUsed, quotaDay, quotaHolder, nextUsed, checkedOn, today, sentOn>>
        /\ \E to \in {"claim", "reject"} : sendPc' = [sendPc EXCEPT ![s] = to]
        /\ beganOn' = [beganOn EXCEPT ![s] = IF sendPc'[s] = "claim" THEN today ELSE 0]
    BY <1>3 DEF BeginSend, SendGoes, SendAside, quotaVars, outcomeVars
  <2>2. QuotaTypes'
    BY <2>1, SMTT(30) DEF QuotaInv, QuotaTypes, SendSteps, Days
  <2>3. Dated'
    BY <2>1 DEF QuotaInv, QuotaTypes, Dated, InTransaction
  <2>4. QuotaLocked'
    BY <2>1 DEF QuotaInv, QuotaTypes, QuotaLocked
  <2> QED
    BY <2>1, <2>2, <2>3, <2>4 DEF QuotaInv, WindowCounts, QuotaHolds
<1>4. ASSUME NEW s \in Sends, ClaimKey(s) PROVE QuotaInv'
  <2>1. CASE Rollback(s, "claim", "reject")
    BY <2>1, RollbackQuotaInv
  <2>2. CASE /\ SendGoes(s, "claim", "check")
             /\ UNCHANGED <<quotaVars, beganOn, today, sentOn>>
    BY <1>2, <2>2 DEF quotaVars, InTransaction, SendGoes, SendSteps
  <2> QED
    BY <1>4, <2>1, <2>2 DEF ClaimKey, SendAside, outcomeVars
<1>5. ASSUME NEW s \in Sends, PolicyChecks(s) PROVE QuotaInv'
  <2>1. /\ UNCHANGED <<quotaUsed, quotaDay, quotaHolder, nextUsed, beganOn, today, sentOn>>
        /\ sendPc[s] = "check" /\ sendPc' = [sendPc EXCEPT ![s] = "lockQuota"]
        /\ checkedOn' = [checkedOn EXCEPT ![s] = today]
    BY <1>5 DEF PolicyChecks, SendGoes, SendAside, outcomeVars
  <2>2. QuotaTypes' /\ QuotaLocked'
    BY <2>1 DEF QuotaInv, QuotaTypes, QuotaLocked, SendSteps
  <2>3. Dated'
    BY <2>1 DEF QuotaInv, QuotaTypes, Dated, InTransaction
  <2> QED
    BY <2>1, <2>2, <2>3 DEF QuotaInv, WindowCounts, QuotaHolds
<1>6. ASSUME NEW s \in Sends, LockQuota(s) PROVE QuotaInv'
  <2>1. /\ UNCHANGED <<quotaUsed, quotaDay, nextUsed, checkedOn, beganOn, today, sentOn>>
        /\ sendPc[s] = "lockQuota" /\ sendPc' = [sendPc EXCEPT ![s] = "quota"]
        /\ quotaHolder = NoSend /\ quotaHolder' = s
    BY <1>6 DEF LockQuota, SendGoes, SendAside, outcomeVars
  <2>2. QuotaTypes' /\ Dated'
    BY <2>1 DEF QuotaInv, QuotaTypes, Dated, InTransaction, SendSteps
  <2>3. QuotaLocked'
    BY <2>1 DEF QuotaInv, QuotaTypes, QuotaLocked
  <2> QED
    BY <2>1, <2>2, <2>3 DEF QuotaInv, WindowCounts, QuotaHolds
<1>7. ASSUME NEW s \in Sends, ConsumeQuota(s) PROVE QuotaInv'
  <2>1. CASE Rollback(s, "quota", "release")
    BY <2>1, RollbackQuotaInv
  <2>2. CASE /\ ~Exceeds(s) /\ SendGoes(s, "quota", "debit")
             /\ nextUsed' = [nextUsed EXCEPT ![s] = UsedBase(s) + 1]
             /\ UNCHANGED <<quotaUsed, quotaDay, quotaHolder, checkedOn, beganOn, today, sentOn>>
    <3>1. sendPc[s] = "quota" /\ sendPc' = [sendPc EXCEPT ![s] = "debit"]
      BY <2>2 DEF SendGoes
    <3>2. checkedOn[s] = today /\ quotaHolder = s
      BY <3>1 DEF QuotaInv, Dated, QuotaLocked
    <3>3. UsedBase(s) = sentOn[today] /\ UsedBase(s) \in Nat /\ UsedBase(s) + 1 <= QuotaLimit
      BY <2>2, <3>2 DEF UsedBase, Exceeds, QuotaInv, QuotaTypes, WindowCounts, Days
    <3>4. QuotaTypes' /\ Dated'
      BY <2>2, <3>1, <3>3 DEF QuotaInv, QuotaTypes, Dated, InTransaction, SendSteps
    <3>5. QuotaLocked'
      BY <2>2, <3>1, <3>2, <3>3 DEF QuotaInv, QuotaTypes, QuotaLocked
    <3> QED
      BY <2>2, <3>4, <3>5 DEF QuotaInv, WindowCounts, QuotaHolds
  <2> QED
    BY <1>7, <2>1, <2>2 DEF ConsumeQuota, SendAside, outcomeVars
<1>8. ASSUME NEW s \in Sends, Debit(s) PROVE QuotaInv'
  <2>1. CASE Rollback(s, "debit", "release")
    BY <2>1, RollbackQuotaInv
  <2>2. CASE SendGoes(s, "debit", "submit") /\ UNCHANGED <<quotaVars, beganOn, today, sentOn>>
    BY <1>2, <2>2 DEF quotaVars, SendSteps
  <2> QED
    BY <1>8, <2>1, <2>2 DEF Debit, SendAside, outcomeVars
<1>9. ASSUME NEW s \in Sends, Submit(s) PROVE QuotaInv'
  BY <1>2, <1>9 DEF Submit, quotaVars, SendSteps
<1>10. ASSUME NEW s \in Sends, PolicyRefuses(s) \/ SubmitFails(s) \/ CommitFails(s)
       PROVE  QuotaInv'
  BY <1>10, RollbackQuotaInv DEF PolicyRefuses, SubmitFails, CommitFails
<1>11. ASSUME NEW s \in Sends, Commit(s) PROVE QuotaInv'
  <2>1. /\ sendPc[s] = "commit" /\ sendPc' = [sendPc EXCEPT ![s] = "sent"]
        /\ quotaHolder' = FreeIfMine(quotaHolder, s)
        /\ beganOn' = [beganOn EXCEPT ![s] = 0] /\ checkedOn' = [checkedOn EXCEPT ![s] = 0]
        /\ nextUsed' = [nextUsed EXCEPT ![s] = 0]
        /\ quotaUsed' = nextUsed[s] /\ today' = today
        /\ quotaDay' = IF quotaDay # checkedOn[s] THEN beganOn[s] ELSE quotaDay
        /\ sentOn' = [sentOn EXCEPT ![checkedOn[s]] = @ + 1]
    BY <1>11 DEF Commit, FreeLocks, SendGoes
  <2>2. /\ checkedOn[s] = today /\ beganOn[s] = today /\ quotaHolder = s
        /\ nextUsed[s] = sentOn[today] + 1 /\ nextUsed[s] <= QuotaLimit
    BY <2>1 DEF QuotaInv, Dated, QuotaLocked, InTransaction
  <2>3. quotaDay' = today /\ sentOn' = [sentOn EXCEPT ![today] = sentOn[today] + 1]
    BY <2>1, <2>2
  <2>4. QuotaTypes'
    BY <2>1, <2>2, <2>3 DEF QuotaInv, QuotaTypes, FreeIfMine, SendSteps, Days
  <2>5. Dated'
    BY <2>1 DEF QuotaInv, QuotaTypes, Dated, InTransaction
  <2>6. \A t \in Sends : t # s => sendPc[t] \notin {"quota", "debit", "submit", "commit"}
    BY <2>2 DEF QuotaInv, QuotaLocked
  <2>7. QuotaLocked'
    BY <2>1, <2>6 DEF QuotaInv, QuotaTypes, QuotaLocked
  <2>8. WindowCounts'
    BY <2>1, <2>2, <2>3 DEF QuotaInv, QuotaTypes, WindowCounts, Days
  <2>9. QuotaHolds'
    BY <2>2, <2>3 DEF QuotaInv, QuotaTypes, QuotaHolds
  <2> QED
    BY <2>4, <2>5, <2>7, <2>8, <2>9 DEF QuotaInv
<1>12. ASSUME NEW s \in Sends, Release(s) \/ RecordRejection(s) PROVE QuotaInv'
  BY <1>2, <1>12 DEF Release, RecordRejection, SendAside, quotaVars, outcomeVars, SendSteps
<1>13. CASE TopUp \/ (\E k \in Keys : WindowLapses(k)) \/ UNCHANGED sendVars
  <2>1. UNCHANGED <<sendPc, quotaVars, beganOn, today, sentOn>>
    BY <1>13 DEF TopUp, WindowLapses, sendVars, outcomeVars
  <2> QED
    BY <2>1
    DEF quotaVars, QuotaInv, QuotaTypes, Dated, InTransaction, QuotaLocked, WindowCounts, QuotaHolds
<1> HIDE DEF QuotaInv
<1> QED
  BY <1>1, <1>3, <1>4, <1>5, <1>6, <1>7, <1>8, <1>9, <1>10, <1>11, <1>12, <1>13
  DEF SendNext, SendStep

\* "rejects when the cap would be exceeded, and increments the counter
\* atomically under a row lock": while no transaction is open across midnight,
\* consumeInClient lets no day's messages pass the cap, for any calls and days.
THEOREM CapHolds == ShortSends => (SendSpec => []QuotaHolds)
<1> SUFFICES ASSUME ShortSends PROVE SendSpec => []QuotaHolds
  OBVIOUS
<1>1. QuotaInv => QuotaHolds
  BY DEF QuotaInv
<1>2. QuotaInv /\ [SendNext]_sendVars => QuotaInv'
  BY NextQuotaInv
<1>3. QED
  BY <1>1, <1>2, InitQuotaInv, PTL DEF SendSpec

-----------------------------------------------------------------------------
(* What send() promises.                                                   *)

\* What holds a key's window is in the spool.
WindowSpooled ==
  sentSince \in [Keys -> SUBSET Sends] /\ \A k \in Keys : sentSince[k] \subseteq inSpool

LEMMA NextWindowSpooled ==
  ASSUME WindowSpooled, [SendNext]_sendVars
  PROVE  WindowSpooled'
<1> USE SendActors DEF WindowSpooled
<1>1. ASSUME NEW s \in Sends, Submit(s) \/ SubmitFails(s) PROVE WindowSpooled'
  BY <1>1 DEF Submit, SubmitFails
<1>2. ASSUME NEW s \in Sends, SendStep(s), ~(Submit(s) \/ SubmitFails(s)) PROVE WindowSpooled'
  <2>1. UNCHANGED <<sentSince, inSpool>>
    BY <1>2
    DEF SendStep, BeginSend, ClaimKey, PolicyChecks, PolicyRefuses, LockQuota, ConsumeQuota, Debit,
        Commit, CommitFails, Release, RecordRejection, SendAside, keyVars, outcomeVars
  <2> QED
    BY <2>1
<1>3. ASSUME NEW k \in Keys, WindowLapses(k) PROVE WindowSpooled'
  BY <1>3 DEF WindowLapses, outcomeVars
<1>4. CASE Midnight \/ TopUp \/ UNCHANGED sendVars
  BY <1>4 DEF Midnight, TopUp, sendVars, keyVars, outcomeVars
<1> QED
  BY <1>1, <1>2, <1>3, <1>4 DEF SendNext

ServiceInv == BalanceInv /\ KeyInv /\ QuotaInv /\ WindowSpooled

TurnedAway == {"release", "reject", "failed"}

\* What the service sees of a step that spools, charges and tears nothing.
Unseen == UNCHANGED <<inSpool, charged, torn, balance, sentOn, today, sentSince>>

\* A step inside the transaction, or after it, is none of the service's.
LEMMA InsideStep ==
  ASSUME ServiceInv, Unseen, NEW s \in Sends, NEW from, NEW to, SendGoes(s, from, to),
         from \in TurnedAway <=> to \in TurnedAway
  PROVE  UNCHANGED Service!vars
<1>1. \A t \in Sends : sendPc'[t] \in TurnedAway <=> sendPc[t] \in TurnedAway
  BY DEF SendGoes, ServiceInv, KeyInv, KeyTypes
<1> QED
  BY <1>1 DEF Unseen, Service!vars, TurnedAway

\* A transaction that ends before the engine has the message refuses the call.
LEMMA RefusalStep ==
  ASSUME ServiceInv, Unseen, NEW s \in Sends, NEW from, NEW to, SendGoes(s, from, to),
         from \in SendSteps \ (TurnedAway \cup {"sent", "commit"}), to \in TurnedAway
  PROVE  Service!Refuse(s)
<1>1. sendPc[s] = from /\ sendPc' = [sendPc EXCEPT ![s] = to] /\ DOMAIN sendPc = Sends
  BY DEF SendGoes, ServiceInv, KeyInv, KeyTypes
<1>2. s \notin inSpool /\ s \notin torn
  BY <1>1 DEF ServiceInv, BalanceInv, OutcomesPlaced, TurnedAway
<1>3. {t \in Sends : sendPc'[t] \in TurnedAway} \ torn'
        = ({t \in Sends : sendPc[t] \in TurnedAway} \ torn) \cup {s}
  BY <1>1, <1>2 DEF Unseen
<1>4. s \notin {t \in Sends : sendPc[t] \in TurnedAway}
  BY <1>1
<1> QED
  BY <1>2, <1>3, <1>4 DEF Unseen, Service!Refuse, Service!Undecided, TurnedAway

\* A message that the engine took and nobody pays for.
LEMMA TearStep ==
  ASSUME ServiceInv, NEW s \in Sends, NEW from \in {"submit", "commit"},
         NEW to \in {"release", "sent"}, Rollback(s, from, to),
         torn' = torn \cup {s}, inSpool' = inSpool \cup {s},
         sentSince' \in {sentSince, [sentSince EXCEPT ![KeyOf[s]] = @ \cup {s}]}
  PROVE  Service!Tear(s)
<1>1. /\ sendPc[s] = from /\ sendPc' = [sendPc EXCEPT ![s] = to] /\ DOMAIN sendPc = Sends
      /\ UNCHANGED <<balance, charged, sentOn, today>>
  BY DEF Rollback, SendGoes, ServiceInv, KeyInv, KeyTypes
<1>2. /\ s \notin torn /\ s \notin charged
      /\ s \in inSpool => from = "commit"
      /\ from = "commit" => s \in inSpool
  BY <1>1 DEF ServiceInv, BalanceInv, OutcomesPlaced
<1>3. {t \in Sends : sendPc'[t] \in TurnedAway} \ torn'
        = {t \in Sends : sendPc[t] \in TurnedAway} \ torn
  BY <1>1, <1>2 DEF TurnedAway
<1>4. [k \in Keys |-> sentSince'[k] \ torn'] = [k \in Keys |-> (sentSince[k] \ torn) \ {s}]
  BY DEF ServiceInv, WindowSpooled
<1>5. s \notin {t \in Sends : sendPc[t] \in TurnedAway}
  BY <1>1 DEF TurnedAway
<1> QED
  BY <1>1, <1>2, <1>3, <1>4, <1>5 DEF Service!Tear, Service!Undecided, TurnedAway

\* The INSERT into the spool: nothing holds the key's window.
LEMMA TakeStep ==
  ASSUME ServiceInv, NEW s \in Sends, Submit(s)
  PROVE  Service!Take(s)
<1> USE SendActors
<1>1. /\ sendPc[s] = "submit" /\ sendPc' = [sendPc EXCEPT ![s] = "commit"]
      /\ DOMAIN sendPc = Sends
      /\ UNCHANGED <<balance, charged, torn, sentOn, today>>
      /\ inSpool' = inSpool \cup {s}
      /\ sentSince' = [sentSince EXCEPT ![KeyOf[s]] = @ \cup {s}]
  BY DEF Submit, SendGoes, ServiceInv, KeyInv, KeyTypes, balanceVars
<1>2. s \notin torn /\ s \notin inSpool
  BY <1>1 DEF ServiceInv, BalanceInv, OutcomesPlaced
<1>3. keyHolder[KeyOf[s]] = s /\ keyRow[KeyOf[s]] = "none"
  BY <1>1 DEF ServiceInv, KeyInv, ClaimHolds, HoldsKey
<1>4. sentSince[KeyOf[s]] \ torn = {}
  <2> SUFFICES ASSUME NEW t \in sentSince[KeyOf[s]] \ torn PROVE FALSE
    OBVIOUS
  <2>1. t \in Sends /\ KeyOf[t] = KeyOf[s] /\ sendPc[t] = "commit"
    BY <1>3 DEF ServiceInv, KeyInv, KeyTypes, SentHoldsKey
  <2> QED
    BY <1>1, <1>3, <2>1 DEF ServiceInv, KeyInv, ClaimHolds, HoldsKey
<1>5. {t \in Sends : sendPc'[t] \in TurnedAway} = {t \in Sends : sendPc[t] \in TurnedAway}
  BY <1>1 DEF TurnedAway
<1>6. [k \in Keys |-> sentSince'[k] \ torn']
        = [[k \in Keys |-> sentSince[k] \ torn] EXCEPT ![KeyOf[s]] = {s}]
  <2>1. KeyOf[s] \in Keys /\ sentSince \in [Keys -> SUBSET Sends]
    BY <1>1, SendActors DEF ServiceInv, WindowSpooled
  <2>2. sentSince'[KeyOf[s]] \ torn = {s}
    BY <1>1, <1>2, <1>4, <2>1
  <2>3. \A k \in Keys : k # KeyOf[s] => sentSince'[k] = sentSince[k]
    BY <1>1, <2>1
  <2> QED
    BY <1>1, <2>1, <2>2, <2>3
<1>7. s \notin {t \in Sends : sendPc[t] \in TurnedAway}
  BY <1>1 DEF TurnedAway
<1> QED
  BY <1>1, <1>2, <1>4, <1>5, <1>6, <1>7 DEF Service!Take, Service!Undecided, TurnedAway

\* The COMMIT: the charge was covered when its locks were taken, and still is.
LEMMA ChargeStep ==
  ASSUME ServiceInv, NEW s \in Sends, Commit(s)
  PROVE  Service!Charge(s)
<1> USE SendActors
<1>1. /\ sendPc[s] = "commit" /\ sendPc' = [sendPc EXCEPT ![s] = "sent"]
      /\ DOMAIN sendPc = Sends
      /\ UNCHANGED <<inSpool, torn, sentSince, today>>
      /\ balance' = nextBalance[s] /\ charged' = charged \cup {s}
      /\ sentOn' = [sentOn EXCEPT ![checkedOn[s]] = @ + 1]
  BY DEF Commit, SendGoes, ServiceInv, KeyInv, KeyTypes
<1>2. s \in inSpool /\ s \notin charged /\ s \notin torn
  BY <1>1 DEF ServiceInv, BalanceInv, OutcomesPlaced
<1>3. balance >= 1 /\ balance' = balance - 1
  BY <1>1 DEF ServiceInv, BalanceInv, BalanceTypes, DebitHolds
<1>4. sentOn[today] < QuotaLimit /\ sentOn'[today'] = sentOn[today] + 1
  BY <1>1, SendBounds DEF ServiceInv, QuotaInv, QuotaTypes, Dated, QuotaLocked, Days
<1>5. {t \in Sends : sendPc'[t] \in TurnedAway} = {t \in Sends : sendPc[t] \in TurnedAway}
  BY <1>1 DEF TurnedAway
<1> QED
  BY <1>1, <1>2, <1>3, <1>4, <1>5 DEF Service!Charge, TurnedAway

\* Every step of send() and around it is a step of the service or none.
LEMMA NextServiceStep ==
  ASSUME ServiceInv, ShortSends, [SendNext]_sendVars
  PROVE  [Service!Next]_(Service!vars)
<1> USE SendActors, SendBounds
<1>1. ASSUME NEW s \in Sends,
             BeginSend(s) \/ ClaimKey(s) \/ PolicyChecks(s) \/ PolicyRefuses(s) \/ LockQuota(s)
               \/ ConsumeQuota(s) \/ Debit(s) \/ Release(s) \/ RecordRejection(s)
      PROVE  UNCHANGED Service!vars \/ Service!Refuse(s)
  <2>1. Unseen
    BY <1>1
    DEF BeginSend, ClaimKey, PolicyChecks, PolicyRefuses, LockQuota, ConsumeQuota, Debit, Release,
        RecordRejection, Rollback, SendAside, keyVars, balanceVars, outcomeVars, Unseen
  <2>2. PICK from \in SendSteps \ {"submit", "commit", "sent"}, to \in SendSteps :
          /\ SendGoes(s, from, to)
          /\ from \in TurnedAway => to \in TurnedAway
    BY <1>1
    DEF BeginSend, ClaimKey, PolicyChecks, PolicyRefuses, LockQuota, ConsumeQuota, Debit, Release,
        RecordRejection, Rollback, SendSteps, TurnedAway
  <2>3. CASE from \in TurnedAway <=> to \in TurnedAway
    BY <2>1, <2>2, <2>3, InsideStep
  <2>4. CASE from \notin TurnedAway /\ to \in TurnedAway
    BY <2>1, <2>2, <2>4, RefusalStep
  <2> QED
    BY <2>2, <2>3, <2>4
<1>2. ASSUME NEW s \in Sends, SubmitFails(s) PROVE Service!Refuse(s) \/ Service!Tear(s)
  <2>1. Rollback(s, "submit", "release") /\ SendGoes(s, "submit", "release")
    BY <1>2 DEF SubmitFails, Rollback
  <2>2. CASE UNCHANGED <<sentSince, inSpool, torn>>
    BY <2>1, <2>2, RefusalStep DEF Unseen, Rollback, SendSteps, TurnedAway
  <2>3. CASE /\ inSpool' = inSpool \cup {s} /\ torn' = torn \cup {s}
             /\ sentSince' = [sentSince EXCEPT ![KeyOf[s]] = @ \cup {s}]
    BY <2>1, <2>3, TearStep
  <2> QED
    BY <1>2, <2>2, <2>3 DEF SubmitFails
<1>3. ASSUME NEW s \in Sends, CommitFails(s) PROVE Service!Tear(s)
  <2>1. PICK to \in {"release", "sent"} : Rollback(s, "commit", to)
    BY <1>3 DEF CommitFails
  <2>2. s \in inSpool
    BY <2>1 DEF Rollback, SendGoes, ServiceInv, BalanceInv, OutcomesPlaced
  <2> QED
    BY <1>3, <2>1, <2>2, TearStep DEF CommitFails
<1>4. ASSUME NEW s \in Sends, SendStep(s) PROVE [Service!Next]_(Service!vars)
  BY <1>1, <1>2, <1>3, <1>4, TakeStep, ChargeStep DEF SendStep, Service!Next
<1>5. ASSUME NEW k \in Keys, WindowLapses(k) PROVE Service!Lapse(k)
  <2>1. /\ keyRow[k] # "none" /\ sentSince' = [sentSince EXCEPT ![k] = {}]
        /\ UNCHANGED <<sendPc, inSpool, charged, torn, balance, sentOn, today>>
    BY <1>5 DEF WindowLapses, balanceVars, outcomeVars
  <2>2. sentSince[k] \ torn \subseteq charged
    <3> SUFFICES ASSUME NEW t \in sentSince[k] \ torn PROVE t \in charged
      OBVIOUS
    <3>1. t \in Sends /\ t \in inSpool /\ KeyOf[t] = k
      BY DEF ServiceInv, WindowSpooled, KeyInv, SentHoldsKey
    <3>2. sendPc[t] # "commit"
      BY <2>1, <3>1 DEF ServiceInv, KeyInv, ClaimHolds, HoldsKey
    <3> QED
      BY <3>1, <3>2 DEF ServiceInv, BalanceInv, OutcomesPlaced
  <2>3. [q \in Keys |-> sentSince'[q] \ torn']
          = [[q \in Keys |-> sentSince[q] \ torn] EXCEPT ![k] = {}]
    BY <2>1 DEF ServiceInv, WindowSpooled
  <2> QED
    BY <2>1, <2>2, <2>3 DEF Service!Lapse
<1>6. CASE Midnight
  <2>1. /\ today' = today + 1 /\ today < MaxDays
        /\ UNCHANGED <<sendPc, inSpool, charged, torn, balance, sentOn, sentSince>>
    BY <1>6 DEF Midnight, keyVars, balanceVars, outcomeVars
  <2>2. sentOn'[today'] = 0
    BY <2>1 DEF ServiceInv, QuotaInv, QuotaTypes, WindowCounts, Days
  <2> QED
    BY <2>1, <2>2 DEF Service!Next, Service!NextDay
<1>7. CASE TopUp
  BY <1>7 DEF TopUp, keyVars, outcomeVars, Service!Next, Service!Credit
<1>8. CASE UNCHANGED sendVars
  BY <1>8 DEF sendVars, keyVars, balanceVars, outcomeVars, Service!vars
<1> QED
  BY <1>4, <1>5, <1>6, <1>7, <1>8 DEF SendNext, Service!Next

\* send() implements SendService while no transaction is open across midnight:
\* for any calls, keys, days and faults a call leaves nothing behind, or its
\* message alone in its key's window and a charge that funds and cap covered,
\* or its message alone, and no outcome is revised.
THEOREM SendsAreAtomic == ShortSends => (SendSpec => ImplementsSendService)
<1> SUFFICES ASSUME ShortSends PROVE SendSpec => ImplementsSendService
  OBVIOUS
<1>1. SendInit => ServiceInv
  BY InitBalanceInv, InitKeyInv, InitQuotaInv DEF ServiceInv, WindowSpooled, SendInit
<1>2. ServiceInv /\ [SendNext]_sendVars => ServiceInv'
  BY NextBalanceInv, NextKeyInv, NextQuotaInv, NextWindowSpooled DEF ServiceInv
<1>3. SendInit => Service!Init
  BY SendBounds DEF SendInit, Service!Init, Days
<1>4. ServiceInv /\ [SendNext]_sendVars => [Service!Next]_(Service!vars)
  BY NextServiceStep
<1>5. QED
  BY <1>1, <1>2, <1>3, <1>4, PTL DEF SendSpec, ImplementsSendService, Service!Spec

===============================================================================
