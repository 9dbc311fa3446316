------------------------------- MODULE SendPath -------------------------------
(***************************************************************************)
(* MessageSendService.send(), the one way a message leaves: duplicate      *)
(* control, the policy checks, the customer's quota and credit, the INSERT *)
(* into the engine's spool and the COMMIT that charges for it.             *)
(*                                                                         *)
(* The calls are those of one customer, from the console, the API,         *)
(* campaigns and releases, each in a transaction of its own on PostgreSQL  *)
(* at READ COMMITTED; the spool is another database, whose INSERT is       *)
(* committed at once.  A message costs one unit.                           *)
(***************************************************************************)
EXTENDS Naturals, FiniteSets

CONSTANTS
  Sends,          \* calls of send()
  NoSend,         \* NULL
  Keys, KeyOf,    \* KeyOf[s]: dedupeKey of s's subject
  QuotaLimit,     \* limit_count of the daily quota
  StartBalance,   \* the customer's balance
  MaxTopUps,      \* bound: credits an operator posts
  MaxDays,        \* bound: the last day
  MaxLapses,      \* bound: windows that lapse
  MaxSendFaults,  \* bound: statements and commits that are lost
  ShortSends      \* whether no transaction is open across midnight

ASSUME SendBounds ==
  /\ QuotaLimit \in Nat /\ StartBalance \in Nat /\ MaxTopUps \in Nat
  /\ MaxDays \in Nat /\ MaxLapses \in Nat /\ MaxSendFaults \in Nat
ASSUME SendActors ==
  NoSend \notin Sends /\ IsFiniteSet(Sends) /\ KeyOf \in [Sends -> Keys] /\ ShortSends \in BOOLEAN

VARIABLES
  sendPc,     \* where a call is
  keyRow,     \* the committed mt_dedupe_keys row: "none", "open" (not stamped), "stamped"
  keyHolder,  \* the open transaction that inserted the key's row
  quotaUsed, quotaDay, quotaHolder,  \* customer_quotas, the day of window_start, its row lock
  balance, balanceHolder,            \* customer_balances and its row lock
  today,
  beganOn,    \* now(): the day the call's transaction began
  checkedOn,  \* new Date(): the day consumeInClient took
  nextUsed, nextBalance,  \* what the transaction wrote and has yet to commit
  inSpool,    \* calls whose send_sms row exists
  charged,    \* calls whose transaction committed
  sendRefused, \* calls with a rejected decision
  torn,       \* history: rolled back after the spool took the message
  sentSince,  \* history: spooled for the key since its last window began
  sentOn,     \* history: messages charged to a day
  topUps, lapses, sendFaults

keyVars     == <<keyRow, keyHolder, sentSince, lapses>>
quotaVars   == <<quotaUsed, quotaDay, quotaHolder, nextUsed, checkedOn>>
balanceVars == <<balance, balanceHolder, nextBalance, topUps>>
outcomeVars == <<inSpool, charged, torn, sentOn>>
sendVars == <<sendPc, keyVars, quotaVars, balanceVars, outcomeVars,
              today, beganOn, sendRefused, sendFaults>>

Days == 0..MaxDays
SendSteps == {"new", "claim", "check", "lockQuota", "quota", "debit", "submit", "commit",
              "release", "reject", "sent", "failed"}

\* Types.
SendTypeOK ==
  /\ sendPc \in [Sends -> SendSteps]
  /\ keyRow \in [Keys -> {"none", "open", "stamped"}]
  /\ keyHolder \in [Keys -> Sends \cup {NoSend}]
  /\ quotaUsed \in Nat /\ quotaDay \in Days /\ quotaHolder \in Sends \cup {NoSend}
  /\ balance \in Nat /\ balanceHolder \in Sends \cup {NoSend}
  /\ today \in Days /\ beganOn \in [Sends -> Days] /\ checkedOn \in [Sends -> Days]
  /\ nextUsed \in [Sends -> Nat] /\ nextBalance \in [Sends -> Nat]
  /\ inSpool \in SUBSET Sends /\ charged \in SUBSET Sends
  /\ sendRefused \in SUBSET Sends /\ torn \in SUBSET Sends
  /\ sentSince \in [Keys -> SUBSET Sends]
  /\ sentOn \in [Days -> Nat]
  /\ topUps \in Nat /\ lapses \in Nat /\ sendFaults \in 0..MaxSendFaults

SendInit ==
  /\ sendPc = [s \in Sends |-> "new"]
  /\ keyRow = [k \in Keys |-> "none"] /\ keyHolder = [k \in Keys |-> NoSend]
  /\ quotaUsed = 0 /\ quotaDay = 0 /\ quotaHolder = NoSend
  /\ balance = StartBalance /\ balanceHolder = NoSend
  /\ today = 0
  /\ beganOn = [s \in Sends |-> 0] /\ checkedOn = [s \in Sends |-> 0]
  /\ nextUsed = [s \in Sends |-> 0] /\ nextBalance = [s \in Sends |-> 0]
  /\ inSpool = {} /\ charged = {} /\ sendRefused = {} /\ torn = {}
  /\ sentSince = [k \in Keys |-> {}] /\ sentOn = [d \in Days |-> 0]
  /\ topUps = 0 /\ lapses = 0 /\ sendFaults = 0

SendFault == sendFaults < MaxSendFaults /\ sendFaults' = sendFaults + 1

SendGoes(s, from, to) == sendPc[s] = from /\ sendPc' = [sendPc EXCEPT ![s] = to]

\* The transaction of s is open.
InTransaction(s) ==
  sendPc[s] \in {"claim", "check", "lockQuota", "quota", "debit", "submit", "commit"}

-----------------------------------------------------------------------------
(* Time and the operator.                                                  *)

Midnight ==
  /\ today < MaxDays /\ today' = today + 1
  /\ ShortSends => \A s \in Sends : ~InTransaction(s)
  /\ UNCHANGED <<sendPc, keyVars, quotaVars, balanceVars, outcomeVars, beganOn, sendRefused,
                 sendFaults>>

\* expires_at passes: the next claim's DELETE, or a sweep's, finds the row.
WindowLapses(k) ==
  /\ keyRow[k] # "none" /\ lapses < MaxLapses
  /\ keyRow' = [keyRow EXCEPT ![k] = "none"]
  /\ sentSince' = [sentSince EXCEPT ![k] = {}]
  /\ lapses' = lapses + 1
  /\ UNCHANGED <<sendPc, keyHolder, quotaVars, balanceVars, outcomeVars, today, beganOn,
                 sendRefused, sendFaults>>

\* Mutation: the balance is read without FOR UPDATE.
BalanceUnlocked == TRUE

\* currentBalance(..., true): SELECT ... FOR UPDATE waits for the holder.
BalanceFree == balanceHolder = NoSend

\* postTransaction: a credit.
TopUp ==
  /\ BalanceFree /\ topUps < MaxTopUps
  /\ balance' = balance + 1 /\ topUps' = topUps + 1
  /\ UNCHANGED <<sendPc, keyVars, quotaVars, balanceHolder, nextBalance, outcomeVars, today,
                 beganOn, sendRefused, sendFaults>>

-----------------------------------------------------------------------------
(* The end of a transaction.                                               *)

FreeIfMine(holder, s) == IF holder = s THEN NoSend ELSE holder

\* ROLLBACK, or COMMIT: s holds no lock any more.
FreeLocks(s) ==
  /\ keyHolder' = [k \in Keys |-> FreeIfMine(keyHolder[k], s)]
  /\ quotaHolder' = FreeIfMine(quotaHolder, s)
  /\ balanceHolder' = FreeIfMine(balanceHolder, s)
  /\ nextUsed' = [nextUsed EXCEPT ![s] = 0]
  /\ nextBalance' = [nextBalance EXCEPT ![s] = 0]
  /\ checkedOn' = [checkedOn EXCEPT ![s] = 0]
  /\ beganOn' = [beganOn EXCEPT ![s] = 0]

Rollback(s, from, to) ==
  /\ SendGoes(s, from, to)
  /\ FreeLocks(s)
  /\ UNCHANGED <<keyRow, lapses, quotaUsed, quotaDay, balance, topUps, charged, sentOn, today,
                 sendRefused>>

-----------------------------------------------------------------------------
(* send().                                                                 *)

\* What the steps before the COMMIT leave alone.
SendAside == UNCHANGED <<outcomeVars, sendRefused, today, topUps, lapses, sendFaults>>

\* BEGIN and the rate limit, which fails open; over it the call is refused
\* before it has a key.
BeginSend(s) ==
  /\ SendGoes(s, "new", "claim") \/ SendGoes(s, "new", "reject")
  /\ beganOn' = [beganOn EXCEPT ![s] = IF sendPc'[s] = "claim" THEN today ELSE 0]
  /\ UNCHANGED <<keyVars, quotaVars, balanceVars>> /\ SendAside

\* claimInClient: the INSERT waits for an open transaction that has the key;
\* after it commits, or when a live row is there, the call is a duplicate.
ClaimKey(s) ==
  /\ sendPc[s] = "claim" /\ keyHolder[KeyOf[s]] = NoSend
  /\ \/ /\ keyRow[KeyOf[s]] = "none"
        /\ SendGoes(s, "claim", "check")
        /\ keyHolder' = [keyHolder EXCEPT ![KeyOf[s]] = s]
        /\ UNCHANGED <<keyRow, sentSince, quotaVars, balanceVars, beganOn>> /\ SendAside
     \/ /\ keyRow[KeyOf[s]] # "none"
        /\ Rollback(s, "claim", "reject")
        /\ UNCHANGED <<sentSince, inSpool, torn, sendFaults>>

\* Blocklist, content filter, bind, routing rule, sender ID, route binding.
PolicyChecks(s) ==
  /\ SendGoes(s, "check", "lockQuota")
  /\ checkedOn' = [checkedOn EXCEPT ![s] = today]
  /\ UNCHANGED <<keyVars, quotaUsed, quotaDay, quotaHolder, nextUsed, balanceVars, beganOn>>
  /\ SendAside

PolicyRefuses(s) ==
  /\ Rollback(s, "check", "release")
  /\ UNCHANGED <<sentSince, inSpool, torn, sendFaults>>

\* consumeInClient: SELECT ... FOR UPDATE, after the day was read.
LockQuota(s) ==
  /\ quotaHolder = NoSend
  /\ SendGoes(s, "lockQuota", "quota")
  /\ quotaHolder' = s
  /\ UNCHANGED <<keyVars, quotaUsed, quotaDay, nextUsed, checkedOn, balanceVars, beganOn>>
  /\ SendAside

\* A window of another day starts over.
UsedBase(s) == IF quotaDay # checkedOn[s] THEN 0 ELSE quotaUsed

\* Mutation: one message past the cap.
ExceedsByMore(s) == UsedBase(s) > QuotaLimit

Exceeds(s) == UsedBase(s) + 1 > QuotaLimit

ConsumeQuota(s) ==
  /\ sendPc[s] = "quota"
  /\ \/ /\ ~Exceeds(s)
        /\ SendGoes(s, "quota", "debit")
        /\ nextUsed' = [nextUsed EXCEPT ![s] = UsedBase(s) + 1]
        /\ UNCHANGED <<keyVars, quotaUsed, quotaDay, quotaHolder, checkedOn, balanceVars, beganOn>>
        /\ SendAside
     \/ /\ Exceeds(s)
        /\ Rollback(s, "quota", "release")
        /\ UNCHANGED <<sentSince, inSpool, torn, sendFaults>>

\* The balance is looked at, without waiting; then postInClient debits it under
\* the row's lock.
Debit(s) ==
  /\ sendPc[s] = "debit"
  /\ \/ /\ BalanceFree /\ balance >= 1
        /\ SendGoes(s, "debit", "submit")
        /\ balanceHolder' = s
        /\ nextBalance' = [nextBalance EXCEPT ![s] = balance - 1]
        /\ UNCHANGED <<keyVars, quotaVars, balance, beganOn>> /\ SendAside
     \/ /\ balance < 1
        /\ Rollback(s, "debit", "release")
        /\ UNCHANGED <<sentSince, inSpool, torn, sendFaults>>

\* sqlbox.submit: the INSERT commits in the other database.
Submit(s) ==
  /\ SendGoes(s, "submit", "commit")
  /\ inSpool' = inSpool \cup {s}
  /\ sentSince' = [sentSince EXCEPT ![KeyOf[s]] = @ \cup {s}]
  /\ UNCHANGED <<keyRow, keyHolder, quotaVars, balanceVars, charged, torn, sentOn, beganOn,
                 today, sendRefused, lapses, sendFaults>>

\* The INSERT fails, or its answer is lost.
SubmitFails(s) ==
  /\ SendFault
  /\ Rollback(s, "submit", "release")
  /\ \/ UNCHANGED <<sentSince, inSpool, torn>>
     \/ /\ inSpool' = inSpool \cup {s} /\ torn' = torn \cup {s}
        /\ sentSince' = [sentSince EXCEPT ![KeyOf[s]] = @ \cup {s}]

\* The key is stamped with the message's id and the transaction commits.
Commit(s) ==
  /\ SendGoes(s, "commit", "sent")
  /\ FreeLocks(s)
  /\ keyRow' = [keyRow EXCEPT ![KeyOf[s]] = "stamped"]
  /\ quotaUsed' = nextUsed[s]
  /\ quotaDay' = IF quotaDay # checkedOn[s] THEN beganOn[s] ELSE quotaDay
  /\ balance' = nextBalance[s]
  /\ charged' = charged \cup {s}
  /\ sentOn' = [sentOn EXCEPT ![checkedOn[s]] = @ + 1]
  /\ UNCHANGED <<sentSince, lapses, topUps, inSpool, torn, today, sendRefused, sendFaults>>

\* A statement after the INSERT, or the COMMIT, is rejected.  A rejected stamp
\* is swallowed: the transaction is aborted, its COMMIT rolls back without an
\* error, and the call answers as if it had sent.
CommitFails(s) ==
  /\ SendFault
  /\ Rollback(s, "commit", "release") \/ Rollback(s, "commit", "sent")
  /\ torn' = torn \cup {s}
  /\ UNCHANGED <<sentSince, inSpool>>

\* Mutation: whoever has the key loses it.
ReleasableAny(k) == keyRow[k] # "none"

\* Only a key without first_sql_id.
Releasable(k) == keyRow[k] = "open"

\* releaseInClient, in a transaction of its own, after the rollback; errors
\* are swallowed.
Release(s) ==
  /\ SendGoes(s, "release", "reject")
  /\ keyRow' = IF Releasable(KeyOf[s]) THEN [keyRow EXCEPT ![KeyOf[s]] = "none"] ELSE keyRow
  /\ UNCHANGED <<keyHolder, sentSince, quotaVars, balanceVars, beganOn>> /\ SendAside

\* recordRejection: the refusal is recorded, or that is lost as well.
RecordRejection(s) ==
  /\ SendGoes(s, "reject", "failed")
  /\ \/ sendRefused' = sendRefused \cup {s} /\ UNCHANGED sendFaults
     \/ SendFault /\ UNCHANGED sendRefused
  /\ UNCHANGED <<keyVars, quotaVars, balanceVars, outcomeVars, today, beganOn>>

-----------------------------------------------------------------------------
SendStep(s) ==
  \/ BeginSend(s) \/ ClaimKey(s) \/ PolicyChecks(s) \/ PolicyRefuses(s) \/ LockQuota(s)
  \/ ConsumeQuota(s) \/ Debit(s) \/ Submit(s) \/ SubmitFails(s) \/ Commit(s) \/ CommitFails(s)
  \/ Release(s) \/ RecordRejection(s)

SendNext ==
  \/ Midnight \/ TopUp \/ (\E k \in Keys : WindowLapses(k)) \/ (\E s \in Sends : SendStep(s))

SendSpec == SendInit /\ [][SendNext]_sendVars

-----------------------------------------------------------------------------
(* Properties.                                                             *)

\* "one wins and the other is told it lost": of the calls with one key, one at
\* most is spooled in a window, whoever is refused, rolled back or released in
\* between; only a transaction lost after the spool took the message, whose
\* key is lost with it, lets another through.
OnePerWindow == \A k \in Keys : Cardinality(sentSince[k] \ torn) <= 1

\* "if the engine submission then fails, ... no quota was consumed and no debit
\* was posted", and conversely: the balance is what was posted less what was
\* sent, and a message is spooled without a charge only in the seam between
\* the two databases.
AccountsMatch ==
  /\ balance + Cardinality(charged) = StartBalance + topUps
  /\ charged \subseteq inSpool /\ charged \cap torn = {}
  /\ \A s \in inSpool : s \in charged \cup torn \/ sendPc[s] = "commit"

\* "rejects when the cap would be exceeded, and increments the counter
\* atomically under a row lock": no day's messages are more than its cap.
QuotaHolds == \A d \in Days : sentOn[d] <= QuotaLimit

\* send() implements SendService: whatever transactions overlap, wait, roll back
\* or lose their answer, a refused call has left nothing in the spool, a
\* message enters it alone in its key's window, each charge is one message's,
\* within the balance and the day's cap, and no outcome is ever revised.
Service == INSTANCE SendService
  WITH Cap <- QuotaLimit, taken <- inSpool, funds <- balance, count <- sentOn[today],
       refused <- {s \in Sends : sendPc[s] \in {"release", "reject", "failed"}} \ torn,
       window <- [k \in Keys |-> sentSince[k] \ torn]

ImplementsSendService == Service!Spec

===============================================================================
