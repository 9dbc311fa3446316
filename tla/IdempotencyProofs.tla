------------------------- MODULE IdempotencyProofs -------------------------
(***************************************************************************)
(* For any number of requests, prompt ones keep an Idempotency-Key's       *)
(* promise.  The inductive invariant is KeyInv: a live request owns the    *)
(* record, so begin() can neither insert nor reclaim beside it, and a      *)
(* completed record has no live request that could overwrite it.           *)
(***************************************************************************)
EXTENDS Idempotency, TLAPS

\* A new key satisfies the invariant: nothing has been inserted or answered.
LEMMA InitKeyInv == KeyInit => KeyInv
  BY StaleAssumption, RequestsAssumption
  DEF KeyInit, KeyInv, KeyTypeOK, CompletingIsDone, LiveOwnsRecord, EffectsAccounted,
      AnswersStored, Live

\* Every step of intercept(), every fault and every tick of a prompt system
\* keeps the invariant.
LEMMA NextKeyInv ==
  ASSUME Prompt, KeyInv, [KeyNext]_recordVars
  PROVE  KeyInv'
<1> USE StaleAssumption, RequestsAssumption
    DEF KeyInv, KeyTypeOK, CompletingIsDone, LiveOwnsRecord, EffectsAccounted, AnswersStored, Live,
       record, history
<1>1. CASE Tick
  BY <1>1 DEF Tick, RequestsInTime
<1>2. ASSUME NEW r \in Requests, FindNothing(r) PROVE KeyInv'
  BY <1>2 DEF FindNothing, Moves
<1>3. ASSUME NEW r \in Requests, Insert(r) PROVE KeyInv'
  BY <1>3 DEF Insert, InsertFree, Moves
<1>4. ASSUME NEW r \in Requests, RefuseOtherBody(r) PROVE KeyInv'
  BY <1>4 DEF RefuseOtherBody, Moves
<1>5. ASSUME NEW r \in Requests, Replay(r) PROVE KeyInv'
  BY <1>5 DEF Replay, SameRequest, Moves
<1>6. ASSUME NEW r \in Requests, Reclaim(r) PROVE KeyInv'
  BY <1>6 DEF Reclaim, Reclaimable, SameRequest, Moves
<1>7. ASSUME NEW r \in Requests, RefuseInFlight(r) PROVE KeyInv'
  BY <1>7 DEF RefuseInFlight, Moves
<1>8. ASSUME NEW r \in Requests, HandlerReturns(r) PROVE KeyInv'
  BY <1>8 DEF HandlerReturns, Moves
<1>9. ASSUME NEW r \in Requests, HandlerThrows(r) PROVE KeyInv'
  BY <1>9 DEF HandlerThrows, Moves
<1>10. ASSUME NEW r \in Requests, Complete(r) PROVE KeyInv'
  BY <1>10 DEF Complete, Moves
<1>11. ASSUME NEW r \in Requests, Fail(r) PROVE KeyInv'
  BY <1>11 DEF Fail, Moves
<1>12. ASSUME NEW r \in Requests, Abandoned(r) PROVE KeyInv'
  <2>1. UNCHANGED record /\ answer' = answer /\ done' = done /\ keyFaults' \in 0..MaxKeyFaults
    BY <1>12 DEF Abandoned, KeyFault
  <2>2. keyPc' = [keyPc EXCEPT ![r] = "errored"] /\ keyPc[r] \in Live
    BY <1>12 DEF Abandoned
  <2>3. lost' = IF keyPc[r] = "completing" THEN lost \cup {r} ELSE lost
    BY <1>12 DEF Abandoned
  <2>4. keyPc[r] = "completing" => r \in done
    BY <2>2
  <2>5. KeyTypeOK'
    BY <2>1, <2>2, <2>3, <2>4
  <2>6. CompletingIsDone' /\ LiveOwnsRecord' /\ AnswersStored'
    BY <2>1, <2>2
  <2>7. EffectsAccounted'
    BY <2>1, <2>2, <2>3
  <2> QED
    BY <2>5, <2>6, <2>7
<1>13. CASE UNCHANGED recordVars
  BY <1>13 DEF recordVars
<1> QED
  BY <1>1, <1>2, <1>3, <1>4, <1>5, <1>6, <1>7, <1>8, <1>9, <1>10, <1>11, <1>12, <1>13
  DEF KeyNext, Begin, Handle

\* Types of the record and of the requests in flight: begin() gives every row
\* an owner, and a row has a response_body exactly when it is completed.
THEOREM KeyTypes == Prompt => (KeySpec => []KeyTypeOK)
<1> SUFFICES ASSUME Prompt PROVE KeySpec => []KeyTypeOK
  OBVIOUS
<1>1. KeyInv => KeyTypeOK
  BY DEF KeyInv
<1>2. KeyInv /\ [KeyNext]_recordVars => KeyInv'
  BY NextKeyInv
<1>3. QED
  BY <1>1, <1>2, InitKeyInv, PTL DEF KeySpec

\* The promises of IdempotencyInterceptor when every live request ends within
\* IDEMPOTENCY_STALE_MS: the handler runs for one request at a time, every
\* committed effect is the stored response's or was lost to a fault, and all
\* answers agree.
THEOREM PromptKey ==
  Prompt => (KeySpec => [](OneHandler /\ EffectsAccounted /\ AnswersAgree))
<1> SUFFICES ASSUME Prompt
             PROVE  KeySpec => [](OneHandler /\ EffectsAccounted /\ AnswersAgree)
  OBVIOUS
<1>1. KeyInv => OneHandler /\ EffectsAccounted /\ AnswersAgree
  BY DEF KeyInv, LiveOwnsRecord, AnswersStored, OneHandler, AnswersAgree
<1>2. KeyInv /\ [KeyNext]_recordVars => KeyInv'
  BY NextKeyInv
<1>3. QED
  BY <1>1, <1>2, InitKeyInv, PTL DEF KeySpec

=============================================================================
