---------------------------- MODULE Idempotency ----------------------------
(***************************************************************************)
(* One Idempotency-Key of one tenant, method and route: the row of         *)
(* api_idempotency_records and the mutating requests that carry the key    *)
(* through IdempotencyInterceptor, on any replica and in any order.        *)
(*                                                                         *)
(* A request is a client's retry as well as its first try.  The handler is *)
(* abstracted to one commit of its effect: it returns after the commit or  *)
(* throws without one.                                                     *)
(***************************************************************************)
EXTENDS Naturals, FiniteSets

CONSTANTS
  Requests,     \* the requests that carry the key
  NoRequest,    \* NULL
  Hash,         \* Hash[r]: hashRequest of r's method, route and body
  StaleAfter,   \* IDEMPOTENCY_STALE_MS, in ticks
  MaxKeyFaults, \* bound: crashes and rejected database calls
  Prompt        \* whether a live request ends within IDEMPOTENCY_STALE_MS

ASSUME RequestsAssumption == NoRequest \notin Requests
ASSUME StaleAssumption == StaleAfter \in Nat \ {0} /\ MaxKeyFaults \in Nat
ASSUME PromptAssumption == Prompt \in BOOLEAN

VARIABLES
  keyStatus, \* status of the record, "absent" before the INSERT
  owner,     \* the request whose begin() wrote request_hash last
  body,      \* the request whose response is in response_body
  age,       \* now - updated_at
  keyPc,     \* where a request is in intercept()
  answer,    \* the request whose handler produced what r's client was sent
  done,      \* history: the requests whose handler committed its effect
  lost,      \* history: those of them whose completion was never recorded
  keyFaults

record     == <<keyStatus, owner, body, age>>
history    == <<done, lost>>
recordVars == <<keyStatus, owner, body, age, keyPc, answer, done, lost, keyFaults>>

\* The request owns the record, or believes so.
Live == {"handling", "completing", "failing"}

\* Types; the record has an owner once it exists, and a response exactly when
\* it is completed.
KeyTypeOK ==
  /\ keyStatus \in {"absent", "processing", "completed", "failed"}
  /\ owner \in Requests \cup {NoRequest}
  /\ body \in Requests \cup {NoRequest}
  /\ age \in 0..StaleAfter
  /\ keyPc \in [Requests -> {"new", "inserting", "refused", "answered", "errored"} \cup Live]
  /\ answer \in [Requests -> Requests \cup {NoRequest}]
  /\ done \in SUBSET Requests /\ lost \in SUBSET done
  /\ keyFaults \in 0..MaxKeyFaults
  /\ keyStatus = "absent" <=> owner = NoRequest
  /\ keyStatus = "completed" <=> body # NoRequest

KeyInit ==
  /\ keyStatus = "absent" /\ owner = NoRequest /\ body = NoRequest /\ age = 0
  /\ keyPc = [r \in Requests |-> "new"]
  /\ answer = [r \in Requests |-> NoRequest]
  /\ done = {} /\ lost = {}
  /\ keyFaults = 0

-----------------------------------------------------------------------------
(* begin().                                                                *)

Moves(r, from, to) == keyPc[r] = from /\ keyPc' = [keyPc EXCEPT ![r] = to]

\* SELECT ... FOR UPDATE finds nothing and locks nothing.
FindNothing(r) ==
  /\ Moves(r, "new", "inserting")
  /\ keyStatus = "absent"
  /\ UNCHANGED <<record, answer, history, keyFaults>>

\* Mutation: ON CONFLICT the existing row is taken over.
InsertFreeAlways == TRUE

\* UNIQUE (tenant_id, key, method, route)
InsertFree == keyStatus = "absent"

\* The INSERT; losing the race for it is an error to the client.
Insert(r) ==
  \/ /\ InsertFree
     /\ Moves(r, "inserting", "handling")
     /\ keyStatus' = "processing" /\ owner' = r /\ body' = NoRequest /\ age' = 0
     /\ UNCHANGED <<answer, history, keyFaults>>
  \/ /\ ~InsertFree
     /\ Moves(r, "inserting", "errored")
     /\ UNCHANGED <<record, answer, history, keyFaults>>

SameRequest(r) == keyStatus # "absent" /\ Hash[owner] = Hash[r]

\* 409: the key was used with a different body.
RefuseOtherBody(r) ==
  /\ Moves(r, "new", "refused")
  /\ keyStatus # "absent" /\ ~SameRequest(r)
  /\ UNCHANGED <<record, answer, history, keyFaults>>

\* A completed record answers without running the handler.
Replay(r) ==
  /\ Moves(r, "new", "answered")
  /\ SameRequest(r) /\ keyStatus = "completed"
  /\ answer' = [answer EXCEPT ![r] = body]
  /\ UNCHANGED <<record, history, keyFaults>>

\* Mutations: any processing record is taken over; a completed one too, once
\* it is old.
ReclaimableFresh == keyStatus \in {"failed", "processing"}
ReclaimableCompleted == keyStatus = "failed" \/ age >= StaleAfter

\* A failed record, or one whose owner has not been heard of for too long.
Reclaimable == keyStatus = "failed" \/ (keyStatus = "processing" /\ age >= StaleAfter)

Reclaim(r) ==
  /\ Moves(r, "new", "handling")
  /\ SameRequest(r) /\ Reclaimable
  /\ keyStatus' = "processing" /\ owner' = r /\ body' = NoRequest /\ age' = 0
  /\ UNCHANGED <<answer, history, keyFaults>>

\* 409: still processing.
RefuseInFlight(r) ==
  /\ Moves(r, "new", "refused")
  /\ SameRequest(r) /\ keyStatus = "processing" /\ ~Reclaimable
  /\ UNCHANGED <<record, answer, history, keyFaults>>

-----------------------------------------------------------------------------
(* The handler, then complete() or fail().                                 *)

HandlerReturns(r) ==
  /\ Moves(r, "handling", "completing")
  /\ done' = done \cup {r}
  /\ UNCHANGED <<record, answer, lost, keyFaults>>

HandlerThrows(r) ==
  /\ Moves(r, "handling", "failing")
  /\ UNCHANGED <<record, answer, history, keyFaults>>

\* complete(): matches on the id alone.
Complete(r) ==
  /\ Moves(r, "completing", "answered")
  /\ keyStatus' = "completed" /\ body' = r /\ age' = 0
  /\ answer' = [answer EXCEPT ![r] = r]
  /\ UNCHANGED <<owner, history, keyFaults>>

\* fail(): matches a processing record, whoever owns it now.
Fail(r) ==
  /\ Moves(r, "failing", "errored")
  /\ IF keyStatus = "processing"
     THEN keyStatus' = "failed" /\ age' = 0
     ELSE UNCHANGED <<keyStatus, age>>
  /\ UNCHANGED <<owner, body, answer, history, keyFaults>>

-----------------------------------------------------------------------------
KeyFault == keyFaults < MaxKeyFaults /\ keyFaults' = keyFaults + 1

\* complete() or fail() rejects: the client gets an error and the record stays
\* as it is.  Or the process dies with the request in it.
Abandoned(r) ==
  /\ KeyFault
  /\ keyPc[r] \in Live
  /\ keyPc' = [keyPc EXCEPT ![r] = "errored"]
  /\ lost' = IF keyPc[r] = "completing" THEN lost \cup {r} ELSE lost
  /\ UNCHANGED <<record, answer, done>>

\* With prompt requests no live owner lets its record become stale.
RequestsInTime == \A r \in Requests : keyPc[r] \in Live => age + 1 < StaleAfter

Tick ==
  /\ Prompt => RequestsInTime
  /\ keyStatus # "absent" /\ age < StaleAfter
  /\ age' = age + 1
  /\ UNCHANGED <<keyStatus, owner, body, keyPc, answer, history, keyFaults>>

Begin(r) ==
  \/ FindNothing(r) \/ Insert(r) \/ RefuseOtherBody(r)
  \/ Replay(r) \/ Reclaim(r) \/ RefuseInFlight(r)

Handle(r) == HandlerReturns(r) \/ HandlerThrows(r) \/ Complete(r) \/ Fail(r)

KeyNext == Tick \/ \E r \in Requests : Begin(r) \/ Handle(r) \/ Abandoned(r)

KeySpec == KeyInit /\ [][KeyNext]_recordVars

-----------------------------------------------------------------------------
(* Properties.                                                             *)

\* "A genuinely in-flight 'processing' record still returns 409": the handler
\* never runs for two requests with the key at a time.
OneHandler ==
  \A r, s \in Requests : keyPc[r] \in Live /\ keyPc[s] \in Live => r = s

\* The operation behind the key takes effect once, or once more for each time
\* its completion could not be recorded: every committed effect is the stored
\* response's, is about to be stored, or was lost.
EffectsAccounted ==
  \A r \in done : r \in lost \/ keyPc[r] = "completing" \/ (keyStatus = "completed" /\ body = r)

\* All clients that get an answer get the same one, and only requests with the
\* body that the key stands for get any.
AnswersAgree ==
  \A r, s \in Requests :
    answer[r] # NoRequest /\ answer[s] # NoRequest =>
      answer[r] = answer[s] /\ Hash[r] = Hash[s]

-----------------------------------------------------------------------------
(* The strengthenings that make them inductive when requests are prompt.   *)

\* A live request owns a record that is processing and not yet stale.
LiveOwnsRecord ==
  \A r \in Requests : keyPc[r] \in Live => keyStatus = "processing" /\ owner = r /\ age < StaleAfter

\* Whatever was answered is the stored response.
AnswersStored ==
  \A r \in Requests :
    answer[r] # NoRequest => keyStatus = "completed" /\ body = answer[r] /\ Hash[owner] = Hash[r]

\* A request about to record its completion has committed its effect.
CompletingIsDone == \A r \in Requests : keyPc[r] = "completing" => r \in done

KeyInv == KeyTypeOK /\ CompletingIsDone /\ LiveOwnsRecord /\ EffectsAccounted /\ AnswersStored

=============================================================================
