--------------------------- MODULE DeliveryLedger ---------------------------
(***************************************************************************)
(* The durable-delivery ledger (crates/wallet-core/src/delivery.rs): live  *)
(* deliveries in sequence order, tombstones of the consumed ones, and the  *)
(* checks that rebuild a ledger from a checkpoint.                         *)
(*                                                                         *)
(* A delivery's id is the digest of its sequence number, kind, recovery    *)
(* policy, request and result capacity; the policy is a function of the    *)
(* kind, so the id is the record of the other four and two deliveries have *)
(* the same id only if they agree on all of them.  A request or result is  *)
(* told apart by its bytes, of which only the length matters elsewhere.    *)
(*                                                                         *)
(* The caller keeps every correlation a claim returned and may present any *)
(* of them at any time: late, twice or out of order.  An operation that    *)
(* the code refuses leaves the ledger as it is and is no step.             *)
(***************************************************************************)
EXTENDS Naturals, FiniteSets, Sequences

CONSTANTS Blobs,           \* request and result contents
          SizeOf,          \* SizeOf[b]: length of content b
          Specs,           \* the deliveries callers ask for
          Contracts,       \* non-zero adapter contracts
          MaxLive,         \* MAX_LIVE_DELIVERIES
          MaxReserved,     \* MAX_RESERVED_DELIVERY_BYTES
          MaxBlob,         \* MAX_DELIVERY_BLOB_BYTES
          MaxTombstones,   \* MAX_DELIVERY_TOMBSTONES
          MaxSequence,     \* MAX_DELIVERY_SEQUENCE
          MaxAttempts,     \* MAX_DELIVERY_ATTEMPTS
          MaxBatch,        \* bound on the deliveries staged together
          MaxPrepared,     \* bound on the batches staged and not enqueued
          None             \* no result, no contract

ReplaySafe == {"PersistNonce", "Render", "FetchStatusList", "Close"}
AwaitCallback == {"OpenAuthBrowser", "PromptTxCode"}
NeverReplay == {"Sign", "RequestCredential"}
ReconcileBeforeRetry ==
  {"ResolveRpTrust", "Http", "PushPar", "RequestToken", "PublishTransferOffer"}
DeliveryKind == ReplaySafe \union AwaitCallback \union NeverReplay
                  \union ReconcileBeforeRetry

\* Mutant: a delivery that is never to be replayed is retried.
MutantRetryable == ReplaySafe \union ReconcileBeforeRetry \union NeverReplay

\* The kinds whose recovery policy lets an ambiguous delivery be sent again.
Retryable == ReplaySafe \union ReconcileBeforeRetry

DeliverySpec == [kind: DeliveryKind, request: Blobs, capacity: Nat]

ASSUME LedgerAssumption ==
  /\ Specs \subseteq DeliverySpec
  /\ SizeOf \in [Blobs -> Nat]
  /\ MaxLive \in Nat /\ MaxReserved \in Nat /\ MaxBlob \in Nat
  /\ MaxTombstones \in Nat \ {0} /\ MaxSequence \in Nat
  /\ MaxAttempts \in Nat \ {0} /\ MaxBatch \in Nat
  /\ None \notin Blobs /\ None \notin Contracts

VARIABLES next,         \* next_sequence
          live,         \* live deliveries, oldest first
          tombstones,   \* consumed deliveries still remembered, oldest first
          reserved,     \* reserved_bytes
          prepared,     \* batches staged by prepare_batch, not yet enqueued
          claims,       \* correlations returned by claims
          dispatches    \* dispatches[n]: claims of the delivery with sequence n

ledger == <<next, live, tombstones, reserved>>
vars == <<next, live, tombstones, reserved, prepared, claims, dispatches>>

----------------------------------------------------------------------------
(* State *)

SequenceNumbers == 1 .. MaxSequence

DeliveryId == [sequence: SequenceNumbers, kind: DeliveryKind, request: Blobs, capacity: Nat]

States == {"Queued", "Dispatching", "ResultReady", "Ambiguous"}

DeliveryEntry ==
  [id: DeliveryId, state: States, attempt: 0 .. MaxAttempts,
   contract: Contracts \union {None}, result: Blobs \union {None}]

DeliveryTombstone ==
  [id: DeliveryId, attempt: 1 .. MaxAttempts, contract: Contracts, result: Blobs]

DeliveryCorrelation ==
  [id: DeliveryId, attempt: 1 .. MaxAttempts, contract: Contracts]

Queued(id) == [id |-> id, state |-> "Queued", attempt |-> 0,
               contract |-> None, result |-> None]

Reservation(id) == SizeOf[id.request] + id.capacity

\* The bytes reserved by a sequence of ids.
Reserved(ids) ==
  LET total[i \in 0 .. Len(ids)] ==
        IF i = 0 THEN 0 ELSE total[i - 1] + Reservation(ids[i])
  IN total[Len(ids)]

LiveIds == [i \in DOMAIN live |-> live[i].id]

Init ==
  /\ next = 1
  /\ live = <<>>
  /\ tombstones = <<>>
  /\ reserved = 0
  /\ prepared = {}
  /\ claims = {}
  /\ dispatches = [n \in SequenceNumbers |-> 0]

----------------------------------------------------------------------------
(* Staging and enqueuing *)

\* What prepare_sensitive checks of each delivery of a batch staged from the
\* current ledger.  The checks on a clone that already holds the earlier ones
\* amount to the same checks on the whole batch.
Admissible(ids) ==
  /\ ids # <<>>
  /\ Len(live) + Len(ids) <= MaxLive
  /\ reserved + Reserved(ids) <= MaxReserved
  /\ next + Len(ids) - 1 <= MaxSequence
  /\ \A i \in DOMAIN ids : ids[i].sequence = next + i - 1

Stage(spec, n) == [sequence |-> n, kind |-> spec.kind, request |-> spec.request,
                   capacity |-> spec.capacity]

PrepareBatch ==
  /\ Cardinality(prepared) < MaxPrepared
  /\ \E n \in 1 .. MaxBatch : \E specs \in [1 .. n -> Specs] :
       LET ids == [i \in 1 .. n |-> Stage(specs[i], next + i - 1)] IN
       /\ \A i \in 1 .. n : SizeOf[ids[i].request] <= MaxBlob /\ ids[i].capacity <= MaxBlob
       /\ Admissible(ids)
       /\ prepared' = prepared \union {ids}
  /\ UNCHANGED <<next, live, tombstones, reserved, claims, dispatches>>

\* enqueue_batch validates on a clone and replaces the ledger only when every
\* delivery of the batch was accepted.
EnqueueBatch ==
  /\ \E ids \in prepared :
       /\ prepared' = prepared \ {ids}
       /\ IF Admissible(ids)
            THEN /\ live' = live \o [i \in DOMAIN ids |-> Queued(ids[i])]
                 /\ reserved' = reserved + Reserved(ids)
                 /\ next' = next + Len(ids)
            ELSE UNCHANGED <<next, live, reserved>>
  /\ UNCHANGED <<tombstones, claims, dispatches>>

----------------------------------------------------------------------------
(* Dispatch and results *)

\* claim_oldest: the delivery with the least sequence number.
ClaimOldest ==
  /\ \A i \in DOMAIN live : live[i].state # "Dispatching"
  /\ \E i \in DOMAIN live, contract \in Contracts :
       LET e == live[i]
           k == [id |-> e.id, attempt |-> e.attempt + 1, contract |-> contract]
       IN /\ \A j \in DOMAIN live : e.id.sequence <= live[j].id.sequence
          /\ e.state = "Queued"
          /\ e.contract \in {None, contract}
          /\ e.attempt < MaxAttempts
          /\ live' = [live EXCEPT ![i] =
               [id |-> e.id, state |-> "Dispatching", attempt |-> e.attempt + 1,
                contract |-> contract, result |-> e.result]]
          /\ claims' = claims \union {k}
          /\ dispatches' = [dispatches EXCEPT ![e.id.sequence] = @ + 1]
  /\ UNCHANGED <<next, tombstones, reserved, prepared>>

\* Mutant: the attempt of a correlation is not compared.
MutantCorrelates(k, e) == e.id = k.id /\ e.contract = k.contract

\* correlated_location: the live delivery a correlation belongs to, if its
\* contract and its attempt are the current ones.
Correlates(k, e) ==
  e.id = k.id /\ e.contract = k.contract /\ e.attempt = k.attempt

InState(i, state) ==
  [id |-> live[i].id, state |-> state, attempt |-> live[i].attempt,
   contract |-> live[i].contract, result |-> live[i].result]

\* A result that fits is recorded for a delivery in one of the states from.
Resulting(k, from) ==
  /\ \E i \in DOMAIN live, result \in Blobs :
       /\ Correlates(k, live[i])
       /\ SizeOf[result] <= MaxBlob /\ SizeOf[result] <= live[i].id.capacity
       /\ live[i].state \in from
       /\ live' = [live EXCEPT ![i] =
            [id |-> live[i].id, state |-> "ResultReady", attempt |-> live[i].attempt,
             contract |-> live[i].contract, result |-> result]]
  /\ UNCHANGED <<next, tombstones, reserved, prepared, claims, dispatches>>

\* Mutant: no late result for an ambiguous delivery.
MutantRecordResultLate(k) == Resulting(k, {"Dispatching"})

\* record_result; a repetition, or a result for a consumed delivery, changes
\* nothing.
RecordResult(k) == Resulting(k, {"Dispatching", "Ambiguous"})

MarkAmbiguous(k) ==
  /\ \E i \in DOMAIN live :
       /\ Correlates(k, live[i])
       /\ live[i].state = "Dispatching"
       /\ live' = [live EXCEPT ![i] = InState(i, "Ambiguous")]
  /\ UNCHANGED <<next, tombstones, reserved, prepared, claims, dispatches>>

\* Mutant: a delivery that used up its attempts is queued again.
MutantResolveNotPerformed(k) ==
  /\ \E i \in DOMAIN live :
       /\ Correlates(k, live[i])
       /\ live[i].state = "Ambiguous"
       /\ live[i].id.kind \in Retryable
       /\ live' = [live EXCEPT ![i] = InState(i, "Queued")]
  /\ UNCHANGED <<next, tombstones, reserved, prepared, claims, dispatches>>

ResolveNotPerformed(k) ==
  /\ \E i \in DOMAIN live :
       /\ Correlates(k, live[i])
       /\ live[i].state = "Ambiguous"
       /\ live[i].id.kind \in Retryable
       /\ live[i].attempt < MaxAttempts
       /\ live' = [live EXCEPT ![i] = InState(i, "Queued")]
  /\ UNCHANGED <<next, tombstones, reserved, prepared, claims, dispatches>>

\* Vec::remove.
Without(s, i) == [j \in 1 .. Len(s) - 1 |-> IF j < i THEN s[j] ELSE s[j + 1]]

Remembered(e) == [id |-> e.id, attempt |-> e.attempt,
                  contract |-> e.contract, result |-> e.result]

\* consume_ready: the oldest tombstone makes room when the memory is full.
ConsumeReady(k) ==
  /\ \E i \in DOMAIN live :
       /\ Correlates(k, live[i])
       /\ live[i].state = "ResultReady"
       /\ live' = Without(live, i)
       /\ reserved' = reserved - Reservation(live[i].id)
       /\ tombstones' = Append(IF Len(tombstones) = MaxTombstones
                                 THEN Tail(tombstones) ELSE tombstones,
                               Remembered(live[i]))
  /\ UNCHANGED <<next, prepared, claims, dispatches>>

----------------------------------------------------------------------------
(* Checkpoint restore *)

\* The state-dependent invariants restore_checked demands of a live delivery.
ValidState(e) ==
  CASE e.state = "Queued" ->
         /\ e.result = None
         /\ \/ e.attempt = 0 /\ e.contract = None
            \/ /\ e.attempt \in 1 .. MaxAttempts - 1
               /\ e.contract # None
               /\ e.id.kind \in Retryable
    [] e.state \in {"Dispatching", "Ambiguous"} ->
         e.attempt \in 1 .. MaxAttempts /\ e.contract # None /\ e.result = None
    [] OTHER ->
         e.attempt \in 1 .. MaxAttempts /\ e.contract # None /\ e.result # None

\* What restore_checked demands of a live delivery by itself.
ValidEntry(e) ==
  /\ SizeOf[e.id.request] <= MaxBlob /\ e.id.capacity <= MaxBlob
  /\ e.result # None => SizeOf[e.result] <= e.id.capacity
  /\ ValidState(e)

\* The oldest sequence number the ledger remembers.
First == next - (Len(live) + Len(tombstones))

\* Everything restore_checked demands of the retained deliveries except the
\* byte reservation: bounds, one run of consecutive sequence numbers up to
\* next_sequence, valid entries, and only the head ever touched.
WellFormed ==
  /\ Len(live) <= MaxLive /\ Len(tombstones) <= MaxTombstones
  /\ next \in 1 .. MaxSequence + 1
  /\ First >= 1
  /\ Len(live) + Len(tombstones) = 0 => next = 1
  /\ \A i \in DOMAIN tombstones :
       /\ tombstones[i].id.sequence = First + i - 1
       /\ tombstones[i].id.capacity <= MaxBlob
  /\ \A i \in DOMAIN live :
       /\ live[i].id.sequence = First + Len(tombstones) + i - 1
       /\ ValidEntry(live[i])
       /\ i # 1 => live[i] = Queued(live[i].id)

\* The reservation is recomputed, and the digest it enters must be the
\* exported one.
RestoreChecked ==
  /\ WellFormed
  /\ Reserved(LiveIds) <= MaxReserved
  /\ Reserved(LiveIds) = reserved

\* The process restarts from the checkpoint of this ledger; staged batches
\* are memory only.
Restart ==
  /\ RestoreChecked
  /\ prepared' = {}
  /\ UNCHANGED <<next, live, tombstones, reserved, claims, dispatches>>

----------------------------------------------------------------------------

Answer == \E k \in claims : RecordResult(k)

Consume == \E k \in claims : ConsumeReady(k)

Next ==
  \/ PrepareBatch \/ EnqueueBatch \/ ClaimOldest \/ Restart
  \/ Answer \/ Consume
  \/ \E k \in claims : MarkAmbiguous(k) \/ ResolveNotPerformed(k)

Spec == Init /\ [][Next]_vars

\* A caller that keeps claiming, obtains some result for the delivery in
\* flight, and consumes it.  Nothing is assumed of staging or reconciliation.
FairSpec ==
  Spec /\ WF_vars(ClaimOldest) /\ WF_vars(Answer) /\ WF_vars(Consume)

----------------------------------------------------------------------------
(* Properties *)

\* restore_checked accepts every ledger the operations can build, in every
\* state of its deliveries, with full tombstones and with the sequence
\* numbers exhausted: a checkpoint never locks the wallet out.
RestoreAccepts == RestoreChecked

\* "never blindly replay": a delivery is dispatched once per attempt and a
\* kind that may not be replayed is dispatched at most once, whatever late,
\* repeated or contradictory answers arrive (recovery_policy).
DispatchBound ==
  \A n \in SequenceNumbers :
    /\ dispatches[n] <= MaxAttempts
    /\ dispatches[n] > 1 =>
         \E k \in claims : k.id.sequence = n /\ k.id.kind \notin NeverReplay \union AwaitCallback

\* Only the newest claim of a delivery can move it: an answer that belongs to
\* an earlier attempt, or to a consumed delivery, changes nothing.
OnlyNewestClaimActs ==
  [][\A k \in claims :
       (RecordResult(k) \/ MarkAmbiguous(k) \/ ResolveNotPerformed(k) \/ ConsumeReady(k))
         => k.attempt = dispatches[k.id.sequence]]_vars

\* A recorded result is never replaced or lost: the delivery holds it until it
\* is consumed and its tombstone carries the same result.
ResultIsFinal ==
  [][\A i \in DOMAIN live : live[i].state = "ResultReady" =>
       \/ \E j \in DOMAIN live' : live'[j] = live[i]
       \/ tombstones' # <<>> /\ tombstones'[Len(tombstones')] = Remembered(live[i])]_vars

\* No delivery is stuck: with a caller that claims, answers and consumes,
\* every enqueued delivery is consumed, also after it used up its attempts.
EveryDeliveryIsConsumed ==
  \A n \in SequenceNumbers :
    (\E i \in DOMAIN live : live[i].id.sequence = n)
      ~> (\A i \in DOMAIN live : live[i].id.sequence # n)
=============================================================================
