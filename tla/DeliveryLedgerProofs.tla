------------------------ MODULE DeliveryLedgerProofs ------------------------
(***************************************************************************)
(* The inductive invariant of the delivery ledger, one lemma for each      *)
(* operation, and the proofs, for any limits of the ledger, any contents   *)
(* and any contracts, that replay is bounded, that only the newest claim   *)
(* of a delivery acts on it, that results are final and that               *)
(* restore_checked accepts what every operation leaves.                    *)
(***************************************************************************)
EXTENDS DeliveryLedger, Integers, WellFoundedInduction, TLAPS

\* The assumptions; Zenon proves a leaf unless the leaf cites SMT.
USE LedgerAssumption, ZenonT(10)

\* The types the argument needs; batches were staged within the blob limit.
Typed ==
  /\ next \in Nat
  /\ live \in Seq(DeliveryEntry)
  /\ tombstones \in Seq(DeliveryTombstone)
  /\ claims \subseteq DeliveryCorrelation
  /\ dispatches \in [SequenceNumbers -> 0 .. MaxAttempts]
  /\ \A ids \in prepared :
       /\ ids \in Seq(DeliveryId)
       /\ \A i \in DOMAIN ids :
            SizeOf[ids[i].request] <= MaxBlob /\ ids[i].capacity <= MaxBlob

\* A live delivery's attempt counts its dispatches, what is not enqueued yet
\* was never dispatched, and more than one dispatch left a retryable claim.
Counted ==
  /\ \A i \in DOMAIN live : dispatches[live[i].id.sequence] = live[i].attempt
  /\ \A n \in SequenceNumbers : n >= next => dispatches[n] = 0
  /\ \A n \in SequenceNumbers : dispatches[n] > 1 =>
       \E k \in claims : k.id.sequence = n /\ k.id.kind \in Retryable

\* The inductive invariant.
LedgerInv == Typed /\ WellFormed /\ Counted

\* The fields of an entry, and entries from fields.
LEMMA Entries ==
  /\ \A e \in DeliveryEntry :
       /\ e.id \in DeliveryId /\ e.state \in States
       /\ e.attempt \in 0 .. MaxAttempts
       /\ e.contract \in Contracts \union {None}
       /\ e.result \in Blobs \union {None}
  /\ \A id \in DeliveryId, state \in States, attempt \in 0 .. MaxAttempts,
        contract \in Contracts \union {None}, result \in Blobs \union {None} :
       [id |-> id, state |-> state, attempt |-> attempt,
        contract |-> contract, result |-> result] \in DeliveryEntry
  BY DEF DeliveryEntry

\* The fields of an id.
LEMMA Ids ==
  \A id \in DeliveryId :
    /\ id.sequence \in SequenceNumbers /\ id.kind \in DeliveryKind
    /\ id.request \in Blobs /\ id.capacity \in Nat
  BY DEF DeliveryId

\* The facts about one live delivery that every step uses.
LEMMA LiveFacts ==
  ASSUME LedgerInv, NEW i \in DOMAIN live
  PROVE  /\ i \in 1 .. Len(live) /\ Len(live) \in Nat /\ Len(tombstones) \in Nat
         /\ live[i] \in DeliveryEntry
         /\ live[i].id \in DeliveryId
         /\ live[i].id.sequence \in SequenceNumbers
         /\ live[i].id.sequence = next - Len(live) + i - 1
         /\ live[i].attempt \in 0 .. MaxAttempts
         /\ live[i].state \in States
         /\ live[i].contract \in Contracts \union {None}
         /\ live[i].result \in Blobs \union {None}
         /\ ValidState(live[i])
         /\ live[i].state # "Queued" => i = 1
         /\ live[i].attempt > 0 => i = 1
<1>1. i \in 1 .. Len(live) /\ live[i] \in DeliveryEntry /\ Len(live) \in Nat
      /\ Len(tombstones) \in Nat
  BY SMTT(60) DEF LedgerInv, Typed
<1>2. live[i].id.sequence = next - Len(live) + i - 1
  BY SMTT(60), <1>1 DEF LedgerInv, Typed, WellFormed, First
<1>3. live[i].id \in DeliveryId /\ live[i].id.sequence \in SequenceNumbers
  BY <1>1, Entries, Ids
<1>4. ValidState(live[i]) /\ (i # 1 => live[i] = Queued(live[i].id))
  BY DEF LedgerInv, WellFormed, ValidEntry
<1>. QED
  BY SMTT(60), <1>1, <1>2, <1>3, <1>4, Entries DEF Queued

\* Rewriting one live delivery in place keeps the structure when the new entry
\* is in a valid state and has the old id.
LEMMA Rewrite ==
  ASSUME LedgerInv, NEW i \in DOMAIN live, i = 1, NEW e \in DeliveryEntry,
         e.id = live[i].id, ValidEntry(e),
         live' = [live EXCEPT ![i] = e],
         UNCHANGED <<next, tombstones>>
  PROVE  /\ live' \in Seq(DeliveryEntry)
         /\ WellFormed'
         /\ DOMAIN live' = DOMAIN live
         /\ \A j \in DOMAIN live' : live'[j] = IF j = i THEN e ELSE live[j]
<1>1. live \in Seq(DeliveryEntry)
  BY DEF LedgerInv, Typed
<1>2. /\ live' \in Seq(DeliveryEntry) /\ Len(live') = Len(live)
      /\ DOMAIN live' = DOMAIN live
      /\ \A j \in DOMAIN live' : live'[j] = IF j = i THEN e ELSE live[j]
  BY SMTT(60), <1>1
<1>3. ASSUME NEW j \in DOMAIN live'
      PROVE  /\ live'[j].id = live[j].id
             /\ ValidEntry(live'[j])
             /\ j # 1 => live'[j] = Queued(live'[j].id)
  BY <1>2, <1>3 DEF LedgerInv, WellFormed
<1>4. First' = First
  BY <1>2 DEF First
<1>5. \A j \in DOMAIN live' :
        /\ live'[j].id.sequence = First' + Len(tombstones') + j - 1
        /\ ValidEntry(live'[j])
        /\ j # 1 => live'[j] = Queued(live'[j].id)
  BY SMTT(60), <1>2, <1>3, <1>4 DEF LedgerInv, WellFormed
<1>6. \A t \in DOMAIN tombstones' :
        /\ tombstones'[t].id.sequence = First' + t - 1
        /\ tombstones'[t].id.capacity <= MaxBlob
  BY <1>4 DEF LedgerInv, WellFormed
<1>7. /\ Len(live') <= MaxLive /\ Len(tombstones') <= MaxTombstones
      /\ next' \in 1 .. MaxSequence + 1
      /\ First' >= 1
      /\ Len(live') + Len(tombstones') = 0 => next' = 1
  BY <1>2, <1>4 DEF LedgerInv, WellFormed
<1>8. WellFormed'
  BY <1>5, <1>6, <1>7 DEF WellFormed
<1>. QED
  BY <1>2, <1>8

\* A rewrite of the head that keeps its attempt keeps the invariant.
LEMMA RewriteStep ==
  ASSUME LedgerInv, NEW i \in DOMAIN live, i = 1, NEW e \in DeliveryEntry,
         e.id = live[i].id, e.attempt = live[i].attempt, ValidEntry(e),
         live' = [live EXCEPT ![i] = e],
         UNCHANGED <<next, tombstones, prepared, claims, dispatches>>
  PROVE  LedgerInv'
<1>1. /\ live' \in Seq(DeliveryEntry) /\ WellFormed' /\ DOMAIN live' = DOMAIN live
      /\ \A j \in DOMAIN live' : live'[j] = IF j = i THEN e ELSE live[j]
  BY Rewrite
<1>2. Typed'
  BY <1>1 DEF LedgerInv, Typed
<1>3. \A j \in DOMAIN live' : dispatches'[live'[j].id.sequence] = live'[j].attempt
  BY SMTT(60), <1>1 DEF LedgerInv, Counted
<1>4. Counted'
  BY <1>3 DEF LedgerInv, Counted
<1>. QED
  BY <1>1, <1>2, <1>4 DEF LedgerInv

\* record_result keeps the invariant.
LEMMA RecordResultStep ==
  ASSUME LedgerInv, NEW k \in claims, RecordResult(k)
  PROVE  LedgerInv'
<1>1. PICK i \in DOMAIN live, result \in Blobs :
        /\ SizeOf[result] <= live[i].id.capacity
        /\ live[i].state \in {"Dispatching", "Ambiguous"}
        /\ live' = [live EXCEPT ![i] =
             [id |-> live[i].id, state |-> "ResultReady", attempt |-> live[i].attempt,
              contract |-> live[i].contract, result |-> result]]
  BY ZenonT(30) DEF RecordResult, Resulting
<1> DEFINE e == [id |-> live[i].id, state |-> "ResultReady", attempt |-> live[i].attempt,
                 contract |-> live[i].contract, result |-> result]
<1>2. i = 1 /\ ValidEntry(live[i])
  <2>1. i = 1
    BY <1>1, LiveFacts
  <2>2. ValidEntry(live[i])
    BY DEF LedgerInv, WellFormed
  <2>. QED
    BY <2>1, <2>2
<1>3. e \in DeliveryEntry
  BY LiveFacts, Entries DEF States
<1>4. ValidEntry(e)
  BY <1>1, <1>2 DEF ValidEntry, ValidState
<1>5. e.id = live[i].id /\ e.attempt = live[i].attempt
  OBVIOUS
<1> HIDE DEF e
<1>. QED
  BY <1>1, <1>2, <1>3, <1>4, <1>5, RewriteStep DEF RecordResult, Resulting, e

\* A change of state alone keeps the invariant when it is a valid one.
LEMMA InStateStep ==
  ASSUME LedgerInv, NEW i \in DOMAIN live, NEW state \in States, i = 1,
         ValidState(InState(i, state)),
         live' = [live EXCEPT ![i] = InState(i, state)],
         UNCHANGED <<next, tombstones, prepared, claims, dispatches>>
  PROVE  LedgerInv'
<1>1. /\ InState(i, state).id = live[i].id
      /\ InState(i, state).attempt = live[i].attempt
      /\ InState(i, state).result = live[i].result
  BY DEF InState
<1>2. InState(i, state) \in DeliveryEntry
  BY LiveFacts, Entries DEF InState
<1>3. ValidEntry(InState(i, state))
  BY <1>1 DEF LedgerInv, WellFormed, ValidEntry
<1>. QED
  BY <1>1, <1>2, <1>3, RewriteStep

\* mark_ambiguous keeps the invariant.
LEMMA MarkAmbiguousStep ==
  ASSUME LedgerInv, NEW k \in claims, MarkAmbiguous(k)
  PROVE  LedgerInv'
<1>1. PICK i \in DOMAIN live :
        /\ live[i].state = "Dispatching"
        /\ live' = [live EXCEPT ![i] = InState(i, "Ambiguous")]
  BY ZenonT(30) DEF MarkAmbiguous
<1>2. i = 1 /\ ValidState(live[i])
  BY <1>1, LiveFacts
<1>3. ValidState(InState(i, "Ambiguous"))
  BY <1>1, <1>2 DEF ValidState, InState
<1>. QED
  BY <1>1, <1>2, <1>3, InStateStep DEF MarkAmbiguous, States

\* resolve_not_performed keeps the invariant.
LEMMA ResolveNotPerformedStep ==
  ASSUME LedgerInv, NEW k \in claims, ResolveNotPerformed(k)
  PROVE  LedgerInv'
<1>1. PICK i \in DOMAIN live :
        /\ live[i].state = "Ambiguous"
        /\ live[i].id.kind \in Retryable
        /\ live[i].attempt < MaxAttempts
        /\ live' = [live EXCEPT ![i] = InState(i, "Queued")]
  BY ZenonT(30) DEF ResolveNotPerformed
<1>2. i = 1 /\ ValidState(live[i]) /\ live[i].attempt \in 0 .. MaxAttempts
  BY <1>1, LiveFacts
<1>3. ValidState(InState(i, "Queued"))
  BY SMTT(60), <1>1, <1>2 DEF ValidState, InState
<1>. QED
  BY <1>1, <1>2, <1>3, InStateStep DEF ResolveNotPerformed, States

\* The oldest live delivery is the head of the queue.
LEMMA OldestIsHead ==
  ASSUME LedgerInv, NEW i \in DOMAIN live,
         \A j \in DOMAIN live : live[i].id.sequence <= live[j].id.sequence
  PROVE  i = 1
<1>1. 1 \in DOMAIN live /\ i \in 1 .. Len(live) /\ Len(live) \in Nat
  BY SMTT(60), LiveFacts DEF LedgerInv, Typed
<1>2. /\ live[i].id.sequence = next - Len(live) + i - 1
      /\ live[1].id.sequence = next - Len(live) + 1 - 1
  BY <1>1, LiveFacts
<1>. QED
  BY SMTT(60), <1>1, <1>2 DEF LedgerInv, Typed

\* claim_oldest keeps the invariant.
LEMMA ClaimOldestStep ==
  ASSUME LedgerInv, ClaimOldest
  PROVE  LedgerInv'
<1>1. PICK i \in DOMAIN live, contract \in Contracts :
        /\ \A j \in DOMAIN live : live[i].id.sequence <= live[j].id.sequence
        /\ live[i].state = "Queued"
        /\ live[i].attempt < MaxAttempts
        /\ live' = [live EXCEPT ![i] =
             [id |-> live[i].id, state |-> "Dispatching", attempt |-> live[i].attempt + 1,
              contract |-> contract, result |-> live[i].result]]
        /\ claims' = claims \union {[id |-> live[i].id, attempt |-> live[i].attempt + 1,
                                     contract |-> contract]}
        /\ dispatches' = [dispatches EXCEPT ![live[i].id.sequence] = @ + 1]
  BY ZenonT(30) DEF ClaimOldest
<1>2. UNCHANGED <<next, tombstones, prepared>>
  BY DEF ClaimOldest
<1> DEFINE e == [id |-> live[i].id, state |-> "Dispatching", attempt |-> live[i].attempt + 1,
                 contract |-> contract, result |-> live[i].result]
           k == [id |-> live[i].id, attempt |-> live[i].attempt + 1, contract |-> contract]
           n == live[i].id.sequence
<1>3. i = 1
  BY <1>1, OldestIsHead
<1>4. /\ live[i].id \in DeliveryId /\ n \in SequenceNumbers
      /\ live[i].attempt + 1 \in 1 .. MaxAttempts
      /\ live[i].result \in Blobs \union {None}
      /\ ValidEntry(live[i]) /\ ValidState(live[i])
  <2>1. live[i].attempt \in 0 .. MaxAttempts
    BY LiveFacts
  <2>2. ValidEntry(live[i])
    BY DEF LedgerInv, WellFormed
  <2>3. live[i].attempt + 1 \in 1 .. MaxAttempts
    BY SMTT(60), <1>1, <2>1
  <2>. QED
    BY <2>2, <2>3, LiveFacts
<1>5. e \in DeliveryEntry
  BY SMTT(60), <1>4, Entries DEF States
<1>6. ValidEntry(e)
  BY <1>1, <1>4 DEF ValidEntry, ValidState
<1>7. k \in DeliveryCorrelation
  BY <1>4 DEF DeliveryCorrelation
<1>8. e.id = live[i].id /\ e.attempt = live[i].attempt + 1
      /\ k.id = live[i].id
  OBVIOUS
<1>9. live' = [live EXCEPT ![i] = e] /\ claims' = claims \union {k}
      /\ dispatches' = [dispatches EXCEPT ![n] = @ + 1]
  BY <1>1
<1> HIDE DEF e, k, n
<1>10. /\ live' \in Seq(DeliveryEntry) /\ WellFormed' /\ DOMAIN live' = DOMAIN live
       /\ \A j \in DOMAIN live' : live'[j] = IF j = i THEN e ELSE live[j]
  BY <1>2, <1>3, <1>5, <1>6, <1>8, <1>9, Rewrite
<1>11. dispatches[n] = live[i].attempt
  BY DEF LedgerInv, Counted, n
<1>12. dispatches' \in [SequenceNumbers -> 0 .. MaxAttempts]
  <2>1. dispatches \in [SequenceNumbers -> 0 .. MaxAttempts]
    BY DEF LedgerInv, Typed
  <2>2. dispatches' = [dispatches EXCEPT ![n] = @ + 1]
    BY <1>9
  <2>3. dispatches[n] + 1 \in 0 .. MaxAttempts
    BY SMTT(60), <1>4, <1>11
  <2>. QED
    BY <2>1, <2>2, <2>3
<1>13. \A m \in SequenceNumbers :
         dispatches'[m] = IF m = n THEN live[i].attempt + 1 ELSE dispatches[m]
  BY <1>4, <1>9, <1>11 DEF LedgerInv, Typed
<1>14. Typed'
  BY <1>2, <1>7, <1>9, <1>10, <1>12 DEF LedgerInv, Typed
<1>15. ASSUME NEW j \in DOMAIN live'
       PROVE  dispatches'[live'[j].id.sequence] = live'[j].attempt
  <2>1. CASE j = i
    BY <1>4, <1>8, <1>10, <1>13, <2>1 DEF n
  <2>2. CASE j # i
    <3>1. live[j].id.sequence \in SequenceNumbers /\ live[j].id.sequence # n
      <4>1. j \in DOMAIN live
        BY <1>10, <1>15
      <4>2. /\ live[j].id.sequence \in SequenceNumbers
            /\ live[j].id.sequence = next - Len(live) + j - 1
            /\ j \in Nat /\ Len(live) \in Nat
        BY SMTT(60), <4>1, LiveFacts
      <4>3. n = next - Len(live) + i - 1
        BY LiveFacts DEF n
      <4>. QED
        BY SMTT(60), <1>3, <2>2, <4>2, <4>3 DEF LedgerInv, Typed
    <3>. QED
      BY SMTT(60), <1>10, <1>13, <1>15, <2>2, <3>1 DEF LedgerInv, Counted
  <2>. QED
    BY <2>1, <2>2
<1>16. \A m \in SequenceNumbers : m >= next' => dispatches'[m] = 0
  <2>1. n < next
    BY SMTT(60), LiveFacts DEF n, LedgerInv, Typed
  <2>. QED
    BY SMTT(60), <1>2, <1>4, <1>13, <2>1 DEF LedgerInv, Typed, Counted, SequenceNumbers
<1>17. ASSUME NEW m \in SequenceNumbers, dispatches'[m] > 1
       PROVE  \E q \in claims' : q.id.sequence = m /\ q.id.kind \in Retryable
  <2>1. CASE m = n
    <3>1. live[i].attempt \in 0 .. MaxAttempts /\ live[i].attempt # 0
      BY SMTT(60), <1>13, <1>17, <2>1, LiveFacts
    <3>2. live[i].id.kind \in Retryable
      BY <1>1, <1>4, <3>1 DEF ValidState
    <3>. QED
      BY <1>8, <1>9, <2>1, <3>2 DEF n
  <2>2. CASE m # n
    BY SMTT(60), <1>9, <1>13, <1>17, <2>2 DEF LedgerInv, Counted
  <2>. QED
    BY <2>1, <2>2
<1>18. Counted'
  BY <1>15, <1>16, <1>17 DEF Counted
<1>. QED
  BY <1>10, <1>14, <1>18 DEF LedgerInv

\* prepare_batch stages ids of the right type and touches nothing else.
LEMMA PrepareBatchStep ==
  ASSUME LedgerInv, PrepareBatch
  PROVE  LedgerInv'
<1>0. PICK n \in 1 .. MaxBatch :
        \E specs \in [1 .. n -> Specs] :
          LET ids == [i \in 1 .. n |-> Stage(specs[i], next + i - 1)] IN
          /\ \A i \in 1 .. n : SizeOf[ids[i].request] <= MaxBlob /\ ids[i].capacity <= MaxBlob
          /\ Admissible(ids)
          /\ prepared' = prepared \union {ids}
  BY ZenonT(30) DEF PrepareBatch
<1>1. PICK specs \in [1 .. n -> Specs] :
        LET ids == [i \in 1 .. n |-> Stage(specs[i], next + i - 1)] IN
        /\ \A i \in 1 .. n : SizeOf[ids[i].request] <= MaxBlob /\ ids[i].capacity <= MaxBlob
        /\ Admissible(ids)
        /\ prepared' = prepared \union {ids}
  BY <1>0
<1> DEFINE ids == [i \in 1 .. n |-> Stage(specs[i], next + i - 1)]
<1>2. Len(ids) = n /\ DOMAIN ids = 1 .. n
  BY SMTT(60)
<1>3. next \in Nat /\ next >= 1 /\ next + n - 1 <= MaxSequence
  BY SMTT(60), <1>1, <1>2 DEF LedgerInv, Typed, WellFormed, Admissible
<1>4. ASSUME NEW i \in 1 .. n PROVE ids[i] \in DeliveryId
  <2>1. specs[i] \in DeliverySpec
    BY <1>4
  <2>2. next + i - 1 \in SequenceNumbers
    BY SMTT(60), <1>3, <1>4 DEF SequenceNumbers
  <2>. QED
    BY <2>1, <2>2 DEF Stage, DeliveryId, DeliverySpec
<1>5. ids \in Seq(DeliveryId)
  BY SMTT(60), <1>2, <1>4
<1>6. Typed'
  <2>1. \A i \in DOMAIN ids : SizeOf[ids[i].request] <= MaxBlob /\ ids[i].capacity <= MaxBlob
    BY <1>1, <1>2
  <2> HIDE DEF ids
  <2>2. prepared' = prepared \union {ids}
    BY <1>1 DEF ids
  <2>3. UNCHANGED <<next, live, tombstones, claims, dispatches>>
    BY DEF PrepareBatch
  <2>. QED
    BY <1>5, <2>1, <2>2, <2>3 DEF LedgerInv, Typed
<1>7. WellFormed' /\ Counted'
  <2>1. UNCHANGED <<next, live, tombstones, claims, dispatches>>
    BY DEF PrepareBatch
  <2>. QED
    BY SMTT(60), <2>1 DEF LedgerInv, WellFormed, Counted, First, ValidEntry, ValidState, Queued
<1>. QED
  BY <1>6, <1>7 DEF LedgerInv

\* The length of a concatenation.
LEMMA ConcatLength ==
  ASSUME NEW S, NEW s \in Seq(S), NEW t \in Seq(S)
  PROVE  Len(s \o t) = Len(s) + Len(t)
  BY SMTT(60)

\* A refused or accepted batch leaves a ledger in order.
LEMMA EnqueueBatchStep ==
  ASSUME LedgerInv, EnqueueBatch
  PROVE  LedgerInv'
<1>1. PICK ids \in prepared :
        /\ prepared' = prepared \ {ids}
        /\ IF Admissible(ids)
             THEN /\ live' = live \o [i \in DOMAIN ids |-> Queued(ids[i])]
                  /\ reserved' = reserved + Reserved(ids)
                  /\ next' = next + Len(ids)
             ELSE UNCHANGED <<next, live, reserved>>
  BY ZenonT(30) DEF EnqueueBatch
<1>2. UNCHANGED <<tombstones, claims, dispatches>>
  BY DEF EnqueueBatch
<1>3. CASE ~Admissible(ids)
  <2>1. UNCHANGED <<next, live>>
    BY <1>1, <1>3
  <2>2. Typed'
    BY <1>1, <1>2, <2>1 DEF LedgerInv, Typed
  <2>3. WellFormed' /\ Counted'
    BY SMTT(60), <1>2, <2>1 DEF LedgerInv, WellFormed, Counted, First, ValidEntry, ValidState, Queued
  <2>. QED
    BY <2>2, <2>3 DEF LedgerInv
<1>4. CASE Admissible(ids)
  <2> DEFINE new == [i \in DOMAIN ids |-> Queued(ids[i])]
  <2>1. ids \in Seq(DeliveryId) /\ Len(ids) \in Nat /\ DOMAIN ids = 1 .. Len(ids)
        /\ live \in Seq(DeliveryEntry) /\ Len(live) \in Nat /\ DOMAIN live = 1 .. Len(live)
        /\ next \in Nat /\ Len(tombstones) \in Nat
    BY SMTT(60) DEF LedgerInv, Typed
  <2>2. \A i \in DOMAIN ids :
          /\ ids[i] \in DeliveryId
          /\ SizeOf[ids[i].request] <= MaxBlob /\ ids[i].capacity <= MaxBlob
    BY SMTT(60), <2>1 DEF LedgerInv, Typed
  <2>3. /\ Len(live) + Len(ids) <= MaxLive /\ next + Len(ids) - 1 <= MaxSequence
        /\ Len(ids) > 0
        /\ \A i \in DOMAIN ids : ids[i].sequence = next + i - 1
    BY SMTT(60), <1>4, <2>1 DEF Admissible
  <2>4. \A i \in DOMAIN ids : Queued(ids[i]) \in DeliveryEntry /\ ValidEntry(Queued(ids[i]))
                             /\ Queued(ids[i]).id = ids[i] /\ Queued(ids[i]).attempt = 0
    <3> SUFFICES ASSUME NEW i \in DOMAIN ids
                 PROVE  Queued(ids[i]) \in DeliveryEntry /\ ValidEntry(Queued(ids[i]))
                        /\ Queued(ids[i]).id = ids[i] /\ Queued(ids[i]).attempt = 0
      OBVIOUS
    <3>1. Queued(ids[i]) \in DeliveryEntry
      BY SMTT(60), <2>2, Entries DEF Queued, States
    <3>2. ValidEntry(Queued(ids[i]))
      BY <2>2 DEF Queued, ValidEntry, ValidState
    <3>. QED
      BY <3>1, <3>2 DEF Queued
  <2>5. new \in Seq(DeliveryEntry) /\ Len(new) = Len(ids)
    BY SMTT(60), <2>1, <2>4
  <2>6. /\ live' = live \o new /\ next' = next + Len(ids)
        /\ \A i \in DOMAIN ids : new[i] = Queued(ids[i])
    BY <1>1, <1>4
  <2> HIDE DEF new
  <2>7. /\ live' \in Seq(DeliveryEntry) /\ Len(live') = Len(live) + Len(ids)
        /\ DOMAIN live' = 1 .. Len(live')
    <3>1. live \o new \in Seq(DeliveryEntry)
      BY SMTT(60), <2>1, <2>5
    <3>2. Len(live \o new) = Len(live) + Len(new)
      BY <2>1, <2>5, ConcatLength
    <3>3. live' \in Seq(DeliveryEntry) /\ Len(live') = Len(live) + Len(ids)
      BY <2>5, <2>6, <3>1, <3>2
    <3>. QED
      BY SMTT(60), <3>3
  <2>8. ASSUME NEW j \in DOMAIN live'
        PROVE  \/ j \in DOMAIN live /\ live'[j] = live[j]
               \/ j - Len(live) \in DOMAIN ids /\ live'[j] = Queued(ids[j - Len(live)])
    <3>1. CASE j <= Len(live)
      BY SMTT(60), <2>1, <2>5, <2>6, <2>7, <2>8, <3>1
    <3>2. CASE j > Len(live)
      <4>1. j - Len(live) \in DOMAIN ids
        BY SMTT(60), <2>1, <2>7, <2>8, <3>2
      <4>2. live'[j] = new[j - Len(live)]
        BY SMTT(60), <2>1, <2>5, <2>6, <2>7, <2>8, <3>2
      <4>. QED
        BY <2>6, <4>1, <4>2
    <3>. QED
      BY SMTT(60), <2>1, <2>7, <2>8, <3>1, <3>2
  <2>9. First' = First /\ First \in Int
    BY SMTT(60), <1>2, <2>1, <2>6, <2>7 DEF First
  <2>10. Typed'
    <3>1. next' \in Nat
      BY SMTT(60), <2>1, <2>6
    <3>2. \A b \in prepared' : b \in prepared
      BY <1>1
    <3>. QED
      BY <1>2, <2>7, <3>1, <3>2 DEF LedgerInv, Typed
  <2>11. ASSUME NEW j \in DOMAIN live'
         PROVE  /\ live'[j].id.sequence = First' + Len(tombstones') + j - 1
                /\ ValidEntry(live'[j])
                /\ j # 1 => live'[j] = Queued(live'[j].id)
    <3>1. CASE j \in DOMAIN live /\ live'[j] = live[j]
      BY <1>2, <2>9, <3>1 DEF LedgerInv, WellFormed
    <3>2. CASE j - Len(live) \in DOMAIN ids /\ live'[j] = Queued(ids[j - Len(live)])
      <4>1. live'[j].id = ids[j - Len(live)] /\ ValidEntry(live'[j])
        BY <2>4, <3>2
      <4>2. live'[j].id.sequence = next + (j - Len(live)) - 1
        BY <2>3, <3>2, <4>1
      <4>3. j \in Nat
        BY SMTT(60), <2>7, <2>11
      <4>. QED
        BY SMTT(60), <1>2, <2>1, <2>9, <3>2, <4>1, <4>2, <4>3 DEF First
    <3>. QED
      BY <2>8, <2>11, <3>1, <3>2
  <2>12. \A t \in DOMAIN tombstones' :
           /\ tombstones'[t].id.sequence = First' + t - 1
           /\ tombstones'[t].id.capacity <= MaxBlob
    BY <1>2, <2>9 DEF LedgerInv, WellFormed
  <2>13. /\ Len(live') <= MaxLive /\ Len(tombstones') <= MaxTombstones
         /\ next' \in 1 .. MaxSequence + 1
         /\ First' >= 1
         /\ Len(live') + Len(tombstones') = 0 => next' = 1
    BY SMTT(60), <1>2, <2>1, <2>3, <2>6, <2>7, <2>9 DEF LedgerInv, WellFormed
  <2>14. WellFormed'
    BY <2>11, <2>12, <2>13 DEF WellFormed
  <2>15. ASSUME NEW j \in DOMAIN live'
         PROVE  dispatches'[live'[j].id.sequence] = live'[j].attempt
    <3>1. CASE j \in DOMAIN live /\ live'[j] = live[j]
      BY <1>2, <3>1 DEF LedgerInv, Counted
    <3>2. CASE j - Len(live) \in DOMAIN ids /\ live'[j] = Queued(ids[j - Len(live)])
      <4>1. live'[j].id = ids[j - Len(live)] /\ live'[j].attempt = 0
        BY <2>4, <3>2
      <4>2. /\ live'[j].id.sequence = next + (j - Len(live)) - 1
            /\ live'[j].id.sequence \in SequenceNumbers
        BY <2>2, <2>3, <3>2, <4>1, Ids
      <4>3. live'[j].id.sequence >= next
        BY SMTT(60), <2>1, <3>2, <4>2
      <4>. QED
        BY <1>2, <4>1, <4>2, <4>3 DEF LedgerInv, Counted
    <3>. QED
      BY <2>8, <2>15, <3>1, <3>2
  <2>16. \A m \in SequenceNumbers : m >= next' => dispatches'[m] = 0
    BY SMTT(60), <1>2, <2>1, <2>6 DEF LedgerInv, Counted, SequenceNumbers
  <2>17. Counted'
    BY <1>2, <2>15, <2>16 DEF LedgerInv, Counted
  <2>. QED
    BY <2>10, <2>14, <2>17 DEF LedgerInv
<1>. QED
  BY <1>3, <1>4

\* Only the head has a result, so consume_ready moves the head of live to the
\* end of the tombstones and the run of sequence numbers stays unbroken.
LEMMA ConsumeReadyStep ==
  ASSUME LedgerInv, NEW k \in claims, ConsumeReady(k)
  PROVE  LedgerInv'
<1> DEFINE e == live[1]
           kept == IF Len(tombstones) = MaxTombstones THEN Tail(tombstones) ELSE tombstones
<1>1. PICK i \in DOMAIN live :
        /\ Correlates(k, live[i])
        /\ live[i].state = "ResultReady"
        /\ live' = Without(live, i)
        /\ tombstones' = Append(kept, Remembered(live[i]))
  BY DEF ConsumeReady
<1>2. UNCHANGED <<next, prepared, claims, dispatches>>
  BY DEF ConsumeReady
<1>3. i = 1
  <2>1. Queued(live[i].id).state = "Queued"
    BY DEF Queued
  <2>. QED
    BY <1>1, <2>1 DEF LedgerInv, WellFormed
<1>4. /\ live \in Seq(DeliveryEntry) /\ Len(live) \in Nat \ {0} /\ DOMAIN live = 1 .. Len(live)
      /\ tombstones \in Seq(DeliveryTombstone) /\ Len(tombstones) \in Nat
      /\ DOMAIN tombstones = 1 .. Len(tombstones) /\ next \in Nat
  BY SMTT(60), <1>1 DEF LedgerInv, Typed
<1>5. /\ live' = [j \in 1 .. Len(live) - 1 |-> live[j + 1]]
      /\ tombstones' = Append(kept, Remembered(e))
  <2>1. live' = Without(live, 1) /\ tombstones' = Append(kept, Remembered(e))
    BY <1>1, <1>3
  <2>2. \A j \in 1 .. Len(live) - 1 : ~(j < 1)
    BY SMTT(60), <1>4
  <2>3. Without(live, 1) = [j \in 1 .. Len(live) - 1 |-> live[j + 1]]
    BY <2>2, Zenon DEF Without
  <2>. QED
    BY <2>1, <2>3
<1>6. /\ e \in DeliveryEntry /\ ValidEntry(e) /\ e.state = "ResultReady"
      /\ e.id.sequence = First + Len(tombstones)
  <2>1. 1 \in DOMAIN live
    BY <1>1, <1>3
  <2>2. e.id.sequence = First + Len(tombstones) + 1 - 1
    BY <2>1 DEF LedgerInv, WellFormed
  <2>3. First + Len(tombstones) + 1 - 1 = First + Len(tombstones)
    BY SMTT(60), <1>4 DEF First
  <2>4. e \in DeliveryEntry
    BY SMTT(60), <1>4, <2>1
  <2>5. ValidEntry(e)
    BY <2>1 DEF LedgerInv, WellFormed
  <2>. QED
    BY <1>1, <1>3, <2>2, <2>3, <2>4, <2>5
<1>7. Remembered(e) \in DeliveryTombstone /\ Remembered(e).id = e.id
  <2>1. e.attempt \in 1 .. MaxAttempts /\ e.contract \in Contracts /\ e.result \in Blobs
    BY <1>6, Entries DEF ValidEntry, ValidState
  <2>2. e.id \in DeliveryId
    BY <1>6, Entries
  <2>. QED
    BY <2>1, <2>2 DEF Remembered, DeliveryTombstone
<1> HIDE DEF e
<1>8. /\ live' \in Seq(DeliveryEntry) /\ Len(live') = Len(live) - 1
      /\ DOMAIN live' = 1 .. Len(live) - 1
      /\ \A j \in DOMAIN live' : j + 1 \in DOMAIN live /\ live'[j] = live[j + 1]
  <2>1. \A j \in 1 .. Len(live) - 1 : j + 1 \in DOMAIN live /\ live[j + 1] \in DeliveryEntry
    BY SMTT(60), <1>4
  <2>2. Len(live) - 1 \in Nat
    BY SMTT(60), <1>4
  <2>. QED
    BY SMTT(60), <1>5, <2>1, <2>2
<1>9. /\ kept \in Seq(DeliveryTombstone) /\ Len(kept) \in Nat /\ Len(kept) + 1 <= MaxTombstones
      /\ \/ Len(kept) = Len(tombstones) /\ kept = tombstones
         \/ Len(kept) = Len(tombstones) - 1 /\ \A t \in 1 .. Len(kept) : kept[t] = tombstones[t + 1]
  <2>1. Len(tombstones) <= MaxTombstones
    BY DEF LedgerInv, WellFormed
  <2>2. CASE Len(tombstones) = MaxTombstones
    <3>1. kept = Tail(tombstones) /\ Len(tombstones) >= 1 /\ tombstones # <<>>
      BY SMTT(60), <1>4, <2>2
    <3> HIDE DEF kept
    <3>2. kept \in Seq(DeliveryTombstone) /\ Len(kept) = Len(tombstones) - 1
      BY SMTT(60), <1>4, <3>1
    <3>3. \A t \in 1 .. Len(kept) : kept[t] = tombstones[t + 1]
      BY SMTT(60), <1>4, <3>1, <3>2
    <3>. QED
      BY SMTT(60), <1>4, <2>2, <3>1, <3>2, <3>3
  <2>3. CASE Len(tombstones) # MaxTombstones
    <3>1. kept = tombstones
      BY <2>3
    <3> HIDE DEF kept
    <3>. QED
      <4>1. Len(tombstones) + 1 <= MaxTombstones
        <5>1. Len(tombstones) \in Nat /\ MaxTombstones \in Nat
          BY <1>4
        <5>. QED
          BY SMTT(60), <2>1, <2>3, <5>1
      <4>. QED
        BY <1>4, <3>1, <4>1, Zenon
  <2>. QED
    BY <2>2, <2>3
<1> HIDE DEF kept
<1>10. /\ tombstones' \in Seq(DeliveryTombstone) /\ Len(tombstones') = Len(kept) + 1
       /\ \A t \in 1 .. Len(kept) : tombstones'[t] = kept[t]
       /\ tombstones'[Len(kept) + 1] = Remembered(e)
  BY SMTT(60), <1>5, <1>7, <1>9
<1>11. /\ First' \in Int /\ First \in Int /\ First' + Len(kept) = First + Len(tombstones)
       /\ Len(tombstones) \in Nat /\ Len(kept) \in Nat /\ Len(live) \in Nat \ {0}
       /\ Len(tombstones') = Len(kept) + 1 /\ Len(live') = Len(live) - 1
       /\ Len(kept) \in {Len(tombstones), Len(tombstones) - 1}
  <2>1. next' = next /\ Len(live') = Len(live) - 1 /\ Len(tombstones') = Len(kept) + 1
    BY <1>2, <1>8, <1>10
  <2>2. next \in Nat /\ Len(live) \in Nat \ {0} /\ Len(kept) \in Nat /\ Len(tombstones) \in Nat
    BY <1>4, <1>9
  <2>3. First' = next - ((Len(live) - 1) + (Len(kept) + 1))
    BY <2>1 DEF First
  <2>4. First = next - (Len(live) + Len(tombstones))
    BY DEF First
  <2>. QED
    BY SMTT(60), <1>9, <2>1, <2>2, <2>3, <2>4
<1>12. Typed'
  BY <1>2, <1>8, <1>10 DEF LedgerInv, Typed
<1>13. ASSUME NEW t \in DOMAIN tombstones'
       PROVE  /\ tombstones'[t].id.sequence = First' + t - 1
              /\ tombstones'[t].id.capacity <= MaxBlob
  <2>1. t \in 1 .. Len(kept) + 1
    BY SMTT(60), <1>10, <1>13
  <2>2. CASE t = Len(kept) + 1
    <3>1. tombstones'[t].id = e.id /\ e.id.capacity <= MaxBlob
      BY <1>6, <1>7, <1>10, <2>2 DEF ValidEntry
    <3>2. First' + t - 1 = First + Len(tombstones)
      BY SMTT(60), <1>11, <2>2
    <3>. QED
      BY <1>6, <3>1, <3>2
  <2>3. CASE t \in 1 .. Len(kept) /\ Len(kept) = Len(tombstones) /\ kept = tombstones
    <3>1. tombstones'[t] = tombstones[t] /\ t \in DOMAIN tombstones /\ First' = First
      BY SMTT(60), <1>4, <1>10, <1>11, <2>3
    <3>. QED
      BY <3>1 DEF LedgerInv, WellFormed
  <2>4. CASE /\ t \in 1 .. Len(kept) /\ Len(kept) = Len(tombstones) - 1
             /\ kept[t] = tombstones[t + 1]
    <3>1. tombstones'[t] = tombstones[t + 1] /\ t + 1 \in DOMAIN tombstones
      BY SMTT(60), <1>4, <1>10, <2>4
    <3>2. First + (t + 1) - 1 = First' + t - 1
      <4>1. t \in Nat /\ Len(kept) = Len(tombstones) - 1
        BY SMTT(60), <1>11, <2>4
      <4>2. First' \in Int /\ First \in Int /\ First' = First + 1
        BY SMTT(60), <1>11, <4>1
      <4>. QED
        BY SMTT(60), <4>1, <4>2
    <3>. QED
      BY <3>1, <3>2 DEF LedgerInv, WellFormed
  <2>. QED
    BY SMTT(60), <1>9, <2>1, <2>2, <2>3, <2>4
<1>14. ASSUME NEW j \in DOMAIN live'
       PROVE  /\ live'[j].id.sequence = First' + Len(tombstones') + j - 1
              /\ ValidEntry(live'[j])
              /\ live'[j] = Queued(live'[j].id)
  <2>1. j \in Nat \ {0} /\ j + 1 \in DOMAIN live /\ live'[j] = live[j + 1]
    BY SMTT(60), <1>4, <1>8, <1>14
  <2>2. First' + Len(tombstones') + j - 1 = First + Len(tombstones) + (j + 1) - 1
    <3>1. j \in Nat
      BY <2>1
    <3>. QED
      BY SMTT(60), <1>11, <3>1
  <2>3. j + 1 # 1
    BY SMTT(60), <2>1
  <2>. QED
    BY <2>1, <2>2, <2>3 DEF LedgerInv, WellFormed
<1>15. /\ Len(live') <= MaxLive /\ Len(tombstones') <= MaxTombstones
       /\ next' \in 1 .. MaxSequence + 1
       /\ First' >= 1
       /\ Len(live') + Len(tombstones') = 0 => next' = 1
  <2>1. /\ Len(live) <= MaxLive /\ First >= 1 /\ next' \in 1 .. MaxSequence + 1
        /\ Len(kept) + 1 <= MaxTombstones
    BY <1>2, <1>9 DEF LedgerInv, WellFormed
  <2>. QED
    BY SMTT(60), <1>11, <2>1
<1>16. WellFormed'
  BY <1>13, <1>14, <1>15 DEF WellFormed
<1>17. Counted'
  BY SMTT(60), <1>2, <1>8 DEF LedgerInv, Counted
<1>. QED
  BY <1>12, <1>16, <1>17 DEF LedgerInv

\* LedgerInv holds in every reachable state: entries, tombstones and
\* next_sequence always form one run of consecutive sequence numbers, only the
\* head is ever touched, and attempts count dispatches.
THEOREM LedgerInvariant == Spec => []LedgerInv
<1>1. Init => LedgerInv
  <2> SUFFICES ASSUME Init PROVE LedgerInv
    OBVIOUS
  <2>1. Typed
    BY SMTT(60) DEF Init, Typed
  <2>2. WellFormed
    BY SMTT(60) DEF Init, WellFormed, First
  <2>3. Counted
    BY SMTT(60) DEF Init, Counted
  <2>. QED
    BY <2>1, <2>2, <2>3 DEF LedgerInv
<1>2. LedgerInv /\ [Next]_vars => LedgerInv'
  <2> SUFFICES ASSUME LedgerInv, [Next]_vars PROVE LedgerInv'
    OBVIOUS
  <2>1. CASE Restart
    <3>1. prepared' = {} /\ UNCHANGED <<next, live, tombstones, claims, dispatches>>
      BY <2>1 DEF Restart
    <3>2. Typed'
      BY <3>1 DEF LedgerInv, Typed
    <3>3. WellFormed' /\ Counted'
      BY SMTT(60), <3>1 DEF LedgerInv, WellFormed, Counted, First, ValidEntry, ValidState, Queued
    <3>. QED
      BY <3>2, <3>3 DEF LedgerInv
  <2>2. CASE UNCHANGED vars
    <3>1. UNCHANGED <<next, live, tombstones, claims, dispatches, prepared>>
      BY <2>2 DEF vars
    <3>2. Typed'
      BY <3>1 DEF LedgerInv, Typed
    <3>3. WellFormed' /\ Counted'
      BY SMTT(60), <3>1 DEF LedgerInv, WellFormed, Counted, First, ValidEntry, ValidState, Queued
    <3>. QED
      BY <3>2, <3>3 DEF LedgerInv
  <2>. QED
    BY <2>1, <2>2, PrepareBatchStep, EnqueueBatchStep, ClaimOldestStep, RecordResultStep,
       ConsumeReadyStep, MarkAmbiguousStep, ResolveNotPerformedStep
       DEF Next, Answer, Consume
<1>. QED
  BY <1>1, <1>2, PTL DEF Spec

\* Whatever restore_checked demands of the entries, the tombstones and the
\* sequence numbers holds of every ledger the operations can build.
THEOREM LedgerWellFormed == Spec => []WellFormed
<1>1. LedgerInv => WellFormed
  BY DEF LedgerInv
<1>. QED
  BY <1>1, LedgerInvariant, PTL

\* No delivery is dispatched more often than its attempts allow, and one of a
\* kind that may not be replayed is dispatched at most once.
THEOREM LedgerDispatchBound == Spec => []DispatchBound
<1>1. LedgerInv => DispatchBound
  <2> SUFFICES ASSUME LedgerInv, NEW n \in SequenceNumbers
               PROVE  /\ dispatches[n] <= MaxAttempts
                      /\ dispatches[n] > 1 =>
                           \E k \in claims : k.id.sequence = n
                             /\ k.id.kind \notin NeverReplay \union AwaitCallback
    BY DEF DispatchBound
  <2>1. \A kind \in Retryable : kind \notin NeverReplay \union AwaitCallback
    BY DEF Retryable, ReplaySafe, ReconcileBeforeRetry, NeverReplay, AwaitCallback
  <2>2. dispatches[n] <= MaxAttempts
    BY SMTT(60) DEF LedgerInv, Typed
  <2>. QED
    BY SMTT(60), <2>1, <2>2 DEF LedgerInv, Counted
<1>. QED
  BY <1>1, LedgerInvariant, PTL

\* A correlation acts only while its attempt is the delivery's latest dispatch.
THEOREM LedgerOnlyNewestClaimActs == Spec => OnlyNewestClaimActs
<1>1. LedgerInv /\ [Next]_vars =>
        [\A k \in claims :
           (RecordResult(k) \/ MarkAmbiguous(k) \/ ResolveNotPerformed(k) \/ ConsumeReady(k))
             => k.attempt = dispatches[k.id.sequence]]_vars
  <2> SUFFICES ASSUME LedgerInv, NEW k \in claims,
                      RecordResult(k) \/ MarkAmbiguous(k) \/ ResolveNotPerformed(k)
                        \/ ConsumeReady(k)
               PROVE  k.attempt = dispatches[k.id.sequence]
    OBVIOUS
  <2>1. \E i \in DOMAIN live : Correlates(k, live[i])
    BY DEF RecordResult, Resulting, MarkAmbiguous, ResolveNotPerformed, ConsumeReady
  <2>. QED
    BY <2>1 DEF Correlates, LedgerInv, Counted
<1>. QED
  BY <1>1, LedgerInvariant, PTL DEF Spec, OnlyNewestClaimActs

\* A recorded result stays with its delivery until consume_ready moves it,
\* unchanged, to the tombstone.
THEOREM LedgerResultIsFinal == Spec => ResultIsFinal
<1>1. LedgerInv /\ [Next]_vars =>
        [\A i \in DOMAIN live : live[i].state = "ResultReady" =>
           \/ \E j \in DOMAIN live' : live'[j] = live[i]
           \/ tombstones' # <<>> /\ tombstones'[Len(tombstones')] = Remembered(live[i])]_vars
  <2> DEFINE Held(i) ==
        \/ \E j \in DOMAIN live' : live'[j] = live[i]
        \/ tombstones' # <<>> /\ tombstones'[Len(tombstones')] = Remembered(live[i])
  <2> SUFFICES ASSUME LedgerInv, Next, NEW i \in DOMAIN live, live[i].state = "ResultReady"
               PROVE  Held(i)
    OBVIOUS
  <2>1. ASSUME NEW h \in DOMAIN live, NEW e, live[h].state # "ResultReady",
               live' = [live EXCEPT ![h] = e]
        PROVE  Held(i)
    <3>1. i \in DOMAIN live' /\ live'[i] = live[i]
      BY <2>1 DEF LedgerInv, Typed
    <3>. QED
      BY <3>1
  <2>2. CASE PrepareBatch \/ Restart
    BY <2>2 DEF PrepareBatch, Restart
  <2>3. CASE EnqueueBatch
    <3>1. PICK ids \in prepared :
            IF Admissible(ids)
              THEN live' = live \o [m \in DOMAIN ids |-> Queued(ids[m])]
              ELSE UNCHANGED live
      BY <2>3 DEF EnqueueBatch
    <3>2. CASE UNCHANGED live
      BY <3>2
    <3>3. CASE live' = live \o [m \in DOMAIN ids |-> Queued(ids[m])]
      <4>1. ids \in Seq(DeliveryId) /\ live \in Seq(DeliveryEntry)
        BY DEF LedgerInv, Typed
      <4>2. i \in DOMAIN live' /\ live'[i] = live[i]
        BY SMTT(60), <3>3, <4>1
      <4>. QED
        BY <4>2
    <3>. QED
      BY <3>1, <3>2, <3>3
  <2>4. CASE ClaimOldest
    BY <2>1, <2>4 DEF ClaimOldest
  <2>5. ASSUME NEW k \in claims, RecordResult(k) PROVE Held(i)
    BY <2>1, <2>5 DEF RecordResult, Resulting
  <2>6. ASSUME NEW k \in claims, MarkAmbiguous(k) \/ ResolveNotPerformed(k) PROVE Held(i)
    BY <2>1, <2>6 DEF MarkAmbiguous, ResolveNotPerformed
  <2>7. ASSUME NEW k \in claims, ConsumeReady(k) PROVE Held(i)
    <3>1. PICK h \in DOMAIN live :
            /\ live[h].state = "ResultReady"
            /\ tombstones' = Append(IF Len(tombstones) = MaxTombstones
                                      THEN Tail(tombstones) ELSE tombstones,
                                    Remembered(live[h]))
      BY <2>7 DEF ConsumeReady
    <3>2. h = 1 /\ i = 1
      <4>1. \A id : Queued(id).state = "Queued"
        BY DEF Queued
      <4>. QED
        BY <3>1, <4>1 DEF LedgerInv, WellFormed
    <3>3. PICK kept \in Seq(DeliveryTombstone) : tombstones' = Append(kept, Remembered(live[i]))
      <4>1. tombstones \in Seq(DeliveryTombstone) /\ Len(tombstones) \in Nat
        BY SMTT(60) DEF LedgerInv, Typed
      <4>2. CASE Len(tombstones) = MaxTombstones
        <5>1. Tail(tombstones) \in Seq(DeliveryTombstone)
          BY SMTT(60), <4>1, <4>2
        <5>. QED
          BY <3>1, <3>2, <4>2, <5>1
      <4>3. CASE Len(tombstones) # MaxTombstones
        BY <3>1, <3>2, <4>1, <4>3
      <4>. QED
        BY <4>2, <4>3
    <3>4. Len(tombstones') = Len(kept) + 1 /\ tombstones'[Len(kept) + 1] = Remembered(live[i])
          /\ tombstones' # <<>>
      BY SMTT(60), <3>3
    <3>. QED
      BY <3>4
  <2>. QED
    BY <2>2, <2>3, <2>4, <2>5, <2>6, <2>7 DEF Next, Answer, Consume
<1>. QED
  BY <1>1, LedgerInvariant, PTL DEF Spec, ResultIsFinal

----------------------------------------------------------------------------
(* The byte reservation *)

HIDE LedgerAssumption

\* Every nonempty set of naturals has a least element: induction over lengths
\* without an operator parameter.
LEMMA Least ==
  ASSUME NEW T \in SUBSET Nat, T # {}
  PROVE  \E n \in T : \A m \in T : n <= m
<1>1. PICK n \in T : \A m \in T : ~(<<m, n>> \in OpToRel(<, Nat))
  BY NatLessThanWellFounded, WFMin
<1>2. \A m \in T : <<m, n>> \in OpToRel(<, Nat) <=> m < n
  BY SMTT(60) DEF OpToRel
<1>3. \A m \in T : ~(m < n)
  BY <1>1, <1>2
<1>. QED
  BY <1>3, SMTT(60)

\* T holds the running totals of the reservations of the first ids.
Running(ids, T) ==
  /\ T \in [0 .. Len(ids) -> Nat]
  /\ T[0] = 0
  /\ \A i \in 1 .. Len(ids) : T[i] = T[i - 1] + Reservation(ids[i])

LEMMA Reservations ==
  \A id \in DeliveryId : Reservation(id) \in Nat
  BY LedgerAssumption, Ids, SMTT(60) DEF Reservation

\* The same of the first n ids only.
RunningTo(ids, n, T) ==
  /\ T \in [0 .. n -> Nat]
  /\ T[0] = 0
  /\ \A i \in 1 .. n : T[i] = T[i - 1] + Reservation(ids[i])

\* Running totals exist, by induction on the number of ids.
LEMMA RunningExists ==
  ASSUME NEW ids \in Seq(DeliveryId)
  PROVE  \E T : Running(ids, T)
<1>. DEFINE Bad == {n \in 0 .. Len(ids) : ~ \E T : RunningTo(ids, n, T)}
<1>1. Len(ids) \in Nat /\ \A i \in 1 .. Len(ids) : Reservation(ids[i]) \in Nat
  <2>1. Len(ids) \in Nat /\ \A i \in 1 .. Len(ids) : ids[i] \in DeliveryId
    BY SMTT(60)
  <2>. QED
    BY <2>1, Reservations
<1>2. Bad \in SUBSET Nat
  BY <1>1, SMTT(60)
<1>3. ASSUME NEW n \in 0 .. Len(ids), n # 0, NEW T, RunningTo(ids, n - 1, T)
      PROVE  \E U : RunningTo(ids, n, U)
  <2>. DEFINE U == [i \in 0 .. n |-> IF i = n THEN T[n - 1] + Reservation(ids[n]) ELSE T[i]]
  <2>1. /\ n \in Nat /\ n - 1 \in 0 .. n - 1 /\ 0 \in 0 .. n - 1 /\ 0 # n
        /\ \A i \in 0 .. n : i # n => i \in 0 .. n - 1
        /\ \A i \in 1 .. n : i # n => i \in 1 .. n - 1 /\ i - 1 # n /\ i - 1 \in 0 .. n
        /\ n \in 0 .. n /\ 0 \in 0 .. n /\ n - 1 # n /\ n - 1 \in 0 .. n /\ n \in 1 .. Len(ids)
    BY <1>1, <1>3, SMTT(60)
  <2>2. T \in [0 .. n - 1 -> Nat] /\ T[0] = 0
        /\ \A i \in 1 .. n - 1 : T[i] = T[i - 1] + Reservation(ids[i])
    BY <1>3 DEF RunningTo
  <2>3. T[n - 1] + Reservation(ids[n]) \in Nat
    BY <1>1, <2>1, <2>2, SMTT(60)
  <2>4. U \in [0 .. n -> Nat] /\ U[0] = 0
    BY <2>1, <2>2, <2>3
  <2>5. \A i \in 1 .. n : U[i] = U[i - 1] + Reservation(ids[i])
    <3>1. \A i \in 1 .. n : i \in 0 .. n
      BY <2>1, SMTT(60)
    <3>. QED
      BY <2>1, <2>2, <3>1
  <2>. QED
    BY <2>4, <2>5 DEF RunningTo
<1>4. 0 \notin Bad
  <2>1. RunningTo(ids, 0, [i \in 0 .. 0 |-> 0])
    BY SMTT(60) DEF RunningTo
  <2>. QED
    BY <2>1
<1>5. Bad = {}
  <2>1. SUFFICES ASSUME Bad # {} PROVE FALSE
    OBVIOUS
  <2>2. PICK n \in Bad : \A m \in Bad : n <= m
    BY <1>2, <2>1, Least
  <2>3. n \in 0 .. Len(ids) /\ n # 0 /\ ~ \E T : RunningTo(ids, n, T)
    BY <1>4
  <2>4. n - 1 \in 0 .. Len(ids) /\ ~(n <= n - 1)
    BY <1>1, <2>3, SMTT(60)
  <2>5. n - 1 \notin Bad
    BY <2>2, <2>4
  <2>. QED
    BY <1>3, <2>3, <2>4, <2>5
<1>6. Len(ids) \in 0 .. Len(ids)
  BY <1>1, SMTT(60)
<1>. QED
  BY <1>5, <1>6 DEF Running, RunningTo

\* Reserved is the last running total: the recursive function it is defined
\* by is the running total, by induction on the position.
LEMMA ReservedIsTotal ==
  ASSUME NEW ids \in Seq(DeliveryId), NEW T, Running(ids, T)
  PROVE  Reserved(ids) = T[Len(ids)]
<1>. DEFINE N == Len(ids)
            Step(f) == [i \in 0 .. N |-> IF i = 0 THEN 0 ELSE f[i - 1] + Reservation(ids[i])]
            total == CHOOSE f : f = Step(f)
<1>1. N \in Nat
  BY SMTT(60)
<1>2. T = Step(T)
  <2>1. T \in [0 .. N -> Nat] /\ T[0] = 0
    BY DEF Running
  <2>2. ASSUME NEW i \in 0 .. N PROVE T[i] = Step(T)[i]
    <3>1. CASE i = 0
      BY <2>1, <3>1
    <3>2. CASE i # 0
      <4>1. i \in 1 .. N
        BY <1>1, <3>2, SMTT(60)
      <4>. QED
        BY <3>2, <4>1 DEF Running
    <3>. QED
      BY <3>1, <3>2
  <2>. QED
    BY <2>1, <2>2
<1>3. total = Step(total)
  BY <1>2
<1>4. Reserved(ids) = total[N]
  BY DEF Reserved
<1>5. \A i \in 0 .. N : total[i] = IF i = 0 THEN 0 ELSE total[i - 1] + Reservation(ids[i])
  BY <1>3
<1>. DEFINE Bad == {i \in 0 .. N : total[i] # T[i]}
<1>6. Bad \in SUBSET Nat
  BY <1>1, SMTT(60)
<1>. HIDE DEF total
<1>7. Bad = {}
  <2>1. SUFFICES ASSUME Bad # {} PROVE FALSE
    OBVIOUS
  <2>2. PICK i \in Bad : \A m \in Bad : i <= m
    BY <1>6, <2>1, Least
  <2>3. i \in 0 .. N /\ total[i] # T[i]
    OBVIOUS
  <2>4. i # 0
    BY <1>5, <2>3 DEF Running
  <2>5. i \in 1 .. N /\ i - 1 \in 0 .. N /\ ~(i <= i - 1)
    BY <1>1, <2>3, <2>4, SMTT(60)
  <2>6. total[i - 1] = T[i - 1]
    BY <2>2, <2>5
  <2>7. total[i] = T[i - 1] + Reservation(ids[i])
    BY <1>5, <2>3, <2>4, <2>6
  <2>. QED
    BY <2>3, <2>5, <2>7 DEF Running
<1>8. N \in 0 .. N
  BY <1>1, SMTT(60)
<1>. QED
  BY <1>4, <1>7, <1>8

\* The reservation of two batches is the sum of theirs.
LEMMA ReservedConcat ==
  ASSUME NEW s \in Seq(DeliveryId), NEW t \in Seq(DeliveryId)
  PROVE  /\ Reserved(s) \in Nat /\ Reserved(t) \in Nat
         /\ Reserved(s \o t) = Reserved(s) + Reserved(t)
<1>1. PICK T : Running(s, T)
  BY RunningExists
<1>2. PICK U : Running(t, U)
  BY RunningExists
<1>. DEFINE m == Len(s)
            n == Len(t)
            V == [i \in 0 .. m + n |-> IF i <= m THEN T[i] ELSE T[m] + U[i - m]]
<1>3. /\ m \in Nat /\ n \in Nat /\ Len(s \o t) = m + n /\ s \o t \in Seq(DeliveryId)
      /\ \A i \in 1 .. m + n : (s \o t)[i] = IF i <= m THEN s[i] ELSE t[i - m]
  BY SMTT(60)
<1>4. /\ T \in [0 .. m -> Nat] /\ T[0] = 0
      /\ \A i \in 1 .. m : T[i] = T[i - 1] + Reservation(s[i])
  BY <1>1 DEF Running
<1>5. /\ U \in [0 .. n -> Nat] /\ U[0] = 0
      /\ \A i \in 1 .. n : U[i] = U[i - 1] + Reservation(t[i])
  BY <1>2 DEF Running
<1>6. Reserved(s) = T[m] /\ Reserved(t) = U[n] /\ T[m] \in Nat /\ U[n] \in Nat
  <2>1. m \in 0 .. m /\ n \in 0 .. n
    BY <1>3, SMTT(60)
  <2>. QED
    BY <1>1, <1>2, <1>4, <1>5, <2>1, ReservedIsTotal
<1>7. Running(s \o t, V)
  <2>1. V \in [0 .. m + n -> Nat]
    <3>1. ASSUME NEW i \in 0 .. m + n
          PROVE  (IF i <= m THEN T[i] ELSE T[m] + U[i - m]) \in Nat
      <4>1. /\ i <= m => i \in 0 .. m
            /\ ~(i <= m) => i - m \in 0 .. n
        BY <1>3, SMTT(60)
      <4>2. \A j \in 0 .. n : T[m] + U[j] \in Nat
        BY <1>5, <1>6, SMTT(60)
      <4>. QED
        BY <1>4, <4>1, <4>2
    <3>. QED
      BY <3>1
  <2>2. V[0] = 0
    BY <1>3, <1>4, SMTT(60)
  <2>3. ASSUME NEW i \in 1 .. m + n
        PROVE  V[i] = V[i - 1] + Reservation((s \o t)[i])
    <3>1. /\ V[i] = IF i <= m THEN T[i] ELSE T[m] + U[i - m]
          /\ V[i - 1] = IF i - 1 <= m THEN T[i - 1] ELSE T[m] + U[i - 1 - m]
      <4>1. i \in 0 .. m + n /\ i - 1 \in 0 .. m + n
        BY <1>3, SMTT(60)
      <4>. QED
        BY <4>1
    <3>2. CASE i <= m
      <4>1. i \in 1 .. m /\ i - 1 <= m /\ (s \o t)[i] = s[i]
        BY <1>3, <3>2, SMTT(60)
      <4>. QED
        BY <1>4, <3>1, <3>2, <4>1
    <3>3. CASE i = m + 1
      <4>1. /\ ~(i <= m) /\ i - 1 <= m /\ i - 1 = m /\ i - m = 1 /\ 1 \in 1 .. n
            /\ (s \o t)[i] = t[1]
        BY <1>3, <3>3, SMTT(60)
      <4>2. U[1] = 0 + Reservation(t[1])
        <5>1. 1 - 1 = 0
          BY SMTT(60)
        <5>. QED
          BY <1>5, <4>1, <5>1
      <4>3. Reservation(t[1]) \in Nat
        BY <4>1, Reservations, SMTT(60)
      <4>4. V[i] = T[m] + U[1] /\ V[i - 1] = T[m]
        BY <3>1, <4>1
      <4>. QED
        BY <1>6, <4>1, <4>2, <4>3, <4>4, SMTT(60)
    <3>4. CASE i > m + 1
      <4>1. /\ ~(i <= m) /\ ~(i - 1 <= m) /\ i - m \in 1 .. n /\ i - m - 1 = i - 1 - m
            /\ (s \o t)[i] = t[i - m] /\ i - 1 - m \in 0 .. n
        BY <1>3, <3>4, SMTT(60)
      <4>2. U[i - m] = U[i - 1 - m] + Reservation(t[i - m])
        BY <1>5, <4>1
      <4>3. Reservation(t[i - m]) \in Nat /\ U[i - 1 - m] \in Nat
        <5>1. t[i - m] \in DeliveryId
          BY <4>1, SMTT(60)
        <5>. QED
          BY <1>5, <4>1, <5>1, Reservations
      <4>4. V[i] = T[m] + U[i - m] /\ V[i - 1] = T[m] + U[i - 1 - m]
        BY <3>1, <4>1
      <4>. QED
        BY <1>6, <4>1, <4>2, <4>3, <4>4, SMTT(60)
    <3>. QED
      BY <1>3, <3>2, <3>3, <3>4, SMTT(60)
  <2>. QED
    BY <1>3, <2>1, <2>2, <2>3 DEF Running
<1>8. Reserved(s \o t) = V[m + n]
  BY <1>3, <1>7, ReservedIsTotal
<1>9. V[m + n] = T[m] + U[n]
  <2>1. m + n \in 0 .. m + n /\ (m + n) - m = n /\ (m + n <= m => n = 0 /\ m + n = m)
    BY <1>3, SMTT(60)
  <2>2. V[m + n] = IF m + n <= m THEN T[m + n] ELSE T[m] + U[(m + n) - m]
    BY <2>1
  <2>3. T[m] + 0 = T[m]
    BY <1>6, SMTT(60)
  <2>. QED
    BY <1>5, <2>1, <2>2, <2>3
<1>. QED
  BY <1>6, <1>8, <1>9

\* What the oldest id reserves, and what is left without it.
LEMMA ReservedTail ==
  ASSUME NEW s \in Seq(DeliveryId), s # <<>>
  PROVE  /\ Reserved(Tail(s)) \in Nat
         /\ Reserved(s) = Reservation(s[1]) + Reserved(Tail(s))
<1>1. /\ s[1] \in DeliveryId /\ <<s[1]>> \in Seq(DeliveryId) /\ Len(<<s[1]>>) = 1
      /\ <<s[1]>>[1] = s[1] /\ Tail(s) \in Seq(DeliveryId)
  BY SMTT(60)
<1>2. s = <<s[1]>> \o Tail(s)
  BY SMTT(60)
<1>. DEFINE T == [i \in 0 .. 1 |-> IF i = 0 THEN 0 ELSE Reservation(s[1])]
<1>3. Reservation(s[1]) \in Nat
  BY <1>1, Reservations
<1>4. T \in [0 .. 1 -> Nat] /\ T[0] = 0 /\ T[1] = Reservation(s[1])
  BY <1>3, SMTT(60)
<1>5. Running(<<s[1]>>, T)
  <2>1. \A i \in 1 .. 1 : i = 1 /\ i - 1 = 0
    BY SMTT(60)
  <2>2. Reservation(s[1]) = 0 + Reservation(s[1])
    BY <1>3, SMTT(60)
  <2>. QED
    BY <1>1, <1>4, <2>1, <2>2 DEF Running
<1>6. Reserved(<<s[1]>>) = Reservation(s[1])
  BY <1>1, <1>4, <1>5, ReservedIsTotal
<1>. QED
  BY <1>1, <1>2, <1>6, ReservedConcat

\* reserved_bytes is what restore_checked recomputes, within its limit.
ReservedInv == reserved = Reserved(LiveIds) /\ reserved <= MaxReserved

\* The ids of the live deliveries.
LEMMA LiveIdsType ==
  ASSUME LedgerInv
  PROVE  /\ live \in Seq(DeliveryEntry) /\ LiveIds \in Seq(DeliveryId)
         /\ Len(LiveIds) = Len(live) /\ DOMAIN live = 1 .. Len(live) /\ Len(live) \in Nat
         /\ \A i \in 1 .. Len(live) : LiveIds[i] = live[i].id /\ live[i].id \in DeliveryId
<1>1. live \in Seq(DeliveryEntry)
  BY DEF LedgerInv, Typed
<1>2. DOMAIN live = 1 .. Len(live) /\ Len(live) \in Nat
      /\ \A i \in 1 .. Len(live) : live[i] \in DeliveryEntry
  BY <1>1, SMTT(60)
<1>3. \A i \in 1 .. Len(live) : live[i].id \in DeliveryId
  BY <1>2, Entries
<1>4. LiveIds = [i \in 1 .. Len(live) |-> live[i].id]
  BY <1>2 DEF LiveIds
<1>. QED
  BY <1>1, <1>2, <1>3, <1>4, SMTT(60)

\* An operation that rewrites a live delivery under its id.
LEMMA RewriteReserves ==
  ASSUME LedgerInv, ReservedInv, NEW i \in DOMAIN live, NEW e, e.id = live[i].id,
         live' = [live EXCEPT ![i] = e], reserved' = reserved
  PROVE  ReservedInv'
<1>1. DOMAIN live' = DOMAIN live /\ \A j \in DOMAIN live : live'[j].id = live[j].id
  BY DEF LedgerInv, Typed
<1>2. LiveIds' = LiveIds
  BY <1>1 DEF LiveIds
<1>. QED
  BY <1>2 DEF ReservedInv, Reserved

\* enqueue_batch reserves what the batch reserves.
LEMMA EnqueueReserves ==
  ASSUME LedgerInv, ReservedInv, NEW ids \in prepared, Admissible(ids),
         live' = live \o [i \in DOMAIN ids |-> Queued(ids[i])],
         reserved' = reserved + Reserved(ids)
  PROVE  ReservedInv'
<1>. DEFINE new == [i \in DOMAIN ids |-> Queued(ids[i])]
<1>1. ids \in Seq(DeliveryId)
  BY DEF LedgerInv, Typed
<1>2. /\ DOMAIN ids = 1 .. Len(ids) /\ Len(ids) \in Nat
      /\ \A i \in 1 .. Len(ids) : ids[i] \in DeliveryId
  BY <1>1, SMTT(60)
<1>3. \A i \in 1 .. Len(ids) : new[i].id = ids[i]
  BY <1>2 DEF Queued
<1>4. Len(new) = Len(ids) /\ new \in Seq({Queued(ids[i]) : i \in 1 .. Len(ids)})
  BY <1>2, SMTT(60)
<1>5. /\ DOMAIN (live \o new) = 1 .. Len(live) + Len(ids)
      /\ \A i \in 1 .. Len(live) + Len(ids) :
           (live \o new)[i] = IF i <= Len(live) THEN live[i] ELSE new[i - Len(live)]
  BY <1>2, <1>4, LiveIdsType, SMTT(60)
<1>6. /\ LiveIds \o ids \in Seq(DeliveryId)
      /\ DOMAIN (LiveIds \o ids) = 1 .. Len(live) + Len(ids)
      /\ \A i \in 1 .. Len(live) + Len(ids) :
           (LiveIds \o ids)[i] = IF i <= Len(live) THEN LiveIds[i] ELSE ids[i - Len(live)]
  <2>1. \A s \in Seq(DeliveryId), t \in Seq(DeliveryId) :
          /\ s \o t \in Seq(DeliveryId) /\ DOMAIN (s \o t) = 1 .. Len(s) + Len(t)
          /\ \A i \in 1 .. Len(s) + Len(t) :
               (s \o t)[i] = IF i <= Len(s) THEN s[i] ELSE t[i - Len(s)]
    BY SMTT(60)
  <2>2. LiveIds \in Seq(DeliveryId) /\ Len(LiveIds) = Len(live)
    BY LiveIdsType
  <2>3. /\ LiveIds \o ids \in Seq(DeliveryId)
        /\ DOMAIN (LiveIds \o ids) = 1 .. Len(LiveIds) + Len(ids)
        /\ \A i \in 1 .. Len(LiveIds) + Len(ids) :
             (LiveIds \o ids)[i] = IF i <= Len(LiveIds) THEN LiveIds[i]
                                   ELSE ids[i - Len(LiveIds)]
    BY <1>1, <2>1, <2>2
  <2>. QED
    BY <2>2, <2>3
<1>7. LiveIds' = [i \in 1 .. Len(live) + Len(ids) |-> (live \o new)[i].id]
  BY <1>5 DEF LiveIds
<1>8. ASSUME NEW i \in 1 .. Len(live) + Len(ids)
      PROVE  (live \o new)[i].id = (LiveIds \o ids)[i]
  <2>1. /\ i <= Len(live) => i \in 1 .. Len(live)
        /\ ~(i <= Len(live)) => i - Len(live) \in 1 .. Len(ids)
    BY <1>2, LiveIdsType, SMTT(60)
  <2>. QED
    BY <1>3, <1>5, <1>6, <2>1, LiveIdsType
<1>9. LiveIds' = LiveIds \o ids
  <2>1. \A s \in Seq(DeliveryId) : s = [i \in DOMAIN s |-> s[i]]
    BY SMTT(60)
  <2>2. LiveIds \o ids = [i \in 1 .. Len(live) + Len(ids) |-> (LiveIds \o ids)[i]]
    BY <1>6, <2>1
  <2>. QED
    BY <1>7, <1>8, <2>2
<1>10. Reserved(LiveIds \o ids) = Reserved(LiveIds) + Reserved(ids)
  BY <1>1, LiveIdsType, ReservedConcat
<1>11. reserved + Reserved(ids) <= MaxReserved
  BY DEF Admissible
<1>. QED
  BY <1>9, <1>10, <1>11 DEF ReservedInv, Reserved

\* consume_ready gives back what the consumed delivery reserved.
LEMMA ConsumeReserves ==
  ASSUME LedgerInv, ReservedInv, live # <<>>,
         live' = Without(live, 1), reserved' = reserved - Reservation(live[1].id)
  PROVE  ReservedInv'
<1>1. Len(live) \in Nat \ {0} /\ 1 \in 1 .. Len(live) /\ LiveIds # <<>>
  BY LiveIdsType, SMTT(60)
<1>2. /\ Tail(LiveIds) = [j \in 1 .. Len(live) - 1 |-> LiveIds[j + 1]]
      /\ \A j \in 1 .. Len(live) - 1 : ~(j < 1) /\ j + 1 \in 1 .. Len(live)
  <2>1. ASSUME NEW s \in Seq(DeliveryId), s # <<>>
        PROVE  Tail(s) = [j \in 1 .. Len(s) - 1 |-> s[j + 1]]
    <3>1. /\ Tail(s) \in Seq(DeliveryId) /\ DOMAIN Tail(s) = 1 .. Len(s) - 1
          /\ \A j \in 1 .. Len(s) - 1 : Tail(s)[j] = s[j + 1]
      BY <2>1, SMTT(60)
    <3>2. \A r \in Seq(DeliveryId) : r = [j \in DOMAIN r |-> r[j]]
      BY SMTT(60)
    <3>. QED
      BY <3>1, <3>2
  <2>2. \A j \in 1 .. Len(live) - 1 : ~(j < 1) /\ j + 1 \in 1 .. Len(live)
    BY <1>1, SMTT(60)
  <2>3. LiveIds \in Seq(DeliveryId) /\ Len(LiveIds) = Len(live)
    BY LiveIdsType
  <2>4. Tail(LiveIds) = [j \in 1 .. Len(LiveIds) - 1 |-> LiveIds[j + 1]]
    BY <1>1, <2>1, <2>3
  <2>. QED
    BY <2>2, <2>3, <2>4
<1>3. live' = [j \in 1 .. Len(live) - 1 |-> live[j + 1]]
  BY <1>2 DEF Without
<1>4. LiveIds' = Tail(LiveIds)
  BY <1>2, <1>3, LiveIdsType DEF LiveIds
<1>5. /\ Reserved(Tail(LiveIds)) \in Nat
      /\ Reserved(LiveIds) = Reservation(live[1].id) + Reserved(Tail(LiveIds))
  BY <1>1, LiveIdsType, ReservedTail
<1>6. Reservation(live[1].id) \in Nat
  BY <1>1, LiveIdsType, Reservations
<1>7. reserved' = Reserved(Tail(LiveIds)) /\ reserved' <= MaxReserved
  BY <1>5, <1>6, LedgerAssumption, SMTT(60) DEF ReservedInv
<1>. QED
  BY <1>4, <1>7 DEF ReservedInv

\* restore_checked accepts every ledger the operations can build, whatever the
\* limits, the contents and the order of the answers: besides the structure,
\* the recomputed reservation is the exported one and within its limit.
THEOREM LedgerRestoreAccepts == Spec => []RestoreAccepts
<1>1. Init => ReservedInv
  <2>1. ASSUME Init PROVE LiveIds = <<>> /\ reserved = 0
    BY <2>1, SMTT(60) DEF Init, LiveIds
  <2>2. Running(<<>>, [i \in 0 .. 0 |-> 0]) /\ <<>> \in Seq(DeliveryId) /\ Len(<<>>) = 0
    BY SMTT(60) DEF Running
  <2>3. Reserved(<<>>) = 0
    <3>1. [i \in 0 .. 0 |-> 0][0] = 0
      BY SMTT(60)
    <3>. QED
      BY <2>2, <3>1, ReservedIsTotal
  <2>. QED
    BY <2>1, <2>3, LedgerAssumption, SMTT(60) DEF ReservedInv
<1>2. LedgerInv /\ ReservedInv /\ [Next]_vars => ReservedInv'
  <2>. SUFFICES ASSUME LedgerInv, ReservedInv, [Next]_vars
                PROVE  ReservedInv'
    OBVIOUS
  <2>1. CASE UNCHANGED <<live, reserved>>
    <3>1. LiveIds' = LiveIds
      BY <2>1 DEF LiveIds
    <3>. QED
      BY <2>1, <3>1 DEF ReservedInv
  <2>2. CASE PrepareBatch \/ Restart \/ UNCHANGED vars
    BY <2>1, <2>2 DEF PrepareBatch, Restart, vars
  <2>3. CASE EnqueueBatch
    BY <2>1, <2>3, EnqueueReserves DEF EnqueueBatch
  <2>4. CASE ClaimOldest
    <3>1. PICK i \in DOMAIN live, contract \in Contracts :
            live' = [live EXCEPT ![i] =
              [id |-> live[i].id, state |-> "Dispatching", attempt |-> live[i].attempt + 1,
               contract |-> contract, result |-> live[i].result]]
      BY <2>4 DEF ClaimOldest
    <3>. QED
      BY <2>4, <3>1, RewriteReserves DEF ClaimOldest
  <2>5. ASSUME NEW k \in claims, RecordResult(k)
        PROVE  ReservedInv'
    BY <2>5, RewriteReserves DEF RecordResult, Resulting
  <2>6. ASSUME NEW k \in claims, MarkAmbiguous(k) \/ ResolveNotPerformed(k)
        PROVE  ReservedInv'
    BY <2>6, RewriteReserves DEF MarkAmbiguous, ResolveNotPerformed, InState
  <2>7. ASSUME NEW k \in claims, ConsumeReady(k)
        PROVE  ReservedInv'
    <3>1. PICK i \in DOMAIN live :
            /\ live[i].state = "ResultReady" /\ live' = Without(live, i)
            /\ reserved' = reserved - Reservation(live[i].id)
      BY <2>7 DEF ConsumeReady
    <3>2. i = 1
      <4>1. Queued(live[i].id).state = "Queued"
        BY DEF Queued
      <4>. QED
        BY <3>1, <4>1 DEF LedgerInv, WellFormed
    <3>3. live # <<>>
      BY SMTT(60)
    <3>. QED
      BY <3>1, <3>2, <3>3, ConsumeReserves
  <2>. QED
    BY <2>2, <2>3, <2>4, <2>5, <2>6, <2>7 DEF Next, Answer, Consume
<1>3. LedgerInv /\ ReservedInv => RestoreAccepts
  BY DEF LedgerInv, ReservedInv, RestoreAccepts, RestoreChecked
<1>. QED
  BY <1>1, <1>2, <1>3, LedgerInvariant, PTL DEF Spec

=============================================================================
