-------------------------- MODULE DurableCheckpoint --------------------------
(***************************************************************************)
(* The durable checkpoint: export of the holder's state, its canonical     *)
(* form, decoding and restoring (crates/wallet-core, durable).             *)
(*                                                                         *)
(* A checkpoint on disk is the record of its fields with the set of        *)
(* structural needs its bytes do not meet (flaws).  A document has its     *)
(* rank in the byte order and its size; a certificate counts for one unit  *)
(* of evidence.  The replay values are numbers, in their byte order.  The  *)
(* flag of an interrupted issuance is in WalletCore.                       *)
(***************************************************************************)
EXTENDS CredentialEvidence, SequencesExt

CONSTANTS
    MAX_CREDENTIALS, MAX_RAW_CREDENTIAL_BYTES, MAX_CERTIFICATES_PER_PATH,
    MAX_CREDENTIAL_EVIDENCE_BYTES, MAX_REPLAY_VALUES, MAX_STRUCTURAL_NODES,
    MAX_ENTRIES, MAX_COUNTERPARTY_BYTES, MAX_CLAIM_PATHS_PER_ENTRY, MAX_CLAIM_PATH_BYTES,
    MAX_PAYMENT_PAYEE_BYTES, MAX_ENTRY_BYTES, MAX_AGGREGATE_BYTES,
    ACCOUNTED_ENTRY_FIXED_BYTES, LENGTH_BYTES, TextBytes, NonCanonicalTexts, Currencies

Log == INSTANCE TransactionLog
Wua == INSTANCE WalletAttestation

ReplayKinds == {"presentation", "payment", "issuance", "qes"}

(* The sum of a field over the members of a sequence. *)
Total(numbers) == FoldSeq(LAMBDA n, sum : n + sum, 0, numbers)

-----------------------------------------------------------------------------
(* The environment an export and a restore need *)

ContextChecks(core) ==
    <<Require(core.config.client # "" /\ core.config.keyRef # "", "ContextValue"),
      Require(core.key # <<>>, "DeviceKeyUnavailable"),
      Require(\A i \in DOMAIN core.key : core.key[i] \notin MalformedKeys, "DeviceKeyInvalid")>>

(* The hashes are injective: a context is what is hashed. *)
CurrentContext(core) ==
    [client |-> core.config.client, keyRef |-> core.config.keyRef, key |-> core.key[1]]

RequireCurrentEnvironment(core) ==
    <<Require(core.now > 0, "ClockUnavailable"),
      Require(core.trust # Trust!NoList, "TrustListUnavailable"),
      Require(Trust!IsValidAt(core.trust, core.now), "TrustListExpired"),
      Require(core.wua # <<>>, "WuaUnavailable"),
      Require(\A i \in DOMAIN core.wua :
                  core.key # <<>> /\ Wua!IsValidForAt(core.wua[i], core.key[1], "High", core.now),
              "WuaInvalid")>>

-----------------------------------------------------------------------------
(* Credential records *)

RecordOf(stored) ==
    [format |-> stored.provenance.format, raw |-> stored.provenance.raw,
     identity |-> stored.provenance.issuer.identity, chain |-> stored.provenance.issuer.chain]

OfferOf(record) ==
    [format |-> record.format, doc |-> record.raw, chain |-> record.chain,
     assertion |-> record.identity]

FormatCode == [f \in {"dc+sd-jwt", "mso_mdoc"} |-> IF f = "dc+sd-jwt" THEN 1 ELSE 2]

CmpCanonical(left, right) ==
    \/ FormatCode[left.format] < FormatCode[right.format]
    \/ left.format = right.format /\ left.raw.rank < right.raw.rank

Canonical(records) == \A i \in 1..Len(records) - 1 : CmpCanonical(records[i], records[i + 1])

EvidenceBytes(records) ==
    Total([i \in DOMAIN records |-> records[i].raw.size + Len(records[i].chain)])

ValidateRecordParts(records) ==
    /\ \A i \in DOMAIN records : /\ records[i].raw.size <= MAX_RAW_CREDENTIAL_BYTES
                                 /\ records[i].identity # <<>>
                                 /\ Len(records[i].chain) \in 1..MAX_CERTIFICATES_PER_PATH
    /\ EvidenceBytes(records) <= MAX_CREDENTIAL_EVIDENCE_BYTES

DistinctHoldings(held) ==
    \A i, j \in DOMAIN held : i # j => held[i].holding # held[j].holding

(* Every held credential is authenticated again before it is exported. *)
RecordChecks(core, held, again) ==
    LET records == [i \in DOMAIN held |-> RecordOf(held[i])]
    IN  <<Require(Len(held) <= MAX_CREDENTIALS, "Credentials"),
          Require(DistinctHoldings(core.credentials) /\ DistinctHoldings(core.mdocs),
                  "DuplicateCredential"),
          Require(ValidateRecordParts(records), "CredentialEvidenceBytes"),
          Require(\A i \in DOMAIN held : Passes(again[i].checks), "CredentialInvalid"),
          Require(\A i \in DOMAIN held : again[i].stored = <<held[i]>>,
                  "CredentialEvidenceMismatch"),
          Require(Canonical(SortSeq(records, CmpCanonical)), "DuplicateCredential")>>
Held(core) == core.credentials \o core.mdocs
AuthenticatedRecords(core) ==
    RecordChecks(core, Held(core), [i \in DOMAIN Held(core) |->
                                       Authenticate(core, Reoffered(Held(core)[i]))])

-----------------------------------------------------------------------------
(* Export *)

(* Mutant: the values are written in the order they were met. *)
MutantSortedReplay(values) == values

SortedReplay(values) == SetToSortSeq(Range(values), <)

(* Mutant: an entry of this very second counts as later than the clock. *)
MutantValidateTransactionClock(entries, clockHighWater) ==
    \A i \in DOMAIN entries : entries[i].redacted \/ entries[i].epoch < clockHighWater

ValidateTransactionClock(entries, clockHighWater) ==
    \A i \in DOMAIN entries : entries[i].redacted \/ entries[i].epoch <= clockHighWater

ExportChecks(core, generation) ==
    Then(<<Require(generation # 0, "InvalidGeneration")>>
             \o ContextChecks(core)
             \o RequireCurrentEnvironment(core)
             \o <<Require(core.audit, "AuditLogUnavailable")>>,
         AuthenticatedRecords(core)
             \o <<Require(\A k \in ReplayKinds : Len(core.replay[k]) <= MAX_REPLAY_VALUES,
                          "ReplayValues"),
                  Require(Len(core.log.entries) <= MAX_ENTRIES, "EntryLimitExceeded"),
                  Require(ValidateTransactionClock(core.log.entries, core.now),
                          "AuditTimestampAfterClock"),
                  Require(Log!ValidEntries(core.log.entries, Log!LogHead(core.log)),
                          "TransactionLog")>>)

ExportDurableCheckpoint(core, generation) ==
    LET held == Held(core)
    IN  [flaws |-> {}, generation |-> generation, context |-> CurrentContext(core),
         clockHighWater |-> core.now, trustSequenceHighWater |-> core.trust[1].sequence,
         credentials |-> SortSeq([i \in DOMAIN held |-> RecordOf(held[i])], CmpCanonical),
         replay |-> [k \in ReplayKinds |-> SortedReplay(core.replay[k])],
         entries |-> core.log.entries, head |-> Log!LogHead(core.log)]

-----------------------------------------------------------------------------
(* Decoding *)

(* One node for every key, value and container the encoder writes. *)
EntryNodes(entry) == 23 + Len(entry.claimPaths) + 6 * Len(entry.payment)
RecordNodes(record) == 9 + Len(record.chain)
StructuralNodes(wire) ==
    41 + Total([i \in DOMAIN wire.credentials |-> RecordNodes(wire.credentials[i])])
       + Total([i \in DOMAIN wire.entries |-> EntryNodes(wire.entries[i])])
       + Len(wire.replay["presentation"]) + Len(wire.replay["payment"])
       + Len(wire.replay["issuance"]) + Len(wire.replay["qes"])

ScanNeeds == <<"checkpoint-size", "depth", "no-truncation", "shortest-form", "payload-size",
               "utf8", "container-items", "map-pairs", "sorted-map-keys", "plain-simple-values",
               "one-item">>

(* scan_item and structural_preflight, before anything is decoded *)
StructuralPreflight(wire) ==
    RequireAll(wire.flaws, ScanNeeds, "Structure")
        \o <<Require(StructuralNodes(wire) <= MAX_STRUCTURAL_NODES, "StructuralNodes")>>

DecodeNeeds == <<"exact-maps", "keys-in-order", "magic", "hash-lengths", "known-codes">>

(* The text of an entry's fields; a tombstone has none. *)
PayloadBytes(entry) ==
    TextBytes[entry.counterparty]
        + Total([i \in DOMAIN entry.claimPaths |-> TextBytes[entry.claimPaths[i]]])
        + Total([i \in DOMAIN entry.payment |-> TextBytes[entry.payment[i].payee]
                                                   + TextBytes[entry.payment[i].currency]])

DecodeTransactionEntry(entry) ==
    /\ TextBytes[entry.counterparty] <= MAX_COUNTERPARTY_BYTES
    /\ Len(entry.claimPaths) <= MAX_CLAIM_PATHS_PER_ENTRY
    /\ \A i \in DOMAIN entry.claimPaths : TextBytes[entry.claimPaths[i]] <= MAX_CLAIM_PATH_BYTES
    /\ \A i \in DOMAIN entry.payment :
           TextBytes[entry.payment[i].payee] <= MAX_PAYMENT_PAYEE_BYTES

DecodeReplay(values) == Len(values) <= MAX_REPLAY_VALUES /\ Log!StrictlyIncreasing(values)

DecodeCheckpoint(wire) ==
       StructuralPreflight(wire)
    \o RequireAll(wire.flaws, DecodeNeeds, "Malformed")
    \o RequireAll(wire.flaws, <<"version">>, "UnsupportedVersion")
    \o <<Require(wire.generation # 0, "InvalidGeneration"),
         Require(wire.clockHighWater > 0, "ClockUnavailable"),
         Require(Len(wire.credentials) <= MAX_CREDENTIALS, "ContainerItems"),
         Require(ValidateRecordParts(wire.credentials), "CredentialEvidenceBytes"),
         Require(Canonical(wire.credentials), "DuplicateCredential"),
         Require(\A k \in ReplayKinds : DecodeReplay(wire.replay[k]), "NonCanonical"),
         Require(Len(wire.entries) <= MAX_ENTRIES, "ContainerItems"),
         Require(\A i \in DOMAIN wire.entries : DecodeTransactionEntry(wire.entries[i]),
                 "DecodedPayloadBytes"),
         Require(Total([i \in DOMAIN wire.entries |-> PayloadBytes(wire.entries[i])])
                     <= MAX_AGGREGATE_BYTES, "DecodedPayloadBytes")>>

-----------------------------------------------------------------------------
(* Restore *)

(* The records authenticated anew, in the order of the checkpoint. *)
Staged(core, wire) ==
    [i \in DOMAIN wire.credentials |-> Authenticate(core, OfferOf(wire.credentials[i]))]

StagedCredentials(staged, format) ==
    LET OfThisFormat(outcome) == outcome.stored[1].provenance.format = format
        outcomes == SelectSeq(staged, OfThisFormat)
    IN  [i \in DOMAIN outcomes |-> outcomes[i].stored[1]]

CredentialChecks(wire, staged) ==
    Then(<<Require(\A i \in DOMAIN staged : Passes(staged[i].checks), "CredentialInvalid")>>,
         <<Require(\A i \in DOMAIN staged :
                       RecordOf(staged[i].stored[1]) = wire.credentials[i],
                   "CredentialEvidenceMismatch"),
           Require(DistinctHoldings(StagedCredentials(staged, "dc+sd-jwt")),
                   "DuplicateCredential"),
           Require(DistinctHoldings(StagedCredentials(staged, "mso_mdoc")),
                   "DuplicateCredential")>>)

(* Mutant: the clock and the trusted list may be older than the checkpoint. *)
MutantRollbackChecks(core, wire) == <<>>

RollbackChecks(core, wire) ==
    <<Require(core.now >= wire.clockHighWater, "ClockRollback"),
      Require(core.trust[1].sequence >= wire.trustSequenceHighWater, "TrustListRollback")>>

RestoreChecks(core, wire, generation, staged) ==
    Then(Then(<<Require(generation # 0, "InvalidGeneration")>>
                  \o DecodeCheckpoint(wire)
                  \o <<Require(wire.generation = generation, "GenerationMismatch")>>
                  \o ContextChecks(core),
              <<Require(wire.context = CurrentContext(core), "ContextMismatch")>>
                  \o RequireCurrentEnvironment(core)),
         RollbackChecks(core, wire)
             \o CredentialChecks(wire, staged)
             \o <<Require(ValidateTransactionClock(wire.entries, wire.clockHighWater),
                          "AuditTimestampAfterClock"),
                  Require(Log!ValidEntries(wire.entries, wire.head), "TransactionLog")>>)

(* The atomic commit: flows end, cached status lists go, the clock, the     *)
(* trusted list, the key, the attestation and the audit fault latch stay.   *)
RestoreDurableCheckpoint(core, wire, staged) ==
    [core EXCEPT !.credentials = StagedCredentials(staged, "dc+sd-jwt"),
                 !.mdocs = StagedCredentials(staged, "mso_mdoc"),
                 !.replay = wire.replay,
                 !.log = Log!RestoreChecked(wire.entries),
                 !.session = <<>>,
                 !.operation = <<>>,
                 !.status = <<>>]

=============================================================================
