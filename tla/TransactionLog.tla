--------------------------- MODULE TransactionLog ---------------------------
(***************************************************************************)
(* The holder's transaction log: an append-only, hash-chained sequence of  *)
(* entries with a count limit and a byte budget (crates/txnlog).           *)
(*                                                                         *)
(* A text is a number: 0 is the empty text, the order of numbers is the    *)
(* byte order of texts, TextBytes gives a text's length, NonCanonicalTexts *)
(* are the ones with surrounding white space or control characters.  The   *)
(* digest is a tuple of exactly the fields that are hashed, so it is       *)
(* injective; the zero hash is the empty tuple.                            *)
(***************************************************************************)
EXTENDS Naturals, Sequences, FiniteSetsExt, Functions

CONSTANTS
    MAX_ENTRIES, MAX_COUNTERPARTY_BYTES, MAX_CLAIM_PATHS_PER_ENTRY, MAX_CLAIM_PATH_BYTES,
    MAX_PAYMENT_PAYEE_BYTES, MAX_ENTRY_BYTES, MAX_AGGREGATE_BYTES,
    ACCOUNTED_ENTRY_FIXED_BYTES,    \* the fixed fields of an entry
    LENGTH_BYTES,                   \* a length prefix or an amount
    TextBytes,                      \* [text -> its length]
    NonCanonicalTexts,              \* texts that validate_text refuses as written
    Currencies                      \* three upper-case letters

EmptyText == 0
ZERO_HASH == <<>>
CurrencyBytes == 3

EmptyLog == [entries |-> <<>>, accountedBytes |-> 0]

-----------------------------------------------------------------------------
(* Fields *)

ValidText(text, max) ==
    /\ text # EmptyText
    /\ TextBytes[text] <= max
    /\ text \notin NonCanonicalTexts

StrictlyIncreasing(s) == \A i \in 1..Len(s) - 1 : s[i] < s[i + 1]

ValidClaimPaths(paths, pathsAreCanonical) ==
    /\ Len(paths) <= MAX_CLAIM_PATHS_PER_ENTRY
    /\ \A i \in DOMAIN paths : ValidText(paths[i], MAX_CLAIM_PATH_BYTES)
    /\ IsInjective(paths)
    /\ pathsAreCanonical => StrictlyIncreasing(paths)

AccountedBytes(entry) ==
    LET PathBytes(i) == LENGTH_BYTES + TextBytes[entry.claimPaths[i]]
        PaymentBytes(i) == 3 * LENGTH_BYTES + TextBytes[entry.payment[i].payee]
                               + TextBytes[entry.payment[i].currency]
    IN  ACCOUNTED_ENTRY_FIXED_BYTES + TextBytes[entry.counterparty]
            + MapThenSumSet(PathBytes, DOMAIN entry.claimPaths)
            + MapThenSumSet(PaymentBytes, DOMAIN entry.payment)

AccountedTombstoneBytes == ACCOUNTED_ENTRY_FIXED_BYTES

(* A payment is a sequence of at most one summary. *)
ValidEntryFields(entry, pathsAreCanonical) ==
    /\ entry.epoch >= 0
    /\ ValidText(entry.counterparty, MAX_COUNTERPARTY_BYTES)
    /\ ValidClaimPaths(entry.claimPaths, pathsAreCanonical)
    /\ entry.kind = "Payment" <=> entry.payment # <<>>
    /\ \A i \in DOMAIN entry.payment :
           LET payment == entry.payment[i]
           IN  /\ entry.claimPaths = <<>>
               /\ ValidText(payment.payee, MAX_PAYMENT_PAYEE_BYTES)
               /\ payment.payee = entry.counterparty
               /\ payment.amount # 0
               /\ ValidText(payment.currency, CurrencyBytes)
               /\ payment.currency \in Currencies
    /\ AccountedBytes(entry) <= MAX_ENTRY_BYTES

RedactedEntryIsCanonical(entry) ==
    /\ entry.epoch = 0
    /\ entry.kind = "Presentation"
    /\ entry.counterparty = EmptyText
    /\ entry.consentHash = ZERO_HASH
    /\ entry.claimPaths = <<>>
    /\ entry.outcome = "Aborted"
    /\ entry.payment = <<>>

HashEntry(seq, prevHash, e) ==
    <<prevHash, seq, e.epoch, e.kind, e.outcome, e.counterparty, e.consentHash,
      e.claimPaths, e.payment>>

-----------------------------------------------------------------------------
(* Operations *)

LogHead(log) ==
    IF log.entries = <<>> THEN ZERO_HASH ELSE log.entries[Len(log.entries)].entryHash

IsExhausted(log) ==
    \/ Len(log.entries) >= MAX_ENTRIES
    \/ log.accountedBytes >= MAX_AGGREGATE_BYTES

(* Mutant: the reserve is not kept for an entry of the largest size. *)
MutantCanGuaranteeMaxEntry(log) == ~IsExhausted(log)

CanGuaranteeMaxEntry(log) ==
    /\ Len(log.entries) < MAX_ENTRIES
    /\ log.accountedBytes + MAX_ENTRY_BYTES <= MAX_AGGREGATE_BYTES

CheckAppend(log, entry) ==
    /\ Len(log.entries) < MAX_ENTRIES
    /\ ValidEntryFields(entry, FALSE)
    /\ log.accountedBytes + AccountedBytes(entry) <= MAX_AGGREGATE_BYTES

Sorted(paths) ==
    CHOOSE s \in [DOMAIN paths -> Range(paths)] :
        /\ Range(s) = Range(paths)
        /\ StrictlyIncreasing(s)

(* The entry as appended, for an entry that CheckAppend admits. *)
Sealed(log, new) ==
    LET entry == [new EXCEPT !.claimPaths = Sorted(new.claimPaths)]
        seq == Len(log.entries)
    IN  [seq |-> seq, epoch |-> entry.epoch, kind |-> entry.kind,
         counterparty |-> entry.counterparty, consentHash |-> entry.consentHash,
         claimPaths |-> entry.claimPaths, outcome |-> entry.outcome,
         payment |-> entry.payment, prevHash |-> LogHead(log),
         entryHash |-> HashEntry(seq, LogHead(log), entry), redacted |-> FALSE]

(* Mutant: the byte budget is charged for the entry's fixed fields only. *)
MutantAppendEntry(log, new) ==
    [entries |-> Append(log.entries, Sealed(log, new)),
     accountedBytes |-> log.accountedBytes + ACCOUNTED_ENTRY_FIXED_BYTES]

AppendEntry(log, new) ==
    [entries |-> Append(log.entries, Sealed(log, new)),
     accountedBytes |-> log.accountedBytes + AccountedBytes(new)]

Tombstone(entry) ==
    [entry EXCEPT !.epoch = 0, !.kind = "Presentation", !.redacted = TRUE,
                  !.counterparty = EmptyText, !.claimPaths = <<>>,
                  !.consentHash = ZERO_HASH, !.outcome = "Aborted", !.payment = <<>>]

(* redact(seq): an unknown or already redacted entry is left alone. *)
Redact(log, seq) ==
    IF seq >= Len(log.entries) \/ log.entries[seq + 1].redacted
    THEN log
    ELSE [entries |-> [log.entries EXCEPT ![seq + 1] = Tombstone(@)],
          accountedBytes |-> (log.accountedBytes - AccountedBytes(log.entries[seq + 1]))
                                 + AccountedTombstoneBytes]

Wipe(log) == EmptyLog

Report(log) ==
    LET Shown == {i \in DOMAIN log.entries : ~log.entries[i].redacted}
    IN  [total |-> Len(log.entries),
         ofKind |-> [kind \in {"Presentation", "Issuance", "Payment", "Transfer"} |->
                        Cardinality({i \in Shown : log.entries[i].kind = kind})],
         redacted |-> Len(log.entries) - Cardinality(Shown),
         counterparties |-> {log.entries[i].counterparty : i \in Shown}]

-----------------------------------------------------------------------------
(* Restoring *)

EntryBytes(entries) ==
    LET Bytes(i) == AccountedBytes(entries[i]) IN MapThenSumSet(Bytes, DOMAIN entries)

ValidEntry(entries, i) ==
    LET entry == entries[i]
    IN  /\ entry.seq = i - 1
        /\ entry.prevHash = IF i = 1 THEN ZERO_HASH ELSE entries[i - 1].entryHash
        /\ entry.entryHash # ZERO_HASH
        /\ IF entry.redacted
           THEN RedactedEntryIsCanonical(entry)
           ELSE /\ ValidEntryFields(entry, TRUE)
                /\ HashEntry(entry.seq, entry.prevHash, entry) = entry.entryHash

ValidEntries(entries, expectedAnchoredHead) ==
    /\ Len(entries) <= MAX_ENTRIES
    /\ \A i \in DOMAIN entries : ValidEntry(entries, i)
    /\ EntryBytes(entries) <= MAX_AGGREGATE_BYTES
    /\ expectedAnchoredHead = IF entries = <<>> THEN ZERO_HASH
                              ELSE entries[Len(entries)].entryHash

(* restore_checked and replace_checked, for entries that ValidEntries admits *)
RestoreChecked(entries) == [entries |-> entries, accountedBytes |-> EntryBytes(entries)]

VerifyIntegrity(log) ==
    /\ ValidEntries(log.entries, LogHead(log))
    /\ EntryBytes(log.entries) = log.accountedBytes

=============================================================================
