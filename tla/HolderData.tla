----------------------------- MODULE HolderData -----------------------------
(***************************************************************************)
(* The holder's data over the life of a wallet: the evidence the shell     *)
(* loads (clock, trusted list, device key, wallet attestation, status      *)
(* lists), the credentials ingested under it, what is selected for a       *)
(* presentation, the transaction log, and the durable checkpoint that      *)
(* outlives the process.                                                   *)
(*                                                                         *)
(* The flows that call these operations are in WalletCore, the store that  *)
(* holds the checkpoint in DurableStore: here a commit is one step.  What  *)
(* the operations promise is at the end, each promise stated against a     *)
(* definition of its own: trust against all orders of the certificates,    *)
(* disclosure against what the verifier computes, plans against all sets   *)
(* of queries, dates against a calendar counted day by day.                *)
(***************************************************************************)
EXTENDS CredentialSelection, DurableCheckpoint

CONSTANTS
    Scenes,                     \* a sequence of the inputs that meet one wallet
    MAX_CACHED_STATUS_LISTS,
    MaxGeneration               \* bound on the number of commits

VARIABLES
    scene,      \* which inputs this wallet meets
    core,       \* the process: lost in a crash
    disk        \* the committed checkpoint, a sequence of at most one

vars == <<scene, core, disk>>

In == Scenes[scene]

FreshCore ==
    [config |-> [client |-> "wallet", keyRef |-> "enclave"],
     now |-> 0, trust |-> Trust!NoList, key |-> <<>>, wua |-> <<>>,
     credentials |-> <<>>, mdocs |-> <<>>, status |-> <<>>,
     session |-> <<>>, operation |-> <<>>,
     log |-> Log!EmptyLog, audit |-> TRUE,
     replay |-> [k \in ReplayKinds |-> <<>>],
     opened |-> FALSE]

Init ==
    /\ scene \in DOMAIN Scenes
    /\ core = FreshCore
    /\ disk = <<>>

-----------------------------------------------------------------------------
(* Evidence *)

(* A clock that goes back is refused and ends a presentation. *)
SetClock(epoch) ==
    core' = IF epoch < core.now THEN [core EXCEPT !.session = <<>>]
            ELSE [core EXCEPT !.now = epoch]

LoadDeviceKey(key) == core' = [core EXCEPT !.key = <<key>>]

LoadWua(wua, providerKey) ==
    /\ Passes(Wua!ParseAndVerify(wua, providerKey, core.now))
    /\ core' = [core EXCEPT !.wua = <<wua>>]

LoadTrustList(list, operatorKey) ==
    /\ Passes(Trust!ParseAndVerify(list, operatorKey, core.now)
                  \o Trust!Update(core.trust, list))
    /\ core' = [core EXCEPT !.trust = <<list>>]

(* Stale lists leave the cache before its limit is applied. *)
StatusChecks(uri, token, key) ==
    Then(<<Require(core.now > 0, "ClockNotSet"),
           Require("status-uri" \notin token.flaws, "InvalidUri"),
           Require(key # <<>>, "UntrustedProvider")>>,
         Status!ParseAndVerify(token, uri, key[1], core.now))

Cached(kept, uri, entry) ==
    IF uri \notin DOMAIN kept /\ Cardinality(DOMAIN kept) >= MAX_CACHED_STATUS_LISTS
    THEN kept ELSE (uri :> entry) @@ kept
LoadStatusList(uri, token, chain) ==
    LET fresh == {u \in DOMAIN core.status : Status!IsFreshAt(core.status[u].list, core.now)}
    IN  /\ Passes(StatusChecks(uri, token, ResolveStatusProviderKey(core, chain)))
        /\ core' = [core EXCEPT !.status =
                       Cached(Restrict(@, fresh), uri,
                              [list |-> Status!Verified(token, core.now), chain |-> chain])]

IngestCredential(offer) ==
    \E new \in Range(Authenticate(core, offer).stored) :
        core' = IF IsSdJwt(offer)
                THEN [core EXCEPT !.credentials = StoreVerifiedCredential(@, new)]
                ELSE [core EXCEPT !.mdocs = StoreVerifiedCredential(@, new)]

-----------------------------------------------------------------------------
(* Presentations *)

(* For a registered relying party the selection is frozen for the consent   *)
(* of this session.                                                         *)
BeginPresentation(request) ==
    /\ request.query # <<>> => Query!Parses(request.query[1])
    /\ \E key \in {ResolveRp(core, request.rp)},
          selection \in {PreparePresentationSelection(core, request)} :
           core' = [core EXCEPT !.session =
                       IF key # <<>> /\ selection.error = "none"
                       THEN <<[rp |-> [chain |-> request.rp, key |-> key[1]], request |-> request,
                               items |-> selection.items, consented |-> FALSE]>>
                       ELSE <<>>]

(* Nothing is signed before the frozen evidence is found current and every  *)
(* status is known; a status list that is missing is fetched first.         *)
Consent(current, gate) ==
    core' = IF ~current \/ gate \in {"Revoked", "Indeterminate"}
            THEN [core EXCEPT !.session = <<>>]
            ELSE IF gate = "Ready" THEN [core EXCEPT !.session[1].consented = TRUE]
            ELSE core
UserConsented ==
    /\ core.session # <<>> /\ ~core.session[1].consented
    /\ Consent(PresentationEvidenceIsCurrent(core, core.session[1].rp, core.session[1].items),
               PresentationStatusGate(core, core.session[1].items))

-----------------------------------------------------------------------------
(* The transaction log *)

(* An audited operation is admitted with room for the largest entry. *)
AdmitOperation ==
    /\ core.operation = <<>>
    /\ core.audit /\ Log!CanGuaranteeMaxEntry(core.log)
    /\ core' = [core EXCEPT !.operation = <<[entry |-> <<>>]>>]

(* check_audit_entry: the operation's own entry is checked before its first *)
(* effect, and the operation ends when it is refused.                       *)
CheckOperation(entry) ==
    /\ core.operation = <<[entry |-> <<>>]>>
    /\ core' = [core EXCEPT !.operation =
                   IF core.audit /\ Log!CheckAppend(core.log, entry @@ [epoch |-> core.now])
                   THEN <<[entry |-> <<entry>>]>> ELSE <<>>]

(* append_audit_entry: a refused append latches the audit fault. *)
CompleteOperation ==
    /\ core.operation # <<>> /\ core.operation[1].entry # <<>>
    /\ \E entry \in {core.operation[1].entry[1] @@ [epoch |-> core.now]} :
           core' = IF Log!CheckAppend(core.log, entry)
                   THEN [core EXCEPT !.log = Log!AppendEntry(@, entry), !.operation = <<>>]
                   ELSE [core EXCEPT !.audit = FALSE, !.operation = <<>>]

RedactTransaction(seq) == core' = [core EXCEPT !.log = Log!Redact(@, seq)]

WipeTransactionLog == core' = [core EXCEPT !.log = Log!Wipe(@), !.audit = TRUE]

(* A nonce is remembered once, in the order of the requests. *)
RememberNonce(kind, nonce) ==
    /\ nonce \notin Range(core.replay[kind])
    /\ core' = [core EXCEPT !.replay[kind] = Append(@, nonce)]

-----------------------------------------------------------------------------
(* Durability *)

Generation == IF disk = <<>> THEN 0 ELSE disk[1].generation

(* The first commit opens an empty store; later ones need a restored core. *)
Commit ==
    /\ Generation < MaxGeneration
    /\ disk = <<>> \/ core.opened
    /\ Passes(ExportChecks(core, Generation + 1))
    /\ disk' = <<ExportDurableCheckpoint(core, Generation + 1)>>
    /\ core' = [core EXCEPT !.opened = TRUE]

RestoreCheckpoint ==
    /\ disk # <<>>
    /\ \E staged \in {Staged(core, disk[1])} :
           /\ Passes(RestoreChecks(core, disk[1], Generation, staged))
           /\ core' = [RestoreDurableCheckpoint(core, disk[1], staged) EXCEPT !.opened = TRUE]

Crash == core' = FreshCore

-----------------------------------------------------------------------------
(* Specification *)

Evidence ==
    \/ \E epoch \in In.clocks : SetClock(epoch)
    \/ \E key \in In.keys : LoadDeviceKey(key)
    \/ \E w \in In.wuas : LoadWua(w.wua, w.providerKey)
    \/ \E l \in In.lists : LoadTrustList(l.list, l.operatorKey)
    \/ \E t \in In.tokens : LoadStatusList(t.uri, t.token, t.chain)
    \/ \E offer \in In.offers : IngestCredential(offer)

Use ==
    \/ \E request \in In.requests : BeginPresentation(request)
    \/ UserConsented
    \/ In.entries # {} /\ AdmitOperation
    \/ \E entry \in In.entries : CheckOperation(entry)
    \/ CompleteOperation
    \/ \E seq \in In.redactions : RedactTransaction(seq)
    \/ In.wipes /\ WipeTransactionLog
    \/ \E n \in In.nonces : RememberNonce(n.kind, n.nonce)

Durability ==
    /\ In.durable
    /\ \/ Commit
       \/ RestoreCheckpoint /\ UNCHANGED disk
       \/ Crash /\ UNCHANGED disk

Next ==
    /\ UNCHANGED scene
    /\ \/ Evidence /\ UNCHANGED disk
       \/ Use /\ UNCHANGED disk
       \/ Durability

Spec == Init /\ [][Next]_vars

-----------------------------------------------------------------------------
(* Trust *)

(* The signatures lead from the leaf to the anchor, and every certificate  *)
(* on the way is an authority within its validity.                         *)
Vouches(path) ==
    /\ \A i \in DOMAIN path : core.now >= path[i].notBefore /\ core.now <= path[i].notAfter
    /\ \A i \in 2..Len(path) : path[i].isCa /\ path[i - 1].signer = path[i].key

Orders(chain) == SetToAllKPermutations(Range(chain)) \ {<<>>}

TypeIn(raw, format) == IF format = "dc+sd-jwt" THEN raw.control.vct ELSE raw.mso.doctype
KeyIn(raw, format) == IF format = "dc+sd-jwt" THEN raw.control.key ELSE raw.mso.deviceKey

TrustedNow(provenance) ==
    LET raw == provenance.raw
        type == TypeOf(TypeIn(raw, provenance.format))
        anchors == Range(Trust!GrantedAnchors(core.trust, ServiceOf[type.service]))
    IN  /\ core.now >= core.trust[1].validFrom /\ core.now <= core.trust[1].validUntil
        /\ \E order \in Orders(provenance.issuer.chain), anchor \in anchors :
               /\ Vouches(Append(order, anchor))
               /\ order[1].key = raw.signer
               /\ \E name \in order[1].names : name.form = "uri" /\ name.labels \in type.issuers
        /\ KeyIn(raw, provenance.format) = core.key
        /\ raw.flaws \subseteq {"status-uri"}     \* for an mdoc, found at the status gate

(* A held credential that is found current is one that the trusted list of *)
(* this moment vouches for: some order of the certificates stored with it  *)
(* leads by signatures from the key that signed it to a granted anchor of  *)
(* the trust domain of its type, in which its issuer may issue that type,  *)
(* and it is bound to the wallet's present key (credential_is_current,     *)
(* authenticate_credential, check_credential_issuer).                      *)
CurrentMeansTrusted ==
    \A stored \in Range(Held(core)) :
        Passes(CredentialIsCurrent(core, stored)) => TrustedNow(stored.provenance)

(* All arrangements of the bundle from this leaf to an anchor that a        *)
(* validator of one given path would accept.                                *)
ValidArrangements(chain, anchors, leaf) ==
    {path \in {Append(order, anchor) : order \in Orders(chain), anchor \in Range(anchors)} :
        path[1] = leaf /\ Path!ValidBuiltPath(path, core.now)}

(* The path that is built from an unordered bundle is the only one the     *)
(* bundle allows, whatever other anchors and certificates are present; and *)
(* a bundle that is exactly one valid path is accepted in every order      *)
(* (explore_paths, validate_path).                                         *)
PathIsUnambiguous ==
    \A chain \in {offer.chain : offer \in In.offers} :
        LET anchors == ParsedAnchorsAt(core.trust, "PidProvider", core.now)
            path == Path!ValidatePath(chain, anchors, core.now)
            Exact(order, anchor) ==
                /\ Len(order) = Len(chain)
                /\ \A cert \in Range(order) : Path!Parses(cert)
                /\ ValidArrangements(chain, anchors, order[1]) = {Append(order, anchor)}
        IN  /\ path # <<>> =>
                   ValidArrangements(chain, anchors, path[1][1]) = Range(path)
            /\ Len(chain) <= MAX_SUPPLIED_CERTIFICATES =>
                   \A order \in Orders(chain), anchor \in Range(anchors) :
                       Exact(order, anchor) => path = <<Append(order, anchor)>>
-----------------------------------------------------------------------------
(* Disclosure *)

Names(path) == SelectSeq(path, LAMBDA element : "name" \in DOMAIN element)

(* The scalars at or below some of the paths of a value.  Positions in an   *)
(* array are left out: they move when elements stay undisclosed.            *)
ScalarsBelow(value, paths) ==
    LET leaves == {leaf \in Sd!LeafPaths(value, <<>>) : \E p \in paths : IsPrefix(p, leaf)}
        Scalars(leaf) == {<<Names(leaf), m.value.value>> :
            m \in {n \in Sd!MatchingValues(value, leaf) : n.value.kind = "scalar"}}
    IN  UNION {Scalars(leaf) : leaf \in leaves}
AllScalars(value) == ScalarsBelow(value, {<<>>})

(* What a verifier computes from the signed payload and these disclosures. *)
VerifierView(doc, digests) ==
    Sd!Processed(doc.payload, {d \in Range(doc.disclosures) : d.digest \in digests})

(* The frozen items of the session that are still held, each with its document. *)
Presented ==
    {p \in UNION {{[item |-> item, held |-> HeldAs(core, item.source)] :
                      item \in Range(core.session[i].items)} : i \in DOMAIN core.session} :
        p.held # <<>>}
PresentedSdJwts == {p \in Presented : p.item.source.format = "dc+sd-jwt"}
PresentedMdocs == {p \in Presented : p.item.source.format = "mso_mdoc"}
Document(presented) == presented.held[1].provenance.raw

(* Consent shows what the verifier gets: processing the presentation with   *)
(* exactly the selected disclosures succeeds (no disclosure hangs from one  *)
(* that is kept back), and the claims it yields are the claims shown, no    *)
(* more and no less (select_disclosures, visible claims; minimised items).  *)
ConsentShowsWhatIsSent ==
    /\ \A p \in PresentedSdJwts :
           LET sent == VerifierView(Document(p), p.item.selection.disclosures)
               whole == p.item.source.authenticated[1].value
           IN  /\ sent.ok
               /\ AllScalars(sent.value) = ScalarsBelow(whole, p.item.selection.revealed)
    /\ \A p \in PresentedMdocs :
           {<<i.namespace, i.element>> : i \in p.item.selection.disclosures}
               = {MdocPath(path) : path \in p.item.selection.revealed}

(* The paths of a credential that a request may ask for: one set of paths   *)
(* for every claim set of the query that is answered.                       *)
RequestedPaths(request, p) ==
    LET Asked(claims) == UNION {AllowedPaths(p.held[1], claims[c]) : c \in DOMAIN claims}
        Named == [c \in DOMAIN request.claims |->
                     [path |-> <<Sd!Name(request.claims[c])>>, values |-> <<>>]]
    IN  IF request.query = <<>> THEN {Asked(Named)}
        ELSE UNION {{Asked(option) : option \in Range(Query!ClaimSelectionOptions(query))} :
                       query \in {q \in Range(request.query[1].credentials) :
                                     <<q.id>> = p.item.query}}

Answers(doc, whole, digests, paths) ==
    ScalarsBelow(whole, paths) \subseteq AllScalars(VerifierView(doc, digests).value)

(* The disclosures are exactly what the request needs: with all of them the *)
(* verifier gets every requested value, and without any one of them, and    *)
(* what hangs from it, a requested value is missing                         *)
(* (select_sdjwt_disclosures, add_sdjwt_disclosure_dependencies).           *)
DisclosesExactlyTheRequest ==
    \A p \in PresentedSdJwts :
        LET doc == Document(p)
            whole == p.item.source.authenticated[1].value
            digests == p.item.selection.disclosures
        IN  \E paths \in RequestedPaths(core.session[1].request, p) :
                /\ Answers(doc, whole, digests, paths)
                /\ \A d \in digests : ~Answers(doc, whole, digests \ {d}, paths)

-----------------------------------------------------------------------------
(* Plans *)

AnswersAll(query, chosen) ==
    \A s \in DOMAIN query.credentialSets[1] :
        query.credentialSets[1][s].required =>
            \E option \in Range(query.credentialSets[1][s].options) :
                Range(option) \subseteq {query.credentials[q].id : q \in chosen}

(* The plan answers every required credential set with queries that have    *)
(* an answer, and no other set of queries that does so is smaller, or as    *)
(* small and earlier; there is no plan only when no set of queries does     *)
(* (credential_selection_plan).                                             *)
PlanIsSmallest ==
    core = FreshCore =>
        \A query \in {r.query[1] : r \in {s \in In.requests : s.query # <<>>}} :
            query.credentialSets # <<>> =>
                \A satisfiable \in SUBSET DOMAIN query.credentials :
                    LET plan == Query!CredentialSelectionPlan(query, satisfiable)
                        good == {c \in SUBSET satisfiable : AnswersAll(query, c)}
                    IN  /\ plan = <<>> <=> good = {}
                        /\ \A i \in DOMAIN plan :
                               /\ plan[i] \in good
                               /\ \A other \in good : Query!Preferred(plan[i], other)

-----------------------------------------------------------------------------
(* Status *)

(* A token that would be accepted again now, under a provider that is       *)
(* trusted now, and gives this index the status Valid.                      *)
ConfirmedNow(reference) ==
    \E t \in In.tokens :
        LET key == ResolveStatusProviderKey(core, t.chain)
        IN  /\ t.uri = reference.uri
            /\ key # <<>>
            /\ Passes(Status!ParseAndVerify(t.token, reference.uri, key[1], core.now))
            /\ Status!StatusAt(t.token, reference.index) = "Valid"

RegisteredNow(rp) ==
    \E order \in Orders(rp.chain),
       anchor \in Range(Trust!GrantedAnchors(core.trust, "RelyingPartyAccess")) :
        Vouches(Append(order, anchor))

(* A presentation goes on only while the relying party has a path to a      *)
(* granted anchor, each of its credentials is trusted now and each of its   *)
(* status references is confirmed by a token that could still be loaded     *)
(* now: a cached list never outlives its token, however late the list was   *)
(* received, and never outlives the trust in its provider                   *)
(* (presentation_evidence_is_current, presentation_status_gate,             *)
(* fresh_until, is_fresh_at).                                               *)
ConsentOnFreshStatus ==
    [][\A i \in DOMAIN core.session :
          core'.session # <<>> /\ ~core.session[i].consented /\ core'.session[1].consented =>
              /\ RegisteredNow(core.session[i].rp)
              /\ \A r \in Range(StatusReferences(core.session[i].items)) : ConfirmedNow(r)
              /\ \A p \in Presented : TrustedNow(p.held[1].provenance)
              /\ Cardinality(Presented) = Len(core.session[i].items)]_vars

-----------------------------------------------------------------------------
(* Dates *)

DaysOf(year) == IF Iso!IsLeap(year) THEN 366 ELSE 365
DaysIn(year) == [month \in 1..12 |-> Iso!MonthDays(year, month)]

(* Seconds from 1970 to the second a date is in, counted by years, months   *)
(* and days.                                                                *)
Instant(date) ==
    LET MonthDays(month) == DaysIn(date.year)[month]
        days == MapThenSumSet(DaysOf, 1970..date.year - 1)
                    + MapThenSumSet(MonthDays, 1..date.month - 1) + date.day - 1
    IN  ((days * 24 + date.hour) * 60 + date.minute - date.offset) * 60 + date.second

(* The time `now`, a whole second, is at or after the date. *)
Reached(date, now) ==
    \/ now > Instant(date)
    \/ now = Instant(date) /\ \A i \in DOMAIN date.fraction : date.fraction[i] = 0

(* A held mdoc is within its validity exactly from the second its validFrom *)
(* is reached until the second its validUntil is reached, with the leap     *)
(* years, zone offsets and fractions of its dates (MdocValidity,            *)
(* unix_seconds_ceil, days_from_civil).                                     *)
ExpiryIsExact ==
    \A stored \in Range(core.mdocs) :
        LET mso == stored.provenance.raw.mso
        IN  Passes(ValidateAt(stored.validity, core.now)) <=>
                /\ Reached(mso.signed, core.now + IAT_CLOCK_SKEW_SECONDS)
                /\ Reached(mso.validFrom, core.now)
                /\ ~Reached(mso.validUntil, core.now)

-----------------------------------------------------------------------------
(* The transaction log *)

(* Whoever was admitted can record: as long as an operation runs, every     *)
(* entry with valid fields fits, whatever was redacted meanwhile, so the    *)
(* audit fault is never latched (can_guarantee_max_entry against            *)
(* check_append and append).                                                *)
AdmittedCanRecord ==
    /\ core.audit
    /\ core.operation # <<>> =>
           /\ ~Log!IsExhausted(core.log)
           /\ \A e \in In.entries :
                  LET entry == e @@ [epoch |-> core.now]
                  IN  Log!ValidEntryFields(entry, FALSE) => Log!CheckAppend(core.log, entry)

(* The ways to lose, exchange, rewrite or reveal an entry of a log. *)
LogEdits(entries) ==
    LET Rewritten(e) == {[e EXCEPT !.counterparty = 2], [e EXCEPT !.epoch = @ + 1],
                         [e EXCEPT !.outcome = "Completed"], [e EXCEPT !.outcome = "Aborted"],
                         [e EXCEPT !.consentHash = <<2>>], [e EXCEPT !.claimPaths = <<2>>],
                         [e EXCEPT !.redacted = ~@]}
    IN  ({RemoveAt(entries, i) : i \in DOMAIN entries}
            \union {[entries EXCEPT ![i] = entries[j], ![j] = entries[i]] :
                        i, j \in DOMAIN entries}
            \union UNION {{[entries EXCEPT ![i] = e] : e \in Rewritten(entries[i])} :
                             i \in DOMAIN entries})
        \ {entries}

(* After any appends, redactions, wipes and restores the log passes its own *)
(* verification, with the bytes it accounts for equal to the bytes of its   *)
(* entries, and its report counts every entry once, as redacted or under    *)
(* its kind; and no log with an entry removed, exchanged, rewritten or      *)
(* brought back from a tombstone passes under the head that was anchored    *)
(* (verify_integrity, report, validate_entries).                            *)
LogIsSound ==
    LET report == Log!Report(core.log)
        OfKind(kind) == report.ofKind[kind]
    IN  /\ Log!VerifyIntegrity(core.log)
        /\ report.total = report.redacted + MapThenSumSet(OfKind, DOMAIN report.ofKind)
        /\ \A edited \in LogEdits(core.log.entries) :
               ~Log!ValidEntries(edited, Log!LogHead(core.log))

-----------------------------------------------------------------------------
(* Durability *)

(* A new process that has been given the same clock, list, key and attestation. *)
Restarted == [FreshCore EXCEPT !.now = core.now, !.trust = core.trust, !.key = core.key,
                               !.wua = core.wua]

SameHolder(restored) ==
    /\ Range(restored.credentials) = Range(core.credentials)
    /\ Range(restored.mdocs) = Range(core.mdocs)
    /\ Len(Held(restored)) = Len(Held(core))
    /\ \A kind \in ReplayKinds : Range(restored.replay[kind]) = Range(core.replay[kind])
    /\ restored.log = core.log

Restorable(wire, staged) ==
    /\ Passes(RestoreChecks(Restarted, wire, wire.generation, staged))
    /\ SameHolder(RestoreDurableCheckpoint(Restarted, wire, staged))

(* Whatever can be exported can be restored by a new process with the same  *)
(* evidence, to the same credentials, replay sets and log: the decoder      *)
(* accepts everything the encoder writes within the limits (durable.rs,     *)
(* export_durable_checkpoint, decode_checkpoint).                           *)
ExportRestores ==
    In.durable /\ Passes(ExportChecks(core, 1)) =>
        \A wire \in {ExportDurableCheckpoint(core, 1)} :
            \A staged \in {Staged(Restarted, wire)} : Restorable(wire, staged)

WithinDurableLimits ==
    /\ Len(Held(core)) <= MAX_CREDENTIALS
    /\ ValidateRecordParts([i \in DOMAIN Held(core) |-> RecordOf(Held(core)[i])])
    /\ \A kind \in ReplayKinds : Len(core.replay[kind]) <= MAX_REPLAY_VALUES

(* Nothing but the evidence and the durable limits stands in the way of an  *)
(* export: with a clock, a valid list, a valid attestation and credentials  *)
(* that are all current, every state that operations lead to is exported,   *)
(* among them one whose last entry was recorded at this very second         *)
(* (require_current_environment, validate_transaction_clock).               *)
ExportAvailable ==
    /\ In.durable /\ core.now > 0
    /\ Trust!IsValidAt(core.trust, core.now)
    /\ \E w \in Range(core.wua) : /\ core.now < w.validUntil /\ w.level = "High"
                                  /\ core.key = <<w.key>> /\ w.key \notin MalformedKeys
    /\ \A stored \in Range(Held(core)) : Passes(CredentialIsCurrent(core, stored))
    /\ WithinDurableLimits
    => Passes(ExportChecks(core, 1))

(* The committed checkpoint never forgets: from one commit to the next, over *)
(* crashes and restores in between, the generation grows by one, the clock   *)
(* and the trusted list do not go back, no replay value is lost, and no      *)
(* entry of the log is lost or changed except by redaction, unless the log   *)
(* was wiped (restore_durable_checkpoint, export_durable_checkpoint).        *)
DurableNeverForgets ==
    [][disk # <<>> /\ disk' # disk =>
          LET old == disk[1]
              new == disk'[1]
          IN  /\ new.generation = old.generation + 1
              /\ new.clockHighWater >= old.clockHighWater
              /\ new.trustSequenceHighWater >= old.trustSequenceHighWater
              /\ \A kind \in ReplayKinds : Range(old.replay[kind]) \subseteq Range(new.replay[kind])
              /\ In.wipes \/ \A i \in DOMAIN old.entries :
                     i \in DOMAIN new.entries
                         /\ new.entries[i] \in {old.entries[i], Log!Tombstone(old.entries[i])}
      ]_vars

=============================================================================
