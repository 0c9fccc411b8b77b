------------------------- MODULE CredentialEvidence -------------------------
(***************************************************************************)
(* Authentication of a received credential: its issuer is resolved in each *)
(* trust domain, the credential is verified under that issuer's key and    *)
(* checked against the catalogue, and what is stored keeps the evidence    *)
(* (crates/wallet-core, crates/catalogue).                                 *)
(*                                                                         *)
(* An offer is what reaches ingest_credential: the format, the document,   *)
(* the certificate chain beside it and the issuer identity asserted for    *)
(* it.  A core has at least the fields now, trust and key.                 *)
(***************************************************************************)
EXTENDS Checks, SequencesExt, TLC

CONSTANTS
    MAX_SUPPLIED_CERTIFICATES, MAX_TRUST_ANCHORS, MAX_ISSUER_CANDIDATES,
    MAX_PATH_BUILD_STEPS, AnyPolicy,
    MAX_NESTING_DEPTH, MAX_EMBEDDED_DIGESTS,
    IAT_CLOCK_SKEW_SECONDS,
    Catalogue,          \* [type -> [format, service, issuers, mandatory]]
    PidTypes,           \* the types whose portrait is checked
    EvidenceTypes,      \* the types that carry TLS evidence
    HybridTypes,        \* the document types that need a hybrid signature
    MalformedKeys       \* device keys that are no uncompressed point

Path == INSTANCE CertificatePath
Trust == INSTANCE TrustList
Sd == INSTANCE SdJwt
Iso == INSTANCE Mdoc

-----------------------------------------------------------------------------
(* Issuers *)

ServiceOf == [Pid |-> "PidProvider", Attestation |-> "AttestationProvider"]

(* A granted anchor that does not parse is skipped. *)
ParsedAnchorsAt(store, service, now) ==
    SelectSeq(Trust!GrantedAnchorsAt(store, service, now), Path!Parses)

(* The issuer found in a trust domain, as the candidate of that domain. *)
Candidate(found, chain, domain) ==
    [i \in DOMAIN found |->
        [identity |-> found[i].identity, service |-> domain, key |-> found[i].key,
         chain |-> chain, notBefore |-> found[i].notBefore,
         notAfter |-> found[i].notAfter]]

Domains == <<"Pid", "Attestation">>
ResolveCredentialIssuers(core, chain) ==
    FlattenSeq([d \in DOMAIN Domains |->
        Candidate(Path!CheckCredentialIssuer(
                      chain, ParsedAnchorsAt(core.trust, ServiceOf[Domains[d]], core.now),
                      core.now),
                  chain, Domains[d])])

(* Every candidate states the same issuer, in another trust domain. *)
CandidatesAreConsistent(issuers) ==
    /\ issuers # <<>>
    /\ \A i \in DOMAIN issuers : /\ issuers[i].notBefore <= issuers[i].notAfter
                                 /\ issuers[i] = [issuers[1] EXCEPT !.service = issuers[i].service]

(* The key of a status list provider, as a sequence of at most one key. *)
ProviderKey(path) == IF path # <<>> /\ ~path[1][1].isCa THEN <<path[1][1].key>> ELSE <<>>
ResolveStatusProviderKey(core, chain) ==
    ProviderKey(Path!ValidatePath(
        chain, ParsedAnchorsAt(core.trust, "StatusProvider", core.now), core.now))

-----------------------------------------------------------------------------
(* Validity and device binding *)

ValidateAt(validity, now) ==
    <<Require(/\ \A i \in DOMAIN validity.issuedAt :
                     validity.issuedAt[i] <= now + IAT_CLOCK_SKEW_SECONDS
              /\ \A i \in DOMAIN validity.notBefore : validity.notBefore[i] <= now,
              "CredentialNotYetValid"),
      Require(\A i \in DOMAIN validity.expires : validity.expires[i] > now,
              "CredentialExpired")>>

JsonValidity(doc) ==
    [issuedAt |-> doc.control.issuedAt, notBefore |-> doc.control.notBefore,
     expires |-> doc.control.expires]

(* Mutant: a fractional second is dropped from the end of the validity. *)
MutantMdocValidity(doc) ==
    [issuedAt |-> <<Iso!UnixSecondsCeil(doc.mso.signed)>>,
     notBefore |-> <<Iso!UnixSecondsCeil(doc.mso.validFrom)>>,
     expires |-> <<Iso!UnixSeconds(doc.mso.validUntil)>>]

MdocValidity(doc) ==
    [issuedAt |-> <<Iso!UnixSecondsCeil(doc.mso.signed)>>,
     notBefore |-> <<Iso!UnixSecondsCeil(doc.mso.validFrom)>>,
     expires |-> <<Iso!UnixSecondsCeil(doc.mso.validUntil)>>]

MdocDatesInOrder(doc) ==
    ~Iso!Later(doc.mso.signed, doc.mso.validUntil)
        /\ ~Iso!Later(doc.mso.validFrom, doc.mso.validUntil)

(* The confirmed key is a plain public P-256 key, and the wallet's own. *)
SdJwtDeviceBindingMatches(doc, key) ==
    key \notin MalformedKeys /\ doc.control.key = <<key>> /\ "cnf-jwk" \notin doc.flaws

MdocDeviceBindingMatches(doc, key) ==
    key \notin MalformedKeys /\ doc.mso.deviceKey = <<key>> /\ "cose-key" \notin doc.flaws

-----------------------------------------------------------------------------
(* The catalogue *)

NoType == [format |-> "none", service |-> "none", issuers |-> {}, mandatory |-> {}]
TypeOf(id) == IF id \in DOMAIN Catalogue THEN Catalogue[id] ELSE NoType

(* The candidates in the trust domain of a type, in their order. *)
IssuersForType(issuers, type) ==
    LET InDomain(issuer) == issuer.service = TypeOf(type).service
    IN  SelectSeq(issuers, InDomain)

TypeChecks(type, format) ==
    <<Require(type \in DOMAIN Catalogue, "UnknownCredentialType"),
      Require(TypeOf(type).format = format, "CredentialTypeFormatMismatch")>>

(* TLS evidence is well formed and fresh. *)
TlsEvidenceChecks(doc, now) ==
       RequireAll(doc.flaws, <<"evidence-object", "evidence-version", "evidence-commitments",
                               "evidence-times", "evidence-assurance",
                               "evidence-authorization">>, "TlsEvidenceInvalid")
    \o <<Require(\A i \in DOMAIN doc.evidence :
                     /\ doc.evidence[i].observedAt > 0
                     /\ doc.evidence[i].observedAt <= now
                     /\ now < doc.evidence[i].freshUntil, "TlsEvidenceInvalid"),
         Require(doc.evidence # <<>>, "TlsEvidenceInvalid")>>

-----------------------------------------------------------------------------
(* Verification *)

Processed(doc) == Sd!Processed(doc.payload, {doc.disclosures[i] : i \in DOMAIN doc.disclosures})

VerifySdJwtCredential(core, doc, processed, issuers, assertion) ==
    LET type == doc.control.vct
        mine == IssuersForType(issuers, type)
        signed == Then(Sd!Parse(doc) \o Sd!IssuerAlgorithm(doc)
                           \o RequireAll(doc.flaws, <<"es256">>, "UnsupportedAlgorithm")
                           \o Sd!VerifyAndProcess(doc, issuers[1].key, processed),
                       Sd!ValidateIssuerProfile(doc, processed)
                           \o RequireAll(doc.flaws, <<"iss-text">>, "MalformedCredential"))
        typed == TypeChecks(type, "dc+sd-jwt")
                     \o (IF type \in PidTypes
                         THEN RequireAll(doc.flaws, <<"portrait">>, "PidPortraitInvalid")
                         ELSE IF type \in EvidenceTypes THEN TlsEvidenceChecks(doc, core.now)
                         ELSE <<>>)
                     \o <<Require(mine # <<>>, "IssuerServiceMismatch")>>
        issued == <<Require(doc.control.iss = mine[1].identity /\ assertion = mine[1].identity,
                            "IssuerMismatch"),
                    Require(mine[1].identity \in TypeOf(type).issuers, "IssuerNotAllowedForType"),
                    Require(TypeOf(type).mandatory \subseteq DOMAIN processed.value.members,
                            "MandatoryClaimsMissing")>>
        bound == RequireAll(doc.flaws, <<"epoch-claims">>, "MalformedCredential")
                     \o ValidateAt(JsonValidity(doc), core.now)
                     \o <<Require(doc.control.key # <<>>, "DeviceBindingMissing"),
                          Require(SdJwtDeviceBindingMatches(doc, core.key[1]),
                                  "DeviceBindingMismatch")>>
                     \o RequireAll(doc.flaws, <<"status-reference", "status-uri">>,
                                   "UnsupportedStatusReference")
    IN  Then(Then(signed, typed), issued \o bound)

(* A hybrid signature is verified when present and needed for some types. *)
VerifyHybridPqIssuerAuth(doc) ==
    <<Require(doc.hybrid # "partial", "MalformedCredential"),
      Require(doc.hybrid # "invalid", "SignatureInvalid"),
      Require(doc.hybrid = "none" => doc.mso.doctype \notin HybridTypes, "SignatureInvalid")>>

VerifyMdocCredential(core, doc, issuers, assertion) ==
    LET type == doc.mso.doctype
        mine == IssuersForType(issuers, type)
        signed == Iso!VerifyIssuerSigned(doc, issuers[1].key)
                      \o VerifyHybridPqIssuerAuth(doc)
                      \o RequireAll(doc.flaws, <<"version", "digest-algorithm", "doctype">>,
                                    "MalformedCredential")
        typed == TypeChecks(type, "mso_mdoc")
                     \o (IF type \in PidTypes
                         THEN RequireAll(doc.flaws, <<"portrait">>, "PidPortraitInvalid")
                         ELSE <<>>)
                     \o <<Require(mine # <<>>, "IssuerServiceMismatch")>>
        issued == <<Require(assertion = mine[1].identity, "IssuerMismatch"),
                    Require(mine[1].identity \in TypeOf(type).issuers, "IssuerNotAllowedForType"),
                    Require(TypeOf(type).mandatory
                                \subseteq {<<i.namespace, i.element>> : i \in doc.items},
                            "MandatoryClaimsMissing")>>
        bound == <<Require(MdocDatesInOrder(doc), "MalformedCredential")>>
                     \o ValidateAt(MdocValidity(doc), core.now)
                     \o <<Require(doc.mso.deviceKey # <<>>, "DeviceBindingMissing"),
                          Require(MdocDeviceBindingMatches(doc, core.key[1]),
                                  "DeviceBindingMismatch")>>
    IN  Then(Then(signed, typed), issued \o bound)

-----------------------------------------------------------------------------
(* Authentication and storage *)

(* An mdoc is authenticated by the chain it embeds, whatever chain comes    *)
(* beside it.                                                               *)
EvidenceChain(offer) ==
    IF offer.format = "dc+sd-jwt" THEN offer.chain
    ELSE IF offer.doc.x5chain = <<>> THEN <<>> ELSE offer.doc.x5chain[1]

IsSdJwt(offer) == offer.format = "dc+sd-jwt"

AuthenticateChecks(core, offer, processed, issuers) ==
    LET ready == <<Require(core.now > 0, "ClockNotSet"),
                   Require(core.key # <<>>, "DeviceBindingMissing")>>
        decoded == IF IsSdJwt(offer) THEN <<>>
                   ELSE Iso!ParseIssuerSigned(offer.doc)
                            \o RequireAll(offer.doc.flaws, <<"x5chain">>, "MalformedCredential")
        trusted == <<Require(CandidatesAreConsistent(issuers), "UntrustedIssuer")>>
    IN  Then(Then(ready \o decoded, trusted),
             IF IsSdJwt(offer)
             THEN VerifySdJwtCredential(core, offer.doc, processed, issuers, offer.assertion)
             ELSE VerifyMdocCredential(core, offer.doc, issuers, offer.assertion))

(* What is stored for an offer that passes the checks. *)
Authenticated(offer, processed, issuers) ==
    LET doc == offer.doc
        type == IF IsSdJwt(offer) THEN doc.control.vct ELSE doc.mso.doctype
    IN  [holding |-> IF IsSdJwt(offer) THEN Sd!HeldCredential(doc, processed)
                     ELSE [doctype |-> type, issuerSigned |-> doc],
         authenticated |-> IF IsSdJwt(offer) THEN <<processed>> ELSE <<>>,
         validity |-> IF IsSdJwt(offer) THEN JsonValidity(doc) ELSE MdocValidity(doc),
         provenance |-> [format |-> offer.format, raw |-> doc,
                         issuer |-> IssuersForType(issuers, type)[1]]]

(* The checks made on an offer, and what is stored when they hold. *)
Outcome(offer, processed, issuers, checks) ==
    [checks |-> checks,
     stored |-> IF Passes(checks) THEN <<Authenticated(offer, processed, issuers)>> ELSE <<>>]
AuthenticateAgainst(core, offer, processed, issuers) ==
    Outcome(offer, processed, issuers, AuthenticateChecks(core, offer, processed, issuers))
Authenticate(core, offer) ==
    AuthenticateAgainst(core, offer, Processed(offer.doc),
                        ResolveCredentialIssuers(core, EvidenceChain(offer)))

(* The offer a stored credential is authenticated from again. *)
Reoffered(stored) ==
    [format |-> stored.provenance.format, doc |-> stored.provenance.raw,
     chain |-> stored.provenance.issuer.chain,
     assertion |-> stored.provenance.issuer.identity]

(* The same holding is replaced in place; a new one goes to the end. *)
StoreVerifiedCredential(held, new) ==
    LET same == {i \in DOMAIN held : held[i].holding = new.holding}
    IN  IF same = {} THEN Append(held, new) ELSE [held EXCEPT ![Min(same)] = new]

(* Mutant: a held credential is current while its own validity lasts. *)
MutantCredentialIsCurrent(core, stored) == ValidateAt(stored.validity, core.now)

(* A held credential is authenticated anew whenever it is used. *)
StillAuthentic(again, stored) ==
    Then(again.checks, <<Require(again.stored = <<stored>>, "CredentialProvenanceInvalid")>>)
CredentialIsCurrent(core, stored) ==
    Then(ValidateAt(stored.validity, core.now),
         StillAuthentic(Authenticate(core, Reoffered(stored)), stored))

(* eligibility_from_ingestion_error *)
Eligibility(error) ==
    IF error \in {"CredentialExpired", "CredentialNotYetValid"} THEN error
    ELSE "CredentialProvenanceInvalid"

=============================================================================
