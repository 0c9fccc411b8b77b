------------------------- MODULE IssuanceCredential -------------------------
(***************************************************************************)
(* The credential flow of crates/oid4vci/credential.rs, which starts from  *)
(* the access token of the authorization flow: a c_nonce, a key            *)
(* attestation and a proof over it, the credential request, and the polls  *)
(* of an issuer that defers.                                               *)
(***************************************************************************)
EXTENDS IssuanceAuthorization

MaxResourceDpopNonceRetries == 1

CredStages == {"AwaitingNonceResponse", "AwaitingKeyAttestation", "SigningCredentialProof",
               "SigningDpop", "AwaitingCredentialResponse", "Deferred", "SigningDeferredDpop",
               "AwaitingDeferredResponse", "Complete", "Failed"}
CredTerminal == {"Complete", "Failed"}

CredAsk(kind, id) == [kind |-> kind, id |-> id, nonce |-> None, c_nonce |-> None,
                      target |-> None, transaction |-> None]
CredDone(flow, effects) == [flow |-> flow, effects |-> effects, error |-> None]
(* Nothing of a flow that failed is used again but its error, its clock    *)
(* and its token.                                                          *)
CredLatch(flow, error) ==
    [flow |-> [flow EXCEPT !.stage = "Failed", !.failure = error, !.id = 0, !.c_nonce = None,
                 !.transaction = None, !.next_poll = 0, !.retry = 0, !.nonce = None,
                 !.retired = {}, !.used = 0, !.issued = None],
     effects |-> <<>>, error |-> error]

CredValidateClock(now) == now > 0
CredFreshRandom(flow, count, sound) == sound /\ flow.used + count <= MaxRandom
\* Mutant: the drawn values are not recorded.
MutantCredDrawn(flow, count) == flow
CredDrawn(flow, count) == [flow EXCEPT !.used = @ + count]

\* Mutant: a token is still valid at its deadline.
MutantValidateTokenLifetime(grant, now) ==
    << Require(grant.issued > 0 /\ now >= grant.issued, "InvalidClock"),
       Require(grant.expires = None \/ now <= grant.issued + grant.expires, "TokenExpired") >>

(* A token is valid from its issue until its lifetime is over.             *)
ValidateTokenLifetime(grant, now) ==
    << Require(grant.issued > 0 /\ now >= grant.issued, "InvalidClock"),
       Require(grant.expires = None \/ now < grant.issued + grant.expires, "TokenExpired") >>

-----------------------------------------------------------------------------
(* The configuration: the grant must be for the plan, and what is asked    *)
(* for must be what the token authorizes.  A selection is None for the     *)
(* configuration, or the chosen credential identifier.                     *)
ValidPidPlan(plan) ==
    plan.binding = IF plan.format = "MsoMdoc" THEN "cose_key" ELSE "jwk"

ValidSelection(grant, selection) ==
    IF grant.identifiers = <<>> THEN selection = None
    ELSE selection \in Range(grant.identifiers)

FromAuthorization(grant, plan, selection) ==
    [checks |-> << Require(grant.plan = plan /\ ValidPidPlan(plan), "PlanGrantMismatch"),
                   Require(ValidSelection(grant, selection), "InvalidSelection") >>,
     value |-> [grant |-> grant, issuer |-> plan.issuer, format |-> plan.format, vct |-> PidVct,
                deferred |-> plan.deferred,
                target |-> IF selection = None THEN plan.configuration ELSE selection]]

\* Mutant: the type the policy expects is not taken over.
MutantFromGenericAuthorization(grant, plan, selection) == FromAuthorization(grant, plan, selection)

(* A plan of the wallet's policy brings the type that it expects.          *)
FromGenericAuthorization(grant, plan, selection) ==
    LET config == FromAuthorization(grant, plan, selection)
    IN  [config EXCEPT !.value = [config.value EXCEPT !.vct = plan.vct]]

CredBegin(config, now, sound) ==
    LET empty == [stage |-> "Failed", failure |-> "UnexpectedInput", config |-> config,
                  id |-> 0, c_nonce |-> None, transaction |-> None,
                  next_poll |-> 0, retry |-> 0, nonce |-> None, retired |-> {},
                  used |-> 0, last |-> now, issued |-> None]
        checks == << Require(CredValidateClock(now), "InvalidClock") >>
                  \o ValidateTokenLifetime(config.grant, now)
                  \o << Require(CredFreshRandom(empty, 1, sound), "RandomnessFailure") >>
    IN  IF ~Passes(checks) THEN CredLatch(empty, FirstError(checks))
        ELSE CredDone([CredDrawn(empty, 1) EXCEPT
                         !.stage = "AwaitingNonceResponse", !.failure = None, !.id = 1],
                      << CredAsk("SendNonce", 1) >>)

CredStaleNonce(flow, nonce) == nonce # None /\ nonce \in flow.retired \cup {flow.nonce}
RotateCredentialEndpointNonce(flow, nonce) ==
    IF nonce = None THEN flow
    ELSE [flow EXCEPT !.nonce = nonce, !.retired = (@ \cup {flow.nonce}) \ {None}]

-----------------------------------------------------------------------------
(* What every answer of an endpoint is held to.                            *)

CredValidateTransportBinding(flow, in) ==
    << Require(in.id = flow.id /\ "endpoint" \notin in.flaws, "TransportBindingMismatch") >>

ValidateCommonResponseHeaders(in) ==
    RequireAll(in.flaws, <<"content_type">>, "InvalidMediaType")
    \o RequireAll(in.flaws, <<"no_store", "no_caching", "pragma">>, "CachePolicyMissing")
    \o RequireAll(in.flaws, <<"identity_encoding">>, "InvalidContentEncoding")

CredParseSingleDpopNonce(in) ==
    RequireAll(in.flaws, <<"single_nonce", "nonce_characters">>, "DpopNonceInvalid")

(* Only a challenge of the DPoP scheme can demand a new nonce.             *)
IsUseDpopNonceChallenge(in) == in.challenge = "use_dpop_nonce"
ParseAuthParameters(in) ==
    RequireAll(in.flaws, <<"single_challenge", "challenge_parameters">>, "DpopNonceInvalid")
ParseUseDpopNonceBody(in) ==
    RequireAll(in.flaws, <<"json", "use_dpop_nonce_error">>, "DpopNonceInvalid")

-----------------------------------------------------------------------------
(* From the nonce to the credential request.                               *)

ParseNonceResponse(in) ==
    RequireAll(in.flaws, <<"json", "no_error", "c_nonce">>, "InvalidNonceResponse")

(* A c_nonce consumed by an earlier credential is refused.                 *)
AcceptNonceResponse(flow, in, seen, sound) ==
    LET checks ==
            CredValidateTransportBinding(flow, in)
            \o RequireAll(in.flaws, <<"size">>, "InvalidNonceResponse")
            \o ValidateCommonResponseHeaders(in)
            \o << Require(in.status = 200, "InvalidStatus"),
                  Require(in.challenge = None, "InvalidNonceResponse") >>
            \o CredParseSingleDpopNonce(in)
            \o << Require(~CredStaleNonce(flow, in.nonce), "DpopNonceStale") >>
            \o ParseNonceResponse(in)
            \o << Require(in.c_nonce \notin seen, "CNonceReplayed"),
                  Require(CredFreshRandom(flow, 1, sound), "RandomnessFailure") >>
        id == flow.used + 1
    IN  IF ~Passes(checks) THEN CredLatch(flow, FirstError(checks))
        ELSE CredDone([CredDrawn(RotateCredentialEndpointNonce(flow, in.nonce), 1) EXCEPT
                     !.stage = "AwaitingKeyAttestation", !.id = id, !.c_nonce = in.c_nonce],
                      << [CredAsk("AcquireKeyAttestation", id) EXCEPT !.c_nonce = in.c_nonce] >>)

(* The attestation lives from its issue to its expiry, states the c_nonce  *)
(* and the highest resistance of key storage and user authentication, and  *)
(* attests exactly the credential key.                                     *)
ValidateKeyAttestation(in, c_nonce, now) ==
    RequireAll(in.flaws, <<"compact", "signature_length", "header", "x5c", "not_self_issued",
                           "payload", "iss">>, "KeyAttestationInvalid")
    \o << Require(in.iat > 0 /\ in.iat <= now /\ now < in.exp, "KeyAttestationInvalid"),
          Require(in.jwt_nonce = c_nonce, "KeyAttestationInvalid") >>
    \o RequireAll(in.flaws, <<"key_storage", "user_authentication", "one_key", "attested_key">>,
                  "KeyAttestationInvalid")

AcceptKeyAttestation(flow, in, now, sound) ==
    LET checks ==
            << Require(/\ in.id = flow.id /\ in.c_nonce = flow.c_nonce
                       /\ {"issuer", "endpoint", "key"} \cap in.flaws = {},
                       "KeyAttestationBindingMismatch") >>
            \o ValidateKeyAttestation(in, flow.c_nonce, now)
            \o << Require(CredFreshRandom(flow, 1, sound), "RandomnessFailure") >>
        id == flow.used + 1
    IN  IF ~Passes(checks) THEN CredLatch(flow, FirstError(checks))
        ELSE CredDone([CredDrawn(flow, 1) EXCEPT !.stage = "SigningCredentialProof", !.id = id],
                      << [CredAsk("SignCredentialProof", id) EXCEPT !.c_nonce = flow.c_nonce] >>)

(* A DPoP proof for the credential endpoint, with its current nonce.       *)
DpopSigningStage(flow, retry, sound) ==
    IF ~CredFreshRandom(flow, 2, sound) THEN CredLatch(flow, "RandomnessFailure")
    ELSE LET id == flow.used + 2
         IN  CredDone([CredDrawn(flow, 2) EXCEPT !.stage = "SigningDpop", !.id = id, !.retry = retry],
                      << [CredAsk("SignDpop", id) EXCEPT !.nonce = flow.nonce] >>)

SignatureChecks(flow, in, mismatch, invalid) ==
    << Require(in.id = flow.id /\ "signing_input" \notin in.flaws, mismatch),
       Require("length" \notin in.flaws, invalid) >>

AcceptCredentialProofSignature(flow, in, sound) ==
    LET checks == SignatureChecks(flow, in, "CredentialProofSigningMismatch",
                                  "CredentialProofSignatureInvalid")
    IN  IF ~Passes(checks) THEN CredLatch(flow, FirstError(checks))
        ELSE DpopSigningStage(flow, 0, sound)

(* The request names the configuration or the chosen identifier and        *)
(* carries the one proof of the flow.                                      *)
CredAcceptDpopSignature(flow, in, sound) ==
    LET checks == SignatureChecks(flow, in, "DpopSigningMismatch", "DpopSignatureInvalid")
                  \o << Require(CredFreshRandom(flow, 1, sound), "RandomnessFailure") >>
        id == flow.used + 1
    IN  IF ~Passes(checks) THEN CredLatch(flow, FirstError(checks))
        ELSE CredDone([CredDrawn(flow, 1) EXCEPT !.stage = "AwaitingCredentialResponse", !.id = id],
                      << [CredAsk("SendCredential", id) EXCEPT !.nonce = flow.nonce,
                            !.c_nonce = flow.c_nonce, !.target = flow.config.target] >>)

-----------------------------------------------------------------------------
(* The credential and its deferral.                                        *)

(* An issued SD-JWT VC is of the expected type and issuer, an mdoc has the *)
(* document type of the PID; its issuer is established later, by trust.    *)
ValidateSdJwt(in, config) ==
    RequireAll(in.flaws, <<"separators", "sd_jwt", "no_key_binding", "issuer_jwt", "alg">>,
               "CredentialFormatMismatch")
    \o << Require(/\ in.format = "DcSdJwt" /\ in.type = config.vct
                  /\ in.issuer = config.issuer, "CredentialFormatMismatch") >>
ValidateMdocPid(in) ==
    RequireAll(in.flaws, <<"base64url", "issuer_signed", "alg">>, "CredentialFormatMismatch")
    \o << Require(in.format = "MsoMdoc" /\ in.type = PidDoctype, "CredentialFormatMismatch") >>

ParseImmediateCredential(in, config) ==
    RequireAll(in.flaws, <<"json">>, "InvalidCredentialResponse")
    \o RequireAll(in.flaws, <<"not_deferred">>, "DeferredIssuanceUnsupported")
    \o RequireAll(in.flaws, <<"no_notification">>, "NotificationUnsupported")
    \o RequireAll(in.flaws, <<"no_reissuance">>, "ReissuanceUnsupported")
    \o RequireAll(in.flaws, <<"no_response_encryption">>, "ResponseEncryptionUnsupported")
    \o RequireAll(in.flaws, <<"credentials">>, "InvalidCredentialResponse")
    \o RequireAll(in.flaws, <<"no_batch">>, "BatchIssuanceUnsupported")
    \o RequireAll(in.flaws, <<"one_credential", "credential_string">>, "InvalidCredentialResponse")
    \o (IF config.format = "MsoMdoc" THEN ValidateMdocPid(in) ELSE ValidateSdJwt(in, config))

ParseDeferredCredential(in) ==
    RequireAll(in.flaws, <<"json", "not_immediate", "transaction_id">>, "InvalidCredentialResponse")
    \o << Require(in.interval > 0, "InvalidCredentialResponse") >>

(* The head that both answers share: binding, size, headers, nonce header, *)
(* and on status 401 the challenge.                                        *)
AnswerHead(flow, in) ==
    CredValidateTransportBinding(flow, in)
    \o RequireAll(in.flaws, <<"size">>, "InvalidCredentialResponse")
    \o ValidateCommonResponseHeaders(in) \o CredParseSingleDpopNonce(in)
    \o (IF in.status = 401 THEN ParseAuthParameters(in) ELSE <<>>)

DemandChecks(flow, in) ==
    << Require(in.nonce # None, "DpopNonceInvalid") >> \o ParseUseDpopNonceBody(in)
    \o << Require(flow.retry < MaxResourceDpopNonceRetries, "DpopNonceRetryLimit"),
          Require(~CredStaleNonce(flow, in.nonce), "DpopNonceStale") >>

AnswerBody(flow, in) ==
    << Require(in.challenge = None, "CredentialRejected"),
       Require(~CredStaleNonce(flow, in.nonce), "DpopNonceStale") >>

Completed(flow, in) ==
    CredDone([flow EXCEPT !.stage = "Complete",
            !.issued = [format |-> in.format, type |-> in.type, issuer |-> in.issuer,
                        c_nonce |-> flow.c_nonce]], <<>>)
Postponed(flow, in, now) ==
    CredDone([flow EXCEPT !.stage = "Deferred", !.transaction = in.transaction,
            !.next_poll = now + in.interval], <<>>)

AcceptCredentialResponse(flow, in, now, sound) ==
    LET demand == in.status = 401 /\ IsUseDpopNonceChallenge(in)
        checks == AnswerHead(flow, in)
                  \o (IF demand THEN DemandChecks(flow, in) ELSE AnswerBody(flow, in)
                       \o CASE in.status = 202 ->
                                  << Require(flow.config.deferred, "DeferredIssuanceUnsupported") >>
                                  \o ParseDeferredCredential(in)
                            [] in.status = 200 -> ParseImmediateCredential(in, flow.config)
                            [] OTHER -> << Require(FALSE, "CredentialRejected") >>)
        next == RotateCredentialEndpointNonce(flow, in.nonce)
    IN  IF ~Passes(checks) THEN CredLatch(flow, FirstError(checks))
        ELSE IF demand THEN DpopSigningStage(next, flow.retry + 1, sound)
        ELSE IF in.status = 202 THEN Postponed(next, in, now)
        ELSE Completed(next, in)

DeferredDpopSigningStage(flow, retry, sound) ==
    LET checks == << Require(flow.config.deferred, "DeferredIssuanceUnsupported"),
                     Require(CredFreshRandom(flow, 2, sound), "RandomnessFailure") >>
        id == flow.used + 2
    IN  IF ~Passes(checks) THEN CredLatch(flow, FirstError(checks))
        ELSE CredDone([CredDrawn(flow, 2) EXCEPT
                         !.stage = "SigningDeferredDpop", !.id = id, !.retry = retry],
                      << [CredAsk("SignDpop", id) EXCEPT !.nonce = flow.nonce] >>)

AcceptDeferredDpopSignature(flow, in, sound) ==
    LET checks == SignatureChecks(flow, in, "DpopSigningMismatch", "DpopSignatureInvalid")
                  \o << Require(flow.config.deferred, "DeferredIssuanceUnsupported"),
                        Require(CredFreshRandom(flow, 1, sound), "RandomnessFailure") >>
        id == flow.used + 1
    IN  IF ~Passes(checks) THEN CredLatch(flow, FirstError(checks))
        ELSE CredDone([CredDrawn(flow, 1) EXCEPT !.stage = "AwaitingDeferredResponse", !.id = id],
                      << [CredAsk("SendDeferred", id) EXCEPT !.nonce = flow.nonce,
                            !.transaction = flow.transaction] >>)

(* A poll that is told to come back must be told so for the same           *)
(* transaction.                                                            *)
AcceptDeferredResponse(flow, in, now, sound) ==
    LET demand == in.status = 401 /\ IsUseDpopNonceChallenge(in)
        checks == << Require(flow.config.deferred, "DeferredIssuanceUnsupported") >>
                  \o AnswerHead(flow, in)
                  \o (IF demand THEN DemandChecks(flow, in) ELSE AnswerBody(flow, in)
                       \o CASE in.status = 202 ->
                                  ParseDeferredCredential(in)
                                  \o << Require(in.transaction = flow.transaction,
                                                "InvalidCredentialResponse") >>
                            [] in.status = 200 -> ParseImmediateCredential(in, flow.config)
                            [] OTHER -> << Require(FALSE, "CredentialRejected") >>)
        next == RotateCredentialEndpointNonce(flow, in.nonce)
    IN  IF ~Passes(checks) THEN CredLatch(flow, FirstError(checks))
        ELSE IF demand THEN DeferredDpopSigningStage(next, flow.retry + 1, sound)
        ELSE IF in.status = 202 THEN Postponed(next, in, now)
        ELSE Completed(next, in)

-----------------------------------------------------------------------------
(* One step of the flow.                                                   *)

CredTransition(flow, in, now, seen, sound) ==
    CASE flow.stage = "AwaitingNonceResponse" /\ in.kind = "NonceResponse" ->
             AcceptNonceResponse(flow, in, seen, sound)
      [] flow.stage = "AwaitingKeyAttestation" /\ in.kind = "KeyAttestation" ->
             AcceptKeyAttestation(flow, in, now, sound)
      [] flow.stage = "SigningCredentialProof" /\ in.kind = "CredentialProofSignature" ->
             AcceptCredentialProofSignature(flow, in, sound)
      [] flow.stage = "SigningDpop" /\ in.kind = "DpopSignature" ->
           CredAcceptDpopSignature(flow, in, sound)
      [] flow.stage = "AwaitingCredentialResponse" /\ in.kind = "CredentialResponse" ->
             AcceptCredentialResponse(flow, in, now, sound)
      [] flow.stage = "Deferred" /\ in.kind = "PollDeferred" -> DeferredDpopSigningStage(flow, 0, sound)
      [] flow.stage = "SigningDeferredDpop" /\ in.kind = "DpopSignature" ->
             AcceptDeferredDpopSignature(flow, in, sound)
      [] flow.stage = "AwaitingDeferredResponse" /\ in.kind = "CredentialResponse" ->
             AcceptDeferredResponse(flow, in, now, sound)
      [] OTHER -> CredLatch(flow, "UnexpectedInput")

\* Mutant: a flow that is over is stepped like any other.
MutantCredStep(flow, in, now, seen, sound) ==
    LET checks == << Require(CredValidateClock(now) /\ now >= flow.last, "InvalidClock") >>
                  \o ValidateTokenLifetime(flow.config.grant, now)
    IN  IF ~Passes(checks) THEN CredLatch(flow, FirstError(checks))
        ELSE CredTransition([flow EXCEPT !.last = now], in, now, seen, sound)

(* Clock and token are examined before the stage: they fail even a flow    *)
(* that is complete.  A poll that comes too early changes nothing.         *)
CredStep(flow, in, now, seen, sound) ==
    LET checks == << Require(CredValidateClock(now) /\ now >= flow.last, "InvalidClock") >>
                  \o ValidateTokenLifetime(flow.config.grant, now)
        at == [flow EXCEPT !.last = now]
        Refused(error) == [flow |-> at, effects |-> <<>>, error |-> error]
    IN  IF ~Passes(checks) THEN CredLatch(flow, FirstError(checks))
        ELSE IF flow.stage \in CredTerminal THEN Refused("AlreadyTerminal")
        ELSE IF in.kind = "PollDeferred" /\ flow.stage = "Deferred" /\ now < flow.next_poll
        THEN Refused("DeferredPollTooEarly")
        ELSE CredTransition(at, in, now, seen, sound)

IntoCredential(flow) == IF flow.stage = "Complete" THEN flow.issued ELSE None

=============================================================================
