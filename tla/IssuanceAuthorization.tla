------------------------ MODULE IssuanceAuthorization -----------------------
(***************************************************************************)
(* The authorization-code flow of crates/oid4vci/authorization.rs: pushed  *)
(* authorization request, browser redirect, token request, each with fresh *)
(* client authentication and the token request with a DPoP proof.  The     *)
(* flow does no I/O: a step takes one input, the clock and the source of   *)
(* randomness, and returns the flow and the effects to perform.            *)
(*                                                                         *)
(* A random value is its position in the flow's list of used values, which *)
(* are all different; a correlation identifier is such a value.            *)
(*                                                                         *)
(* The two flows have private functions of the same names; the prefixes    *)
(* Auth and Cred tell the ones of this file from the ones of credential.rs.*)
(***************************************************************************)
EXTENDS IssuanceFoundation

CONSTANT MaxRandom   \* random values a flow may draw: 32 in the code

MaxDpopNonceRetries == 2

AuthStages == {"AwaitingClientAuthentication", "SigningDpop", "AwaitingParResponse",
               "AwaitingAuthorization", "AwaitingTokenResponse", "Complete", "Failed"}
AuthTerminal == {"Complete", "Failed"}

(* The effects, and the result of a step: the flow, what it asks the shell *)
(* to do and the error the caller gets, None for success.                  *)
AuthAsk(kind, id) == [kind |-> kind, id |-> id, nonce |-> None, pop |-> None, code |-> None]
AuthDone(flow, effects) == [flow |-> flow, effects |-> effects, error |-> None]
(* Nothing of a flow that failed is used again but its error and clock.    *)
AuthLatch(flow, error) ==
    [flow |-> [flow EXCEPT !.stage = "Failed", !.failure = error, !.id = 0, !.code = None,
                 !.pop = None, !.retry = 0, !.nonce = None, !.retired = {}, !.pops = {},
                 !.used = 0, !.grant = None],
     effects |-> <<>>, error |-> error]

AuthValidateClock(now) == now > 0

(* count values are drawn one after the other; the source is sound when    *)
(* none of them is zero or was drawn before.                               *)
AuthFreshRandom(flow, count, sound) == sound /\ flow.used + count <= MaxRandom
\* Mutant: every value is recorded twice.
MutantAuthDrawn(flow, count) == [flow EXCEPT !.used = @ + 2 * count]
AuthDrawn(flow, count) == [flow EXCEPT !.used = @ + count]

-----------------------------------------------------------------------------
(* The configuration of a flow.                                            *)

(* request is what the caller brings: a client identifier, a redirect URI  *)
(* and, of the plan, the scope and the authorization endpoint.             *)
NewConfig(flaws) ==
    RequireAll(flaws, <<"client_id", "scope", "redirect_uri", "redirect_path",
                        "endpoint_without_query", "issuer_state">>, "InvalidConfiguration")

FromPlanAndOffer(plan, offer, eligible, flaws) ==
    << Require(/\ offer.issuer = plan.issuer /\ eligible
               /\ plan.configuration \in offer.ids
               /\ offer.server \in {None, plan.server}, "OfferPlanMismatch") >>
    \o NewConfig(flaws)

(* A policy plan is not compared with the server the offer hints at.       *)
FromGenericPlan(plan, offer, eligible, flaws) ==
    << Require(/\ offer.issuer = plan.issuer /\ eligible
               /\ plan.configuration \in offer.ids, "OfferPlanMismatch") >>
    \o NewConfig(flaws)

-----------------------------------------------------------------------------
(* Asking the shell for client authentication towards an endpoint.         *)
ClientAuthStage(flow, purpose, code, retry, sound) ==
    IF ~AuthFreshRandom(flow, 1, sound) THEN AuthLatch(flow, "RandomnessFailure")
    ELSE LET id == flow.used + 1
         IN  AuthDone([AuthDrawn(flow, 1) EXCEPT
                     !.stage = "AwaitingClientAuthentication", !.purpose = purpose,
                     !.id = id, !.code = code, !.retry = retry],
                      << AuthAsk("AcquireWalletClientAuthentication", id) >>)

(* The verifier of the code challenge and the state are the first two      *)
(* random values.  A flow that cannot begin does not exist.                *)
AuthBegin(plan, now, sound) ==
    LET empty == [stage |-> "Failed", failure |-> "UnexpectedInput", plan |-> plan,
                  purpose |-> None, id |-> 0, code |-> None, pop |-> None, retry |-> 0,
                  nonce |-> None, retired |-> {}, pops |-> {}, used |-> 0,
                  last |-> now, grant |-> None]
    IN  IF ~AuthValidateClock(now) THEN AuthLatch(empty, "InvalidClock")
        ELSE IF ~AuthFreshRandom(empty, 2, sound) THEN AuthLatch(empty, "RandomnessFailure")
        ELSE ClientAuthStage([AuthDrawn(empty, 2) EXCEPT !.failure = None], "Par", None, 0, sound)

(* The state of the flow, its second random value.                         *)
StateOf(flow) == 2

\* Mutant: only the current nonce is compared, the retired ones are not.
MutantAuthStaleNonce(flow, nonce) == nonce # None /\ nonce = flow.nonce

(* A nonce of the token endpoint that is current or was current before is  *)
(* refused; the one it replaces is retired.                                *)
AuthStaleNonce(flow, nonce) == nonce # None /\ nonce \in flow.retired \cup {flow.nonce}
RotateTokenEndpointNonce(flow, nonce) ==
    IF nonce = None THEN flow
    ELSE [flow EXCEPT !.nonce = nonce, !.retired = (@ \cup {flow.nonce}) \ {None}]

-----------------------------------------------------------------------------
(* The inputs.  An answer carries the identifier of the request it is for; *)
(* what else can be wrong with it is the set of its flaws.                 *)

AuthValidateTransportBinding(flow, answer) ==
    << Require(answer.id = flow.id /\ "endpoint" \notin answer.flaws, "TransportBindingMismatch") >>

ValidateJsonTransport(answer) ==
    RequireAll(answer.flaws, <<"content_type", "charset">>, "InvalidMediaType")

AuthParseSingleDpopNonce(answer) ==
    RequireAll(answer.flaws, <<"single_nonce", "nonce_characters">>, "DpopNonceInvalid")

ParseOAuthError(answer, error) ==
    RequireAll(answer.flaws, <<"json", "error_code", "no_success_members">>, error)

ValidateCompactJwt(answer, needs) ==
    RequireAll(answer.flaws, needs, "ClientAuthenticationInvalid")

CompactJwtNeeds == << <<"attestation_size", "attestation_segments", "attestation_canonical">>,
                      <<"pop_size", "pop_segments", "pop_canonical">> >>

(* The proof of possession is recorded before the request is built, and a  *)
(* flow never sends one twice.                                             *)
AcceptClientAuthentication(flow, in, sound) ==
    LET draws == IF flow.purpose = "Par" THEN 1 ELSE 2
        checks ==
            << Require(in.id = flow.id, "CorrelationMismatch") >>
            \o RequireAll(in.flaws, <<"purpose", "client_id", "audience", "endpoint">>,
                          "ClientAuthenticationBindingMismatch")
            \o ValidateCompactJwt(in, CompactJwtNeeds[1])
            \o ValidateCompactJwt(in, CompactJwtNeeds[2])
            \o << Require(in.pop \notin flow.pops, "ClientAuthenticationReused"),
                  Require(IF flow.purpose = "Par" THEN flow.code = None /\ flow.retry = 0
                          ELSE flow.code # None, "UnexpectedInput"),
                  Require(AuthFreshRandom(flow, draws, sound), "RandomnessFailure") >>
        id == flow.used + 1
        next == [AuthDrawn(flow, draws) EXCEPT !.pops = @ \cup {in.pop}, !.pop = in.pop, !.id = id]
    IN  IF ~Passes(checks) THEN AuthLatch(flow, FirstError(checks))
        ELSE IF flow.purpose = "Par"
        THEN AuthDone([next EXCEPT !.stage = "AwaitingParResponse"],
                      << [AuthAsk("SendPar", id) EXCEPT !.pop = in.pop] >>)
        ELSE AuthDone([next EXCEPT !.stage = "SigningDpop"],
                      << [AuthAsk("SignDpop", id) EXCEPT !.nonce = flow.nonce] >>)

(* The signature must be over the input that was asked for.                *)
AuthAcceptDpopSignature(flow, in, sound) ==
    LET checks == << Require(in.id = flow.id /\ "signing_input" \notin in.flaws,
                             "DpopSigningResultMismatch"),
                     Require("length" \notin in.flaws, "DpopSignatureInvalid"),
                     Require(AuthFreshRandom(flow, 1, sound), "RandomnessFailure") >>
        id == flow.used + 1
    IN  IF ~Passes(checks) THEN AuthLatch(flow, FirstError(checks))
        ELSE AuthDone([AuthDrawn(flow, 1) EXCEPT !.stage = "AwaitingTokenResponse", !.id = id],
                      << [AuthAsk("SendToken", id) EXCEPT !.nonce = flow.nonce, !.pop = flow.pop,
                                                          !.code = flow.code] >>)

(* The answer to the pushed request opens the browser, whose request lives *)
(* for the time the answer states.                                         *)
ParseParResponse(answer) ==
    RequireAll(answer.flaws, <<"json", "no_error", "request_uri", "expires_in">>,
               "InvalidParResponse")

AcceptParResponse(flow, in, now) ==
    LET checks ==
            AuthValidateTransportBinding(flow, in) \o ValidateJsonTransport(in)
            \o AuthParseSingleDpopNonce(in)
            \o (IF in.status = 201 THEN <<>>
                ELSE ParseOAuthError(in, "InvalidParResponse") \o << Require(FALSE, "ParRejected") >>)
            \o RequireAll(in.flaws, <<"no_store", "no_cache">>, "CachePolicyMissing")
            \o ParseParResponse(in)
            \o << Require(~AuthStaleNonce(flow, in.nonce), "DpopNonceStale") >>
    IN  IF ~Passes(checks) THEN AuthLatch(flow, FirstError(checks))
        ELSE AuthDone([RotateTokenEndpointNonce(flow, in.nonce)
                          EXCEPT !.stage = "AwaitingAuthorization"],
                      << AuthAsk("OpenAuthorization", 0) >>)

(* The callback carries the state, the issuer and a code or an error.      *)
ParseForm(in) == RequireAll(in.flaws, <<"size", "percent_encoding", "distinct_fields">>,
                            "InvalidAuthorizationCallback")
ParseAuthorizationCallback(in) ==
    ParseForm(in)
    \o RequireAll(in.flaws, <<"state_form", "iss_form", "code_form">>, "InvalidAuthorizationCallback")
    \o << Require((in.code = None) = in.denied, "InvalidAuthorizationCallback") >>

AcceptAuthorizationRedirect(flow, in, sound) ==
    LET checks ==
            << Require("redirect_uri" \notin in.flaws, "RedirectMismatch") >>
            \o ParseAuthorizationCallback(in)
            \o << Require(in.state = StateOf(flow), "StateMismatch"),
                  Require(in.issuer = flow.plan.server, "AuthorizationIssuerMismatch"),
                  Require(~in.denied, "AuthorizationDenied") >>
    IN  IF ~Passes(checks) THEN AuthLatch(flow, FirstError(checks))
        ELSE ClientAuthStage(flow, "Token", in.code, 0, sound)

(* The authorization details of a token: absent, or with exactly one entry *)
(* for a credential, which names the configuration and its identifiers.    *)
ParseCredentialIdentifiers(details, plan) ==
    LET entries == IF details = None THEN {} ELSE
                   {i \in DOMAIN details : details[i].type = "openid_credential"}
        Good(entry) == /\ entry.configuration = plan.configuration
                       /\ entry.location \in {None, plan.issuer}
                       /\ entry.identifiers # <<>> /\ IsInjective(entry.identifiers)
        accepted == details = None \/ (Cardinality(entries) = 1 /\ \A i \in entries : Good(details[i]))
    IN  [checks |-> << Require(accepted, "InvalidTokenResponse") >>,
         value |-> IF accepted /\ details # None
                   THEN details[CHOOSE i \in entries : TRUE].identifiers ELSE <<>>]

ParseAccessTokenResponse(in, plan) ==
    RequireAll(in.flaws, <<"json", "no_error", "access_token">>, "InvalidTokenResponse")
    \o << Require(in.token_type = "DPoP", "TokenTypeDowngrade") >>
    \o RequireAll(in.flaws, <<"expires_in", "no_refresh_token", "scope">>, "InvalidTokenResponse")
    \o ParseCredentialIdentifiers(in.details, plan).checks

(* A demand for a new nonce repeats the token request with the same code,  *)
(* at most MaxDpopNonceRetries times.                                      *)
RetryToken(flow, in, sound) ==
    LET checks == << Require(in.nonce # None, "DpopNonceInvalid"),
                     Require(flow.retry < MaxDpopNonceRetries, "DpopNonceRetryLimit"),
                     Require(~AuthStaleNonce(flow, in.nonce), "DpopNonceStale") >>
    IN  IF ~Passes(checks) THEN AuthLatch(flow, FirstError(checks))
        ELSE ClientAuthStage(RotateTokenEndpointNonce(flow, in.nonce), "Token",
                             flow.code, flow.retry + 1, sound)

AcceptTokenResponse(flow, in, now, sound) ==
    LET transport == AuthValidateTransportBinding(flow, in) \o ValidateJsonTransport(in)
                     \o AuthParseSingleDpopNonce(in)
                     \o (IF in.status = 400 THEN ParseOAuthError(in, "InvalidTokenResponse") ELSE <<>>)
        demand == in.status = 400 /\ in.use_dpop_nonce
        checks == << Require(in.status = 200, "TokenRejected") >>
                  \o RequireAll(in.flaws, <<"no_store", "no_cache">>, "CachePolicyMissing")
                  \o << Require(~AuthStaleNonce(flow, in.nonce), "DpopNonceStale") >>
                  \o ParseAccessTokenResponse(in, flow.plan)
        next == RotateTokenEndpointNonce(flow, in.nonce)
    IN  IF ~Passes(transport) THEN AuthLatch(flow, FirstError(transport))
        ELSE IF demand THEN RetryToken(flow, in, sound)
        ELSE IF ~Passes(checks) THEN AuthLatch(flow, FirstError(checks))
        ELSE AuthDone([next EXCEPT !.stage = "Complete",
                     !.grant = [issued |-> now, expires |-> in.expires,
                                identifiers |-> ParseCredentialIdentifiers(in.details, flow.plan).value,
                                plan |-> flow.plan]], <<>>)

-----------------------------------------------------------------------------
(* One step of the flow.                                                   *)

AuthTransition(flow, in, now, sound) ==
    CASE flow.stage = "AwaitingClientAuthentication" /\ in.kind = "WalletClientAuthentication" ->
             AcceptClientAuthentication(flow, in, sound)
      [] flow.stage = "SigningDpop" /\ in.kind = "DpopSignature" ->
           AuthAcceptDpopSignature(flow, in, sound)
      [] flow.stage = "AwaitingParResponse" /\ in.kind = "ParResponse" -> AcceptParResponse(flow, in, now)
      [] flow.stage = "AwaitingAuthorization" /\ in.kind = "AuthorizationRedirect" ->
             AcceptAuthorizationRedirect(flow, in, sound)
      [] flow.stage = "AwaitingTokenResponse" /\ in.kind = "TokenResponse" ->
             AcceptTokenResponse(flow, in, now, sound)
      [] OTHER -> AuthLatch(flow, "UnexpectedInput")

(* The clock is examined before the stage: a clock that went back fails    *)
(* even a flow that is complete.                                           *)
AuthStep(flow, in, now, sound) ==
    IF ~AuthValidateClock(now) \/ now < flow.last THEN AuthLatch(flow, "InvalidClock")
    ELSE LET at == [flow EXCEPT !.last = now]
         IN  IF flow.stage \in AuthTerminal
             THEN [flow |-> at, effects |-> <<>>, error |-> "AlreadyTerminal"]
             ELSE AuthTransition(at, in, now, sound)

IntoToken(flow) == IF flow.stage = "Complete" THEN flow.grant ELSE None

=============================================================================
