------------------------- MODULE IssuanceFoundation -------------------------
(***************************************************************************)
(* Discovery for an enrolment: the parsers of crates/oid4vci/foundation.rs *)
(* for a credential offer, the metadata of the credential issuer and the   *)
(* metadata of its authorization servers, over the bounded JSON reader;    *)
(* and the choice of a plan from what was parsed: which configuration of   *)
(* which issuer is enrolled through which authorization server, decided    *)
(* before anything is sent.                                                *)
(*                                                                         *)
(* A document is a record of the values later decisions look at and a set  *)
(* of flaws <<member, need>>: what its text gets wrong.  A parser is the   *)
(* sequence of its checks; the parsed value exists when all of them hold.  *)
(* Two members with one name are told apart by a prefix.  The result of a  *)
(* selection is likewise a record with its checks and the plan.            *)
(***************************************************************************)
EXTENDS Checks, Functions

CONSTANTS None,        \* absent
          PidVct,      \* the type of an SD-JWT PID
          PidDoctype   \* the type of an mdoc PID

Missing(member) == <<"MissingField", member>>
Invalid(member) == <<"InvalidField", member>>
TooLong(member) == <<"ValueTooLong", member>>
Empty(member) == <<"EmptyCollection", member>>
TooMany(member) == <<"TooManyValues", member>>
Duplicate(member) == <<"DuplicateValue", member>>

Unflawed(flaws, need, error) == Require(need \notin flaws, error)

-----------------------------------------------------------------------------
(* bounded_json.rs: one pass over the text before a value is built.        *)

ScanContainers(flaws) ==
    << Unflawed(flaws, "depth", <<"Json", "DepthExceeded">>),
       Unflawed(flaws, "unique_members", <<"Json", "DuplicateMember">>),
       Unflawed(flaws, "entries", <<"Json", "ContainerEntriesExceeded">>) >>

ScanScalars(flaws) ==
    << Unflawed(flaws, "strings", <<"Json", "StringTooLong">>),
       Unflawed(flaws, "syntax", <<"Json", "InvalidJson">>) >>

ParseObject(flaws) ==
    << Unflawed(flaws, "bytes", <<"Json", "InputTooLarge">>),
       Unflawed(flaws, "utf8", <<"Json", "InvalidJson">>) >>
    \o ScanContainers(flaws) \o ScanScalars(flaws)
    \o << Unflawed(flaws, "no_trailer", <<"Json", "InvalidJson">>),
          Unflawed(flaws, "object_root", <<"Json", "NonObjectRoot">>) >>

JsonNeeds == {"bytes", "utf8", "depth", "unique_members", "entries", "strings",
              "syntax", "no_trailer", "object_root"}

-----------------------------------------------------------------------------
(* Identifiers and endpoints: HTTPS URLs in canonical form.                *)

ValidatePort(flaws) ==
    << Unflawed(flaws, "port_digits", "InvalidPort"),
       Unflawed(flaws, "port_range", "InvalidPort"),
       Unflawed(flaws, "port_not_default", "NonCanonical") >>

ValidateRegName(flaws) ==
    << Unflawed(flaws, "host_canonical", "NonCanonical"),
       Unflawed(flaws, "ipv4", "InvalidHost"),
       Unflawed(flaws, "ipv4_canonical", "NonCanonical"),
       Unflawed(flaws, "labels", "InvalidHost") >>

(* An authority is an IPv6 literal or a name: it has the flaws of one.     *)
ValidateAuthority(flaws) ==
    << Unflawed(flaws, "ipv6", "InvalidHost"),
       Unflawed(flaws, "ipv6_canonical", "NonCanonical"),
       Unflawed(flaws, "ipv6_then_port", "InvalidAuthority"),
       Unflawed(flaws, "one_colon", "InvalidHost"),
       Unflawed(flaws, "host", "InvalidHost") >>
    \o ValidatePort(flaws) \o ValidateRegName(flaws)

ValidateUriComponent(flaws, part, error) ==
    << Unflawed(flaws, part.complete_escapes, error),
       Unflawed(flaws, part.canonical_escapes, "NonCanonical"),
       Unflawed(flaws, part.characters, error) >>

PathNeeds == [complete_escapes |-> "path_escapes", canonical_escapes |-> "path_canonical",
              characters |-> "path_characters"]
QueryNeeds == [complete_escapes |-> "query_escapes", canonical_escapes |-> "query_canonical",
               characters |-> "query_characters"]

(* kind is "Identifier", which may have no query, or "Endpoint".           *)
ValidateHttpsUrl(flaws, kind) ==
    << Unflawed(flaws, "nonempty", "Empty"),
       Unflawed(flaws, "short", "TooLong"),
       Unflawed(flaws, "ascii", "NonCanonical"),
       Unflawed(flaws, "https", "NotHttps"),
       Unflawed(flaws, "no_fragment", "FragmentForbidden"),
       Require(kind = "Endpoint" \/ "no_query" \notin flaws, "QueryForbidden"),
       Unflawed(flaws, "authority", "InvalidAuthority"),
       Unflawed(flaws, "no_credentials", "CredentialsForbidden") >>
    \o ValidateAuthority(flaws)
    \o ValidateUriComponent(flaws, PathNeeds, "InvalidPath")
    \o << Unflawed(flaws, "no_dot_segments", "NonCanonical"),
          Unflawed(flaws, "query_nonempty", "NonCanonical") >>
    \o ValidateUriComponent(flaws, QueryNeeds, "InvalidQuery")

-----------------------------------------------------------------------------
(* Members of a document.                                                  *)

RequiredString(flaws, member) ==
    << Unflawed(flaws, <<member, "present">>, Missing(member)),
       Unflawed(flaws, <<member, "string">>, Invalid(member)) >>

BoundedText(flaws, member, allow_empty) ==
    << Require(allow_empty \/ <<member, "nonempty">> \notin flaws, Invalid(member)),
       Unflawed(flaws, <<member, "short">>, TooLong(member)),
       Unflawed(flaws, <<member, "no_control">>, Invalid(member)) >>

BoundedString(flaws, member, allow_empty) ==
    << Unflawed(flaws, <<member, "string">>, Invalid(member)) >>
    \o BoundedText(flaws, member, allow_empty)

(* The checks of a URL member; the error of the document wraps the URL's.  *)
Wrapped(checks, tag) == [i \in DOMAIN checks |-> [checks[i] EXCEPT !.error = tag \o <<@>>]]
Url(flaws, member, kind) ==
    Wrapped(ValidateHttpsUrl(FlawsOf(member, flaws), kind), <<"InvalidUrl", member>>)

(* A URL member that may be absent; its absence is an error when required. *)
MetadataEndpoint(flaws, member, required) ==
    << Require(~required \/ <<member, "present">> \notin flaws, Missing(member)),
       Unflawed(flaws, <<member, "string">>, Invalid(member)) >>
    \o Url(flaws, member, "Endpoint")

(* A list that must be an array, not empty, within its limit, of elements  *)
(* of the right kind, none of them twice.                                  *)
BoundedList(flaws, member) ==
    << Unflawed(flaws, <<member, "array">>, Invalid(member)),
       Unflawed(flaws, <<member, "nonempty_list">>, Empty(member)),
       Unflawed(flaws, <<member, "few">>, TooMany(member)) >>

ParseStringList(flaws, member) ==
    BoundedList(flaws, member) \o BoundedString(flaws, member, FALSE)
    \o << Unflawed(flaws, <<member, "unique">>, Duplicate(member)) >>

ParseIdentifierList(flaws, member) ==
    BoundedList(flaws, member)
    \o << Unflawed(flaws, <<member, "string">>, Invalid(member)) >>
    \o Url(flaws, member, "Identifier")
    \o << Unflawed(flaws, <<member, "unique">>, Duplicate(member)) >>

(* An algorithm is a text (JOSE) or an integer (COSE).                     *)
ParseAlgorithmList(flaws, member) ==
    BoundedList(flaws, member) \o BoundedText(flaws, member, FALSE)
    \o << Unflawed(flaws, <<member, "text_or_integer">>, Invalid(member)),
          Unflawed(flaws, <<member, "unique">>, Duplicate(member)) >>

-----------------------------------------------------------------------------
(* The credential offer.                                                   *)

ParseTransactionCode(flaws) ==
    << Unflawed(flaws, <<"tx_code", "object">>, Invalid("tx_code")),
       Unflawed(flaws, <<"tx_code", "input_mode">>, Invalid("tx_code.input_mode")),
       Unflawed(flaws, <<"tx_code", "length">>, Invalid("tx_code.length")),
       Unflawed(flaws, <<"tx_code", "description_short">>, TooLong("tx_code.description")) >>
    \o BoundedString(flaws, "tx_code.description", TRUE)

OfferIdentifier(flaws, member) ==
    << Unflawed(flaws, <<member, "string">>, Invalid(member)) >>
    \o Wrapped(ValidateHttpsUrl(FlawsOf(member, flaws), "Identifier"), <<"InvalidIssuer">>)

ParseAuthorizationCodeGrant(flaws) ==
    << Unflawed(flaws, <<"authorization_code", "object">>, Invalid("authorization_code")) >>
    \o BoundedString(flaws, "issuer_state", TRUE)
    \o OfferIdentifier(flaws, "authorization_server")

ParsePreAuthorizedCodeGrant(flaws) ==
    << Unflawed(flaws, <<"pre-authorized_code", "object">>, Invalid("pre-authorized_code_grant")),
       Unflawed(flaws, <<"pre-authorized_code", "present">>, Missing("pre-authorized_code")) >>
    \o BoundedString(flaws, "pre-authorized_code", FALSE)
    \o ParseTransactionCode(flaws)
    \o OfferIdentifier(flaws, "pre-authorized.authorization_server")

(* doc.grants is None when the offer has no grants member, else the set of *)
(* the grants it names; the needs of a grant it does not name are met.     *)
ParseCredentialOffer(doc) ==
    LET ids == "credential_configuration_ids"
        explicit == doc.grants # None /\ doc.grants # {}
        code == explicit /\ "authorization_code" \in doc.grants
    IN  [checks |->
            ParseObject(FlawsOf("json", doc.flaws))
            \o << Unflawed(doc.flaws, <<"credential_issuer", "present">>,
                           Missing("credential_issuer")) >>
            \o OfferIdentifier(doc.flaws, "credential_issuer")
            \o << Unflawed(doc.flaws, <<ids, "present">>, Missing(ids)) >>
            \o ParseStringList(doc.flaws, ids)
            \o << Unflawed(doc.flaws, <<"grants", "object">>, Invalid("grants")) >>
            \o ParseAuthorizationCodeGrant(doc.flaws)
            \o ParsePreAuthorizedCodeGrant(doc.flaws),
         value |->
            [issuer |-> doc.issuer, ids |-> doc.ids, authorization_code |-> code,
             server |-> IF code THEN doc.server ELSE None,
             grant_source |-> IF explicit THEN "Explicit"
                              ELSE "AuthorizationServerMetadata"]]

AuthorizationCodeEligible(offer) ==
    offer.authorization_code \/ offer.grant_source = "AuthorizationServerMetadata"

-----------------------------------------------------------------------------
(* The metadata of the credential issuer.                                  *)

ParseKeyAttestationRequirement(flaws) ==
    << Unflawed(flaws, <<"key_attestations_required", "object">>,
                Invalid("key_attestations_required")) >>
    \o ParseStringList(flaws, "key_storage")
    \o ParseStringList(flaws, "user_authentication")
    \o << Unflawed(flaws, <<"preferred_key_storage_status_period", "integer">>,
                   Invalid("preferred_key_storage_status_period")) >>

ParseProofTypes(flaws) ==
    LET algorithms == "proof_signing_alg_values_supported"
    IN  << Unflawed(flaws, <<"proof_types_supported", "object">>, Invalid("proof_types_supported")),
           Unflawed(flaws, <<"proof_types_supported", "nonempty_list">>,
                    Empty("proof_types_supported")),
           Unflawed(flaws, <<"proof_types_supported", "few">>, TooMany("proof_types_supported")) >>
        \o BoundedText(flaws, "proof_type", FALSE)
        \o << Unflawed(flaws, <<"proof_type", "object">>, Invalid("proof_type")),
              Unflawed(flaws, <<algorithms, "present">>, Missing(algorithms)) >>
        \o ParseAlgorithmList(flaws, algorithms)
        \o ParseKeyAttestationRequirement(flaws)

(* The configurations are parsed one like the other, and share the flaws   *)
(* of their texts.  Proof metadata must be there exactly when key binding  *)
(* is advertised.                                                          *)
ParseCredentialConfigurations(flaws, configurations) ==
    << Unflawed(flaws, <<"credential_configuration", "object">>,
                Invalid("credential_configuration")) >>
    \o RequiredString(flaws, "format") \o BoundedText(flaws, "format", FALSE)
    \o BoundedString(flaws, "scope", FALSE)
    \o << Unflawed(flaws, <<"scope", "characters">>, Invalid("scope")) >>
    \o ParseStringList(flaws, "cryptographic_binding_methods_supported")
    \o ParseAlgorithmList(flaws, "credential_signing_alg_values_supported")
    \o ParseProofTypes(flaws)
    \o << Require(\A c \in Range(configurations) : (c.bindings # None) = (c.proofs # None),
                  Invalid("proof_types_supported")) >>
    \o BoundedString(flaws, "doctype", FALSE) \o BoundedString(flaws, "vct", FALSE)

ValidateRequestEncryption(flaws) ==
    LET keys == "credential_request_encryption.jwks.keys"
    IN  << Unflawed(flaws, <<"credential_request_encryption", "object">>,
                    Invalid("credential_request_encryption")),
           Unflawed(flaws, <<"credential_request_encryption", "jwks">>,
                    Missing("credential_request_encryption.jwks")),
           Unflawed(flaws, <<keys, "present">>, Missing(keys)),
           Unflawed(flaws, <<keys, "nonempty_list">>, Empty(keys)),
           Unflawed(flaws, <<keys, "few">>, TooMany(keys)),
           Unflawed(flaws, <<keys, "object">>, Invalid(keys)) >>
        \o RequiredString(flaws, "kid") \o BoundedText(flaws, "kid", FALSE)
        \o << Unflawed(flaws, <<"kid", "unique">>, Duplicate("kid")),
              Unflawed(flaws, <<"enc_values_supported", "present">>,
                       Missing("enc_values_supported")) >>
        \o ParseStringList(flaws, "enc_values_supported")
        \o ParseStringList(flaws, "zip_values_supported")
        \o << Unflawed(flaws, <<"request.encryption_required", "present">>,
                       Missing("encryption_required")) >>

ValidateResponseEncryption(flaws) ==
    << Unflawed(flaws, <<"credential_response_encryption", "object">>,
                Invalid("credential_response_encryption")),
       Unflawed(flaws, <<"response.alg_values_supported", "present">>,
                Missing("alg_values_supported")) >>
    \o ParseStringList(flaws, "response.alg_values_supported")
    \o << Unflawed(flaws, <<"response.enc_values_supported", "present">>,
                   Missing("enc_values_supported")) >>
    \o ParseStringList(flaws, "response.enc_values_supported")
    \o ParseStringList(flaws, "response.zip_values_supported")
    \o << Unflawed(flaws, <<"response.encryption_required", "present">>,
                   Missing("encryption_required")) >>

ValidateBatchIssuance(flaws) ==
    << Unflawed(flaws, <<"batch_credential_issuance", "object">>,
                Invalid("batch_credential_issuance")),
       Unflawed(flaws, <<"batch_size", "present">>, Missing("batch_size")),
       Unflawed(flaws, <<"batch_size", "range">>, Invalid("batch_size")) >>

ValidateNonemptyObjectArray(flaws, member) ==
    BoundedList(flaws, member) \o << Unflawed(flaws, <<member, "objects">>, Invalid(member)) >>

(* doc.servers is None when the issuer names no authorization server: then *)
(* the issuer is its own.  doc.configurations maps the identifiers to the  *)
(* configurations, doc.flaws says what the texts get wrong.                *)
ParseCredentialIssuerMetadata(doc, expected) ==
    LET configurations == "credential_configurations_supported"
        all == doc.configurations
    IN  [checks |->
            ParseObject(FlawsOf("json", doc.flaws))
            \o RequiredString(doc.flaws, "credential_issuer")
            \o Url(doc.flaws, "credential_issuer", "Identifier")
            \o << Require(doc.issuer = expected, <<"IdentifierMismatch">>) >>
            \o ParseIdentifierList(doc.flaws, "authorization_servers")
            \o MetadataEndpoint(doc.flaws, "credential_endpoint", TRUE)
            \o MetadataEndpoint(doc.flaws, "nonce_endpoint", FALSE)
            \o MetadataEndpoint(doc.flaws, "deferred_credential_endpoint", FALSE)
            \o MetadataEndpoint(doc.flaws, "notification_endpoint", FALSE)
            \o ValidateRequestEncryption(doc.flaws)
            \o ValidateResponseEncryption(doc.flaws)
            \o ValidateBatchIssuance(doc.flaws)
            \o ValidateNonemptyObjectArray(doc.flaws, "display")
            \o << Unflawed(doc.flaws, <<configurations, "present">>, Missing(configurations)),
                  Unflawed(doc.flaws, <<configurations, "object">>, Invalid(configurations)),
                  Require(DOMAIN all # {}, Empty(configurations)),
                  Unflawed(doc.flaws, <<configurations, "few">>, TooMany(configurations)) >>
            \o BoundedText(doc.flaws, "credential_configuration_id", FALSE)
            \o ParseCredentialConfigurations(doc.flaws, all),
         value |->
            [issuer |-> doc.issuer,
             servers |-> IF doc.servers = None THEN <<doc.issuer>> ELSE doc.servers,
             nonce_endpoint |-> doc.nonce_endpoint,
             deferred_endpoint |-> doc.deferred_endpoint,
             request_encryption_required |-> doc.request_encryption_required,
             response_encryption_required |-> doc.response_encryption_required,
             configurations |-> all]]

-----------------------------------------------------------------------------
(* The metadata of an authorization server.                                *)

(* A grant type list that is absent has the default of the code, the other *)
(* absent lists are empty; absent scopes promise nothing and allow all.    *)
ParseAuthorizationServerMetadata(doc, expected) ==
    LET grants == IF doc.grant_types = None THEN {"authorization_code", "implicit"}
                  ELSE doc.grant_types
    IN  [checks |->
            ParseObject(FlawsOf("json", doc.flaws))
            \o RequiredString(doc.flaws, "issuer")
            \o Url(doc.flaws, "issuer", "Identifier")
            \o << Require(doc.issuer = expected, <<"IdentifierMismatch">>) >>
            \o MetadataEndpoint(doc.flaws, "authorization_endpoint", FALSE)
            \o MetadataEndpoint(doc.flaws, "token_endpoint", FALSE)
            \o MetadataEndpoint(doc.flaws, "pushed_authorization_request_endpoint", FALSE)
            \o MetadataEndpoint(doc.flaws, "jwks_uri", FALSE)
            \o << Unflawed(doc.flaws, <<"response_types_supported", "present">>,
                           Missing("response_types_supported")) >>
            \o ParseStringList(doc.flaws, "response_types_supported")
            \o ParseStringList(doc.flaws, "grant_types_supported")
            \o ParseStringList(doc.flaws, "scopes_supported")
            \o << Unflawed(doc.flaws, <<"scopes_supported", "characters">>,
                           Invalid("scopes_supported")) >>
            \o ParseStringList(doc.flaws, "code_challenge_methods_supported")
            \o ParseStringList(doc.flaws, "dpop_signing_alg_values_supported")
            \o << Unflawed(doc.flaws, <<"require_pushed_authorization_requests", "boolean">>,
                           Invalid("require_pushed_authorization_requests")),
                  Unflawed(doc.flaws,
                           <<"authorization_response_iss_parameter_supported", "boolean">>,
                           Invalid("authorization_response_iss_parameter_supported")) >>,
         value |->
            [issuer |-> doc.issuer, scopes |-> doc.scopes,
             authorization_endpoint |-> doc.authorization_endpoint,
             token_endpoint |-> doc.token_endpoint,
             par_endpoint |-> doc.par_endpoint,
             authorization_code |-> "authorization_code" \in grants,
             response_type_code |-> "code" \in doc.response_types,
             par |-> doc.par_endpoint,
             pkce_s256 |-> "S256" \in doc.challenge_methods,
             dpop_es256 |-> "ES256" \in doc.dpop_algorithms,
             response_issuer |-> doc.response_issuer]]

-----------------------------------------------------------------------------
(* The choice of a plan. *)

(* The configuration an identifier stands for, and one that has nothing.   *)
NoConfiguration == [format |-> None, scope |-> None, bindings |-> None, algorithms |-> None,
                    proofs |-> None, doctype |-> None, vct |-> None]
ConfigurationOf(issuer, id) ==
    IF id \in DOMAIN issuer.configurations THEN issuer.configurations[id] ELSE NoConfiguration

(* A list that is absent contains nothing.                                 *)
Lists(list, value) == list # None /\ value \in list

SupportsAutoSelectedAuthorizationCode(server) ==
    /\ server.authorization_code /\ server.response_type_code /\ server.par
    /\ server.pkce_s256 /\ server.dpop_es256 /\ server.response_issuer

\* Mutant: the scopes of the server are not looked at.
MutantAuthorizationServerSupportsScope(server, scope) == TRUE
AuthorizationServerSupportsScope(server, scope) ==
    server.scopes = None \/ scope \in server.scopes

Candidates(servers, scope) ==
    {i \in DOMAIN servers :
        /\ SupportsAutoSelectedAuthorizationCode(servers[i])
        /\ servers[i].authorization_endpoint /\ servers[i].token_endpoint
        /\ AuthorizationServerSupportsScope(servers[i], scope)}

(* servers is the metadata that was retrieved, in the order it was given.  *)
SelectAuthorizationServer(offer, issuer, servers, scope) ==
    LET advertised == Range(issuer.servers)
        many == Len(issuer.servers) > 1
        auto == many /\ offer.server = None
        complete == /\ Len(servers) = Len(issuer.servers)
                    /\ advertised \subseteq {servers[i].issuer : i \in DOMAIN servers}
        candidates == Candidates(servers, scope)
        target == IF offer.server # None THEN offer.server
                  ELSE IF ~many THEN issuer.servers[1]
                  ELSE IF candidates = {} THEN None
                  ELSE servers[Min(candidates)].issuer
        named == {i \in DOMAIN servers : servers[i].issuer = target}
        Repeats(i) == \E j \in 1..(i - 1) : servers[j].issuer = servers[i].issuer
        ofServer(i, first) ==   \* the two checks of the i-th server
            IF first
            THEN Require(servers[i].issuer \in advertised, "AuthorizationServerNotAdvertised")
            ELSE Require(~Repeats(i), "AmbiguousAuthorizationServer")
    IN  [checks |->
            << Require(offer.issuer = issuer.issuer, "OfferIssuerMismatch"),
               Require(AuthorizationCodeEligible(offer), "AuthorizationCodeRequired") >>
            \o [k \in 1 .. 2 * Len(servers) |-> ofServer((k + 1) \div 2, k % 2 = 1)]
            \o << Require(offer.server = None \/ many, "AuthorizationServerHintNotAllowed"),
                  Require(offer.server = None \/ offer.server \in advertised,
                          "AuthorizationServerHintMismatch"),
                  Require(auto => complete, "AuthorizationServerMetadataMissing"),
                  Require(auto => Cardinality(candidates) = 1, "AmbiguousAuthorizationServer"),
                  Require(named # {}, "AuthorizationServerMetadataMissing"),
                  Require(\A i \in named : AuthorizationServerSupportsScope(servers[i], scope),
                          "ScopeUnsupportedByAuthorizationServer") >>,
         value |-> IF named = {} THEN None ELSE servers[Min(named)]]

(* A server that was not selected has no feature.                          *)
Has(server, feature) == server # None /\ server[feature]

PlanOf(offer, issuer, server, id, format, vct) ==
    [issuer |-> issuer.issuer,
     server |-> IF server = None THEN None ELSE server.issuer,
     configuration |-> id, format |-> format, vct |-> vct,
     binding |-> IF format = "MsoMdoc" THEN "cose_key" ELSE "jwk",
     deferred |-> issuer.deferred_endpoint]

-----------------------------------------------------------------------------
(* A credential the wallet's own policy admits: policy is [id, vct].       *)
SelectPolicyRegisteredSdJwt(offer, issuer, servers, policy) ==
    LET configuration == ConfigurationOf(issuer, policy.id)
        choice == SelectAuthorizationServer(offer, issuer, servers, configuration.scope)
        server == choice.value
    IN  [checks |->
            << Require(offer.issuer = issuer.issuer, "OfferIssuerMismatch"),
               Require(AuthorizationCodeEligible(offer), "AuthorizationCodeRequired"),
               Require(policy.id \in offer.ids, "ConfigurationNotOffered"),
               Require(policy.bounded, "UnsupportedPidConfiguration"),
               Require(policy.id \in DOMAIN issuer.configurations, "ConfigurationUnknown"),
               Require(/\ configuration.format = "dc+sd-jwt" /\ configuration.vct = policy.vct
                       /\ configuration.doctype = None, "UnsupportedPidConfiguration"),
               Require(configuration.scope # None, "ScopeMissing"),
               Require(Lists(configuration.bindings, "jwk"), "BindingMethodMissing"),
               Require(Lists(configuration.algorithms, "ES256"),
                       "CredentialSigningAlgorithmMissing"),
               Require(configuration.proofs # None /\ configuration.proofs.jwt,
                       "JwtProofMissing"),
               Require(configuration.proofs # None /\ configuration.proofs.jwt
                       => "ES256" \in configuration.proofs.algorithms,
                       "ProofAlgorithmMissing") >>
            \o choice.checks
            \o << Require(Has(server, "authorization_code"), "AuthorizationCodeUnsupported"),
                  Require(Has(server, "response_type_code"), "ResponseTypeCodeUnsupported"),
                  Require(Has(server, "pkce_s256"), "PkceS256Unsupported"),
                  Require(Has(server, "dpop_es256"), "DpopEs256Unsupported"),
                  Require(Has(server, "response_issuer"),
                          "AuthorizationResponseIssuerUnsupported"),
                  Require(issuer.nonce_endpoint, "NonceEndpointMissing"),
                  Require(Has(server, "authorization_endpoint"), "AuthorizationEndpointMissing"),
                  Require(Has(server, "token_endpoint"), "TokenEndpointMissing"),
                  Require(Has(server, "par_endpoint"), "ParUnsupported") >>,
         value |-> PlanOf(offer, issuer, server, policy.id, "DcSdJwt", policy.vct)]

-----------------------------------------------------------------------------
(* The two PID formats of the German first enrolment.                      *)
PidFormat(configuration) ==
    IF configuration.format = "mso_mdoc" /\ configuration.doctype = PidDoctype
       /\ configuration.vct = None THEN "MsoMdoc"
    ELSE IF configuration.format = "dc+sd-jwt" /\ configuration.vct = PidVct
       /\ configuration.doctype = None THEN "DcSdJwt"
    ELSE None

CoseAlgorithms == {"Cose-7", "CoseOther"}
JoseAlgorithms == {"ES256", "JoseOther"}

(* An mdoc is bound and signed with COSE, an SD-JWT with JOSE, never both. *)
PidFormatChecks(configuration) ==
    LET mdoc == PidFormat(configuration) = "MsoMdoc"
        alien == IF mdoc THEN JoseAlgorithms ELSE CoseAlgorithms
    IN  << Require(PidFormat(configuration) # None, "UnsupportedPidConfiguration"),
           Require(Lists(configuration.bindings, IF mdoc THEN "cose_key" ELSE "jwk"),
                   "BindingMethodMissing"),
           Require(\A a \in alien : ~Lists(configuration.algorithms, a),
                   "MixedAlgorithmIdentifiers"),
           Require(Lists(configuration.algorithms, IF mdoc THEN "Cose-7" ELSE "ES256"),
                   "CredentialSigningAlgorithmMissing") >>

(* The id is chosen by the caller: no format is ever picked silently.      *)
SelectGermanFirstEnrolment(offer, issuer, servers, id) ==
    LET configuration == ConfigurationOf(issuer, id)
        choice == SelectAuthorizationServer(offer, issuer, servers, configuration.scope)
        server == choice.value
        proofs == configuration.proofs
        jwt == proofs # None /\ proofs.jwt
        attested == jwt /\ proofs.attestation # None
    IN  [checks |->
            << Require(AuthorizationCodeEligible(offer), "AuthorizationCodeRequired"),
               Require(offer.issuer = issuer.issuer, "OfferIssuerMismatch"),
               Require(id \in offer.ids, "ConfigurationNotOffered"),
               Require(id \in DOMAIN issuer.configurations, "ConfigurationUnknown"),
               Require(~issuer.request_encryption_required, "CredentialRequestEncryptionRequired"),
               Require(~issuer.response_encryption_required,
                       "CredentialResponseEncryptionRequired"),
               Require(issuer.nonce_endpoint, "NonceEndpointMissing"),
               Require(configuration.scope # None, "ScopeMissing"),
               Require(configuration.bindings # None, "BindingMethodMissing"),
               Require(configuration.algorithms # None, "CredentialSigningAlgorithmMissing"),
               Require(jwt, "JwtProofMissing"),
               Require(jwt => "ES256" \in proofs.algorithms, "ProofAlgorithmMissing"),
               Require(jwt => proofs.algorithms \cap CoseAlgorithms = {},
                       "MixedAlgorithmIdentifiers"),
               Require(attested, "KeyAttestationMissing"),
               Require(attested => "high_storage" \in proofs.attestation,
                       "HighKeyStorageMissing"),
               Require(attested => "high_user_authentication" \in proofs.attestation,
                       "HighUserAuthenticationMissing") >>
            \o PidFormatChecks(configuration)
            \o choice.checks
            \o << Require(Has(server, "authorization_code"), "AuthorizationCodeUnsupported"),
                  Require(Has(server, "response_type_code"), "ResponseTypeCodeUnsupported"),
                  Require(Has(server, "authorization_endpoint"), "AuthorizationEndpointMissing"),
                  Require(Has(server, "token_endpoint"), "TokenEndpointMissing"),
                  Require(Has(server, "par_endpoint"), "ParUnsupported"),
                  Require(Has(server, "pkce_s256"), "PkceS256Unsupported"),
                  Require(Has(server, "dpop_es256"), "DpopEs256Unsupported"),
                  Require(Has(server, "response_issuer"),
                          "AuthorizationResponseIssuerUnsupported") >>,
         value |-> PlanOf(offer, issuer, server, id, PidFormat(configuration), PidVct)]

=============================================================================
