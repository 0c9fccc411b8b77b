-------------------------- MODULE MCIssuanceEngine --------------------------
(***************************************************************************)
(* IssuanceEngine for TLC.  The documents are a sound set and, one at a    *)
(* time, every way in which one of them may differ.                        *)
(***************************************************************************)
EXTENDS IssuanceEngine

CONSTANTS I, S1, S2, IdSdJwt, IdMdoc, Scope, OtherVct, C1, C2

BaseOffer == [issuer |-> I, ids |-> {IdSdJwt, IdMdoc}, grants |-> {"authorization_code"},
              server |-> None, flaws |-> {}]
Proofs == [jwt |-> TRUE, algorithms |-> {"ES256"},
           attestation |-> {"high_storage", "high_user_authentication"}]
SdJwt == [format |-> "dc+sd-jwt", scope |-> Scope, bindings |-> {"jwk"}, algorithms |-> {"ES256"},
          proofs |-> Proofs, doctype |-> None, vct |-> PidVct]
Mdoc == [SdJwt EXCEPT !.format = "mso_mdoc", !.bindings = {"cose_key"}, !.algorithms = {"Cose-7"},
                      !.doctype = PidDoctype, !.vct = None]
BaseIssuer == [issuer |-> I, servers |-> <<S1>>, nonce_endpoint |-> TRUE, deferred_endpoint |-> TRUE,
               request_encryption_required |-> FALSE, response_encryption_required |-> FALSE,
               configurations |-> [id \in {IdSdJwt, IdMdoc} |-> IF id = IdMdoc THEN Mdoc ELSE SdJwt],
               flaws |-> {}]
Server(s) == [issuer |-> s, scopes |-> {Scope}, authorization_endpoint |-> TRUE,
              token_endpoint |-> TRUE, par_endpoint |-> TRUE, grant_types |-> None,
              response_types |-> {"code"}, challenge_methods |-> {"S256"},
              dpop_algorithms |-> {"ES256"}, response_issuer |-> TRUE, flaws |-> {}]
Policy == [id |-> IdSdJwt, vct |-> OtherVct, bounded |-> TRUE]
Choice(id) == [id |-> id, policy |-> None, flaws |-> {}]
Base == [offer |-> BaseOffer, issuer |-> BaseIssuer, servers |-> <<Server(S1)>>,
         expected |-> <<S1>>, choice |-> Choice(IdSdJwt)]
PolicyBase ==
    [Base EXCEPT !.choice = [id |-> IdSdJwt, policy |-> Policy, flaws |-> {}],
                 !.issuer = [BaseIssuer EXCEPT !.configurations =
                                [@ EXCEPT ![IdSdJwt] = [SdJwt EXCEPT !.vct = OtherVct]]]]

(* The servers: how many are advertised, which are fetched and in which    *)
(* order, which one the offer hints at, and what each of them can do.      *)
Features == {"authorization_endpoint", "token_endpoint", "par_endpoint", "response_issuer"}
Weak(s) == {[Server(s) EXCEPT ![f] = FALSE] : f \in Features}
           \cup {[Server(s) EXCEPT !.grant_types = {"implicit"}],
                 [Server(s) EXCEPT !.response_types = {"token"}],
                 [Server(s) EXCEPT !.challenge_methods = {}],
                 [Server(s) EXCEPT !.dpop_algorithms = {}],
                 [Server(s) EXCEPT !.scopes = {}]}
Fetched == {<<Server(S1)>>, <<Server(S2)>>, <<>>, <<Server(S1), Server(S1)>>,
            <<[Server(S1) EXCEPT !.scopes = None]>>}
           \cup {<<s, Server(S2)>> : s \in Weak(S1) \cup {Server(S1)}}
           \cup {<<Server(S1), s>> : s \in Weak(S2)}
           \cup {<<[Server(S1) EXCEPT !.par_endpoint = FALSE], [Server(S2) EXCEPT !.scopes = {}]>>}
Grants == {<<None, None>>} \cup {<<hint, {"authorization_code"}>> : hint \in {None, S1, S2, I}}
Advertised == {None, <<S1>>, <<S1, S2>>, <<S2, S1>>}
ServerCases ==
    {[base EXCEPT !.offer = [@ EXCEPT !.server = grant[1], !.grants = grant[2]],
                  !.issuer = [@ EXCEPT !.servers = servers],
                  !.servers = fetched,
                  !.expected = [i \in DOMAIN fetched |-> fetched[i].issuer]] :
        base \in {Base, PolicyBase}, grant \in Grants,
        servers \in Advertised, fetched \in Fetched}

(* What the issuer and the configuration may lack.                         *)
ConfigurationCases ==
    {[SdJwt EXCEPT ![f] = None] : f \in {"scope", "bindings", "algorithms", "proofs", "vct"}}
    \cup {[SdJwt EXCEPT !.bindings = {"cose_key"}], [SdJwt EXCEPT !.algorithms = {"ES256", "Cose-7"}],
          [SdJwt EXCEPT !.algorithms = {"JoseOther"}], [SdJwt EXCEPT !.doctype = PidDoctype],
          [SdJwt EXCEPT !.bindings = None, !.proofs = None],
          [SdJwt EXCEPT !.proofs = [@ EXCEPT !.jwt = FALSE]],
          [SdJwt EXCEPT !.proofs = [@ EXCEPT !.algorithms = {"JoseOther"}]],
          [SdJwt EXCEPT !.proofs = [@ EXCEPT !.algorithms = {"ES256", "Cose-7"}]],
          [SdJwt EXCEPT !.proofs = [@ EXCEPT !.attestation = None]],
          [SdJwt EXCEPT !.proofs = [@ EXCEPT !.attestation = {"high_storage"}]],
          [SdJwt EXCEPT !.proofs = [@ EXCEPT !.attestation = {"high_user_authentication"}]]}
IssuerCases ==
    {[base EXCEPT !.issuer = [@ EXCEPT ![f] = ~@]] :
        base \in {Base, PolicyBase},
        f \in {"nonce_endpoint", "deferred_endpoint", "request_encryption_required",
               "response_encryption_required"}}
    \cup {[Base EXCEPT !.issuer = [@ EXCEPT !.configurations = [@ EXCEPT ![IdSdJwt] = c]]] :
              c \in ConfigurationCases}
    \cup {[base EXCEPT !.issuer = [@ EXCEPT !.configurations = <<>>]] : base \in {Base, PolicyBase}}
    \cup {[Base EXCEPT !.issuer = [@ EXCEPT !.issuer = S1]],
          [Base EXCEPT !.offer = [@ EXCEPT !.issuer = S1]],
          [Base EXCEPT !.offer = [@ EXCEPT !.ids = {IdMdoc}]],
          [Base EXCEPT !.offer = [@ EXCEPT !.grants = {}]],
          [Base EXCEPT !.offer = [@ EXCEPT !.grants = {"pre-authorized_code"}]],
          [Base EXCEPT !.choice = Choice(IdMdoc)], [Base EXCEPT !.choice = Choice(None)],
          [PolicyBase EXCEPT !.choice = [@ EXCEPT !.policy = [@ EXCEPT !.bounded = FALSE]]],
          [PolicyBase EXCEPT !.choice = [@ EXCEPT !.policy = [@ EXCEPT !.vct = PidVct]]],
          [Base EXCEPT !.expected = <<S2>>]}

(* One flaw in one of the texts.                                           *)
UrlNeeds == {"nonempty", "short", "ascii", "https", "no_fragment", "authority", "no_credentials",
             "ipv6", "ipv6_canonical", "ipv6_then_port", "one_colon", "host", "port_digits",
             "port_range", "port_not_default", "host_canonical", "ipv4", "ipv4_canonical", "labels",
             "path_escapes", "path_canonical", "path_characters", "no_dot_segments"}
ListNeeds == {"array", "nonempty_list", "few", "string", "nonempty", "short", "no_control", "unique"}
Needs(members, needs) == members \X needs
OfferFlaws ==
    Needs({"json"}, JsonNeeds) \cup Needs({"credential_issuer"}, UrlNeeds \cup {"no_query", "present"})
    \cup Needs({"authorization_server"}, UrlNeeds \cup {"no_query"})
    \cup Needs({"credential_configuration_ids"}, ListNeeds \cup {"present"})
    \cup {<<"grants", "object">>, <<"authorization_code", "object">>, <<"issuer_state", "short">>}
IssuerFlaws ==
    Needs({"json"}, JsonNeeds)
    \cup Needs({"credential_issuer", "authorization_servers"}, UrlNeeds \cup {"no_query"})
    \cup Needs({"credential_endpoint", "nonce_endpoint", "deferred_credential_endpoint"}, UrlNeeds)
    \cup Needs({"cryptographic_binding_methods_supported", "key_storage", "user_authentication",
                "enc_values_supported", "response.alg_values_supported"}, ListNeeds)
    \cup {<<"credential_request_encryption", "jwks">>, <<"kid", "unique">>, <<"batch_size", "range">>,
          <<"display", "objects">>, <<"scope", "characters">>, <<"format", "present">>,
          <<"proof_types_supported", "few">>,
          <<"credential_signing_alg_values_supported", "text_or_integer">>}
ServerFlaws ==
    Needs({"json"}, JsonNeeds) \cup Needs({"issuer"}, UrlNeeds \cup {"no_query", "present"})
    \cup Needs({"authorization_endpoint", "token_endpoint"}, UrlNeeds)
    \cup Needs({"response_types_supported", "scopes_supported"}, ListNeeds)
    \cup {<<"scopes_supported", "characters">>}
FlawCases ==
    {[Base EXCEPT !.offer = [@ EXCEPT !.flaws = {f}]] : f \in OfferFlaws}
    \cup {[Base EXCEPT !.issuer = [@ EXCEPT !.flaws = {f}]] : f \in IssuerFlaws}
    \cup {[Base EXCEPT !.servers = <<[@[1] EXCEPT !.flaws = {f}]>>] : f \in ServerFlaws}

MCBegun ==
    {Base, PolicyBase,
     [Base EXCEPT !.choice = Choice(IdMdoc), !.issuer = [@ EXCEPT !.deferred_endpoint = FALSE]],
     [Base EXCEPT !.choice = [@ EXCEPT !.flaws = {"redirect_uri"}]]}
MCDocuments == MCBegun \cup ServerCases \cup IssuerCases \cup FlawCases
MCEarlier == <<[format |-> "DcSdJwt", type |-> PidVct, issuer |-> I, c_nonce |-> C1]>>
MCMaxNonces == [authorize |-> 3, obtain |-> 2]
MCLifetimes == {None, 2}
=============================================================================
