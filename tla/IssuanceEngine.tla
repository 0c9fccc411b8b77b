--------------------------- MODULE IssuanceEngine ---------------------------
(***************************************************************************)
(* An enrolment with the OpenID4VCI profile engines of crates/oid4vci, from*)
(* the offer to the credential.  The engines do no I/O: the application    *)
(* fetches the documents, performs the effects of the two flows and brings *)
(* back the answers, in the way the tests of the crate do.  An answer may  *)
(* be late, repeated or malformed, the clock may be set back, and the      *)
(* source of randomness may fail.                                          *)
(***************************************************************************)
EXTENDS IssuanceCredential

CONSTANTS Documents,       \* what may be fetched for an enrolment, and the choice made
          Begun,           \* those of them an enrolment is begun with
          MaxNonces,       \* DPoP nonces the servers may hand out, for each phase
          MaxPops,         \* client authentications the shell may produce
          CNonces,         \* the c_nonces of the issuer
          Transactions,    \* deferred transactions of the issuer
          Earlier,         \* the credentials held before
          Lifetimes,       \* token lifetimes, None for a token without one
          MaxNow,          \* the last instant of an enrolment, which starts at 1
          MaxAuthNow,      \* the last instant of an authorization
          MaxCorrections   \* times the clock is set back

(* The longest authorization draws 16 values; the limit of the code is 32. *)
ASSUME RandomAssumption == MaxRandom \in Nat /\ MaxRandom >= 16

(* The credentials held before came of different c_nonces.                 *)
ASSUME EarlierAssumption ==
    /\ Earlier \in Seq(Range(Earlier))
    /\ \A i, j \in DOMAIN Earlier : i # j => Earlier[i].c_nonce # Earlier[j].c_nonce

(* The metadata of the servers arrives in some order.                      *)
ASSUME DocumentsAssumption == \A d \in Documents : d.servers \in Seq(Range(d.servers))

ASSUME NoneAssumption == None \notin {"RandomnessFailure", "InvalidClock", "TokenExpired"}

VARIABLES phase,       \* "discover", "authorize", "obtain" or "over"
          docs,        \* the documents fetched and the choice, None once used
          plan,        \* the plan they led to and the policy it was made for
          flow,        \* the flow that runs, None before and after
          sent,        \* the requests of the running flow to the servers, in order
          now, corrections,
          faulty,      \* the source of randomness failed the flow
          held         \* the credentials ingested, in order

vars == <<phase, docs, plan, flow, sent, now, corrections, faulty, held>>

-----------------------------------------------------------------------------
(* Discovery.  The metadata of the issuer is fetched for the issuer of the *)
(* offer, each server's for an identifier the application expects.         *)

Gathered(offer, issuer, servers) ==
    [checks |-> << Require(Passes(offer.checks), "InvalidOffer"),
                   Require(Passes(issuer.checks), "InvalidIssuerMetadata"),
                   Require(\A i \in DOMAIN servers : Passes(servers[i].checks),
                           "InvalidServerMetadata") >>,
     offer |-> offer.value, issuer |-> issuer.value,
     servers |-> [i \in DOMAIN servers |-> servers[i].value]]
Parsed(d) ==
    Gathered(ParseCredentialOffer(d.offer),
             ParseCredentialIssuerMetadata(d.issuer, d.offer.issuer),
             [i \in DOMAIN d.servers |->
                 ParseAuthorizationServerMetadata(d.servers[i], d.expected[i])])

(* The selection from documents that parsed, with the plan it leads to.    *)
Selection(parsed, choice) ==
    IF choice.policy = None
    THEN SelectGermanFirstEnrolment(parsed.offer, parsed.issuer, parsed.servers, choice.id)
    ELSE SelectPolicyRegisteredSdJwt(parsed.offer, parsed.issuer, parsed.servers, choice.policy)
Discovered(parsed, choice) == IF Passes(parsed.checks) THEN Selection(parsed, choice) ELSE parsed

(* The configuration of the authorization flow, which must begin.          *)
AuthConfig(offer, chosen, choice) ==
    LET eligible == AuthorizationCodeEligible(offer)
    IN  IF choice.policy = None
        THEN FromPlanAndOffer(chosen, offer, eligible, choice.flaws)
        ELSE FromGenericPlan(chosen, offer, eligible, choice.flaws)

(* The effects that are requests to a server; a step has at most one.      *)
Request(effect) ==
    effect.kind \in {"SendPar", "SendToken", "SendNonce", "SendCredential", "SendDeferred"}
RequestsIn(effects) ==
    IF effects # <<>> /\ Request(effects[1]) THEN <<effects[1]>> ELSE <<>>

(* A flow begins when its configuration and its first step are accepted.   *)
BeginWith(configured, begun, chosen) ==
    IF configured /\ begun.error = None
    THEN /\ phase' = "authorize"
         /\ plan' = [chosen |-> chosen, policy |-> docs.choice.policy]
         /\ flow' = begun.flow /\ sent' = RequestsIn(begun.effects)
    ELSE phase' = "over" /\ UNCHANGED <<plan, flow, sent>>

BeginAuthorization(sound) ==
    /\ phase = "discover" /\ docs \in Begun
    /\ \E parsed \in {Parsed(docs)} : \E selected \in {Discovered(parsed, docs.choice)} :
           IF Passes(selected.checks)
           THEN BeginWith(Passes(AuthConfig(parsed.offer, selected.value, docs.choice)),
                          AuthBegin(selected.value, now, sound), selected.value)
           ELSE phase' = "over" /\ UNCHANGED <<plan, flow, sent>>
    /\ docs' = None
    /\ UNCHANGED <<now, corrections, faulty, held>>

-----------------------------------------------------------------------------
(* The inputs the application can bring.  Names of nonces and of client    *)
(* authentications are interchangeable: a new one is the next number.      *)

Known == flow.retired \cup ({flow.nonce} \ {None})
NoncesFor == {None} \cup {n \in 1..MaxNonces[phase] : n <= Cardinality(Known) + 1}

(* An answer as it should be, to a request made earlier, or with a flaw.   *)
Variants(in, needs) ==
    {in} \cup {[in EXCEPT !.id = sent[i].id] : i \in DOMAIN sent}
         \cup {[in EXCEPT !.flaws = {need}] : need \in needs}

HeaderFlaws == {"endpoint", "content_type", "no_store", "single_nonce"}

Authentications ==
    UNION {Variants([kind |-> "WalletClientAuthentication", id |-> flow.id, pop |-> pop, flaws |-> {}],
                    {"audience", "attestation_segments", "pop_canonical"}) :
              pop \in {p \in 1..MaxPops : p <= Cardinality(flow.pops) + 1}}
Signatures(kind) ==
    Variants([kind |-> kind, id |-> flow.id, flaws |-> {}], {"signing_input", "length"})
ParResponses ==
    UNION {Variants([kind |-> "ParResponse", id |-> flow.id, status |-> status, nonce |-> nonce,
                     flaws |-> {}], HeaderFlaws \cup {"json", "expires_in"}) :
              status \in {201, 400}, nonce \in NoncesFor}
(* The browser may come back to another flow, or from another server.      *)
Redirects ==
    {[kind |-> "AuthorizationRedirect", state |-> state, issuer |-> issuer, code |-> code,
      denied |-> denied, flaws |-> flaws] :
        state \in {StateOf(flow), 0}, issuer \in {flow.plan.server, None},
        code \in {"code", None}, denied \in BOOLEAN,
        flaws \in {{}, {"redirect_uri"}, {"distinct_fields"}, {"code_form"}}}

Detail(configuration, identifiers) ==
    [type |-> "openid_credential", configuration |-> configuration, location |-> None,
     identifiers |-> identifiers]
Details ==
    LET detail == Detail(flow.plan.configuration, <<"identifier">>)
        other == [detail EXCEPT !.type = "other"]
    IN  {<<>>, <<other>>, <<other, detail>>, <<detail, detail>>,
         << Detail(None, <<"identifier">>) >>,
         << Detail(flow.plan.configuration, <<"identifier", "identifier">>) >>}
Token == [kind |-> "TokenResponse", id |-> flow.id, status |-> 200, nonce |-> None,
          use_dpop_nonce |-> FALSE, token_type |-> "DPoP", expires |-> None, details |-> None,
          flaws |-> {}]
TokenResponses ==
    {[Token EXCEPT !.nonce = nonce, !.expires = expires] : nonce \in NoncesFor, expires \in Lifetimes}
    \cup {[Token EXCEPT !.status = status, !.nonce = nonce, !.use_dpop_nonce = demand] :
              status \in {400, 500}, nonce \in NoncesFor, demand \in BOOLEAN}
    \cup {[Token EXCEPT !.details = details] : details \in Details}
    \cup {[Token EXCEPT !.token_type = "Bearer"]}
    \cup Variants(Token, HeaderFlaws \cup {"json", "no_refresh_token"})

AuthInputs(stage) ==
    CASE stage = "AwaitingClientAuthentication" -> Authentications
      [] stage = "SigningDpop" -> Signatures("DpopSignature")
      [] stage = "AwaitingParResponse" -> ParResponses
      [] stage = "AwaitingAuthorization" -> Redirects
      [] stage = "AwaitingTokenResponse" -> TokenResponses
      [] OTHER -> {}

(* An input of any other kind, and any input to a flow that is over.       *)
Unexpected == {[kind |-> "PollDeferred"]}

(* The requests of a flow that is over are forgotten.                      *)
Stepped(result, sound) ==
    /\ flow' = result.flow
    /\ sent' = IF result.flow.stage \in {"Complete", "Failed"} THEN <<>>
               ELSE sent \o RequestsIn(result.effects)
    /\ faulty' = (faulty \/ (~sound /\ result.error = "RandomnessFailure"))
    /\ UNCHANGED <<phase, docs, plan, now, corrections, held>>

AnswerAuthorization ==
    /\ phase = "authorize"
    /\ \E in \in AuthInputs(flow.stage), sound \in BOOLEAN :
           Stepped(AuthStep(flow, in, now, sound), sound)

DisturbAuthorization ==
    /\ phase = "authorize"
    /\ \E in \in Unexpected : Stepped(AuthStep(flow, in, now, TRUE), TRUE)

-----------------------------------------------------------------------------
(* The credential flow takes over the token of a completed authorization.  *)
BeginCredential(selection, sound) ==
    /\ phase = "authorize" /\ flow.stage \in AuthTerminal
    /\ IF IntoToken(flow) = None
       THEN phase' = "over" /\ flow' = None /\ UNCHANGED sent
       ELSE LET config == IF plan.policy = None
                          THEN FromAuthorization(flow.grant, plan.chosen, selection)
                          ELSE FromGenericAuthorization(flow.grant, plan.chosen, selection)
                begun == CredBegin(config.value, now, sound)
            IN  IF Passes(config.checks) /\ begun.error = None
                THEN phase' = "obtain" /\ flow' = begun.flow /\ sent' = RequestsIn(begun.effects)
                ELSE phase' = "over" /\ flow' = None /\ UNCHANGED sent
    /\ UNCHANGED <<docs, plan, now, corrections, faulty, held>>

NonceResponses ==
    UNION {Variants([kind |-> "NonceResponse", id |-> flow.id, status |-> status, nonce |-> nonce,
                     challenge |-> None, c_nonce |-> c_nonce, flaws |-> {}],
                    HeaderFlaws \cup {"c_nonce"}) :
              status \in {200, 400}, nonce \in NoncesFor, c_nonce \in CNonces}
KeyAttestations ==
    LET good == [kind |-> "KeyAttestation", id |-> flow.id, c_nonce |-> flow.c_nonce,
                 jwt_nonce |-> flow.c_nonce, iat |-> now, exp |-> now + 1, flaws |-> {}]
    IN  {[good EXCEPT !.jwt_nonce = jwt_nonce, !.iat = iat, !.exp = exp] :
            jwt_nonce \in CNonces, iat \in {now, now + 1}, exp \in {now, now + 1}}
        \cup Variants(good, {"key", "x5c", "not_self_issued", "attested_key"})

(* An answer of the credential endpoint or of the deferred endpoint.       *)
Answer == [kind |-> "CredentialResponse", id |-> flow.id, status |-> 200, nonce |-> None,
           challenge |-> None, format |-> flow.config.format,
           type |-> IF flow.config.format = "MsoMdoc" THEN PidDoctype ELSE flow.config.vct,
           issuer |-> flow.config.issuer, transaction |-> None, interval |-> 0, flaws |-> {}]
Challenges ==
    {[Answer EXCEPT !.status = 401, !.challenge = c, !.nonce = n, !.flaws = f] :
        c \in {None, "use_dpop_nonce", "other"}, n \in NoncesFor,
        f \in {{}, {"challenge_parameters"}, {"use_dpop_nonce_error"}}}
Deferrals ==
    {[Answer EXCEPT !.status = 202, !.transaction = t, !.interval = 1, !.nonce = n] :
        t \in Transactions, n \in NoncesFor}
    \cup {[Answer EXCEPT !.status = 202, !.transaction = t, !.interval = v, !.flaws = f] :
              t \in Transactions, v \in {0, 1}, f \in {{}, {"not_immediate"}}}
Credentials ==
    Variants(Answer, HeaderFlaws \cup {"no_batch", "not_deferred", "alg"})
    \cup {[Answer EXCEPT !.format = f, !.type = t, !.issuer = i, !.status = s] :
              f \in {"DcSdJwt", "MsoMdoc"}, t \in {PidVct, PidDoctype},
              i \in {flow.config.issuer, None}, s \in {200, 500}}

CredInputs(stage) ==
    CASE stage = "AwaitingNonceResponse" -> NonceResponses
      [] stage = "AwaitingKeyAttestation" -> KeyAttestations
      [] stage = "SigningCredentialProof" -> Signatures("CredentialProofSignature")
      [] stage \in {"SigningDpop", "SigningDeferredDpop"} -> Signatures("DpopSignature")
      [] stage \in {"AwaitingCredentialResponse", "AwaitingDeferredResponse"} ->
             Challenges \cup Deferrals \cup Credentials
      [] OTHER -> {}

(* The c_nonces of the credentials that were ingested.                     *)
Seen == {held[i].c_nonce : i \in DOMAIN held}

AnswerCredential ==
    /\ phase = "obtain"
    /\ \E in \in CredInputs(flow.stage), sound \in BOOLEAN :
           Stepped(CredStep(flow, in, now, Seen, sound), sound)

(* A poll may come at any time, an answer when nothing was asked.          *)
Poll ==
    /\ phase = "obtain"
    /\ \E sound \in BOOLEAN : Stepped(CredStep(flow, [kind |-> "PollDeferred"], now, Seen, sound), sound)

DisturbCredential ==
    /\ phase = "obtain"
    /\ Stepped(CredStep(flow, [kind |-> "Unexpected"], now, Seen, TRUE), TRUE)

(* The application takes the credential, or the failure, of a flow that is *)
(* over; the c_nonce counts as consumed only now.                          *)
Ingest ==
    /\ phase = "obtain" /\ flow.stage \in CredTerminal
    /\ phase' = "over" /\ flow' = None
    /\ held' = IF IntoCredential(flow) = None THEN held ELSE Append(held, flow.issued)
    /\ UNCHANGED <<docs, plan, sent, now, corrections, faulty>>

Running == phase \in {"authorize", "obtain"}

Tick ==
    /\ Running
    /\ now < IF phase = "authorize" THEN MaxAuthNow ELSE MaxNow
    /\ now' = now + 1
    /\ UNCHANGED <<phase, docs, plan, flow, sent, corrections, faulty, held>>

SetBack ==
    /\ Running
    /\ corrections < MaxCorrections
    /\ corrections' = corrections + 1
    /\ now' = now - 1
    /\ UNCHANGED <<phase, docs, plan, flow, sent, faulty, held>>

-----------------------------------------------------------------------------
Init ==
    /\ phase = "discover" /\ docs \in Documents /\ plan = None /\ flow = None /\ sent = <<>>
    /\ now = 1 /\ corrections = 0 /\ faulty = FALSE /\ held = Earlier

Next ==
    \/ \E sound \in BOOLEAN : BeginAuthorization(sound)
    \/ AnswerAuthorization
    \/ DisturbAuthorization
    \/ \E selection \in {None, "identifier"}, sound \in BOOLEAN : BeginCredential(selection, sound)
    \/ AnswerCredential
    \/ Poll
    \/ DisturbCredential
    \/ Ingest
    \/ Tick
    \/ SetBack

Spec == Init /\ [][Next]_vars

-----------------------------------------------------------------------------

(* A plan is made only of documents without a flaw that belong together,   *)
(* it is the only plan they allow, and it does not depend on the order in  *)
(* which the metadata of the servers arrived (select_authorization_server, *)
(* select_german_first_enrolment and select_policy_registered_sd_jwt).     *)
Capable(server, scope) ==
    /\ server.authorization_endpoint /\ server.token_endpoint /\ server.par_endpoint
    /\ server.response_issuer /\ "code" \in server.response_types
    /\ server.grant_types = None \/ "authorization_code" \in server.grant_types
    /\ "S256" \in server.challenge_methods /\ "ES256" \in server.dpop_algorithms
    /\ server.scopes = None \/ scope \in server.scopes
Backwards(s) == [i \in DOMAIN s |-> s[Len(s) + 1 - i]]
Reversed(d) == [d EXCEPT !.servers = Backwards(@), !.expected = Backwards(@)]
AllUnflawed(d) == d.offer.flaws = {} /\ d.issuer.flaws = {} /\ \A s \in Range(d.servers) : s.flaws = {}
OnlyPlan(chosen) ==
    LET advertised == IF docs.issuer.servers = None THEN {docs.issuer.issuer}
                      ELSE Range(docs.issuer.servers)
        configuration == docs.issuer.configurations[chosen.configuration]
        capable == {s \in Range(docs.servers) : Capable(s, configuration.scope)}
    IN  /\ AllUnflawed(docs)
        /\ chosen.issuer = docs.offer.issuer /\ docs.issuer.issuer = docs.offer.issuer
        /\ chosen.configuration \in docs.offer.ids
        /\ \A i \in DOMAIN docs.servers : docs.servers[i].issuer = docs.expected[i]
        /\ {s.issuer : s \in Range(docs.servers)} \subseteq advertised
        /\ \E s \in capable : s.issuer = chosen.server
        /\ \/ Cardinality(advertised) = 1
           \/ docs.offer.server = chosen.server
           \/ docs.offer.server = None /\ Cardinality(capable) = 1
SelectionIsUnique ==
    phase = "discover" =>
        \A selected, again \in {Discovered(Parsed(d), d.choice) : d \in {docs, Reversed(docs)}} :
            Passes(selected.checks) =>
                /\ OnlyPlan(selected.value)
                /\ Passes(again.checks) /\ again.value = selected.value

(* The requests to the servers of one kind, by their place in sent.        *)
Of(kind) == {i \in DOMAIN sent : sent[i].kind = kind}

(* Repeating the token request never repeats anything that must be fresh:  *)
(* one code is redeemed at most three times, each time with a DPoP nonce   *)
(* and a client authentication not used before, the authentication of the  *)
(* pushed request included (accept_token_response, rotate_token_endpoint_  *)
(* nonce, accept_client_authentication).                                   *)
TokenRetriesAreFresh ==
    phase = "authorize" =>
        LET tokens == Of("SendToken")
        IN  /\ Cardinality(tokens) <= 1 + MaxDpopNonceRetries
            /\ \A i, j \in tokens : i # j => sent[i].nonce # sent[j].nonce
            /\ \A i, j \in tokens : sent[i].code = sent[j].code
            /\ \A i, j \in DOMAIN sent : i # j => sent[i].pop # sent[j].pop

(* However often a nonce is demanded or an issuer defers, the credential   *)
(* is requested at most twice, for one c_nonce and one target, every poll  *)
(* is for the first transaction, and a DPoP nonce that was replaced is     *)
(* never used again.                                                       *)
RequestsKeepTheirTerms ==
    phase = "obtain" =>
        LET firsts == Of("SendCredential")
            polls == Of("SendDeferred")
        IN  /\ Cardinality(firsts) <= 1 + MaxResourceDpopNonceRetries
            /\ \A i, j \in firsts :
                  /\ sent[i].c_nonce = sent[j].c_nonce /\ sent[i].c_nonce \notin Seen
                  /\ sent[i].target = sent[j].target
                  /\ i # j => sent[i].nonce # sent[j].nonce
            /\ \A i, j \in polls : sent[i].transaction = sent[j].transaction
            /\ \A i, j, k \in DOMAIN sent :
                  i < j /\ j < k /\ sent[i].nonce = sent[k].nonce => sent[j].nonce = sent[k].nonce

(* What is repeated after a nonce was demanded, an answer was lost or an   *)
(* issuer deferred keeps its terms and is fresh where it must be, at the   *)
(* token endpoint and at the credential endpoints.                         *)
RetriesRepeatNothing == TokenRetriesAreFresh /\ RequestsKeepTheirTerms

(* A completed flow holds the credential of the plan made from the offer,  *)
(* and no c_nonce is consumed twice, over all enrolments.                  *)
CredentialMatchesPlan ==
    /\ phase = "obtain" /\ flow.stage = "Complete" =>
          /\ flow.issued.format = plan.chosen.format
          /\ flow.issued.type = CASE plan.chosen.format = "MsoMdoc" -> PidDoctype
                                 [] plan.policy # None -> plan.policy.vct
                                 [] OTHER -> PidVct
          /\ flow.issued.format = "DcSdJwt" => flow.issued.issuer = plan.chosen.issuer
    /\ \A i, j \in DOMAIN held : i # j => held[i].c_nonce # held[j].c_nonce

(* A sound source of randomness fails no flow for want of random values    *)
(* before an issuer deferred for as many polls as the budget of a flow     *)
(* must allow: an authorization never runs out, retries included.          *)
GuaranteedPolls == (MaxRandom - 9) \div 3
BudgetSuffices ==
    [][ /\ Running /\ flow' # None
        /\ flow.failure # "RandomnessFailure" /\ flow'.failure = "RandomnessFailure"
        /\ faulty' = FALSE
        => phase = "obtain" /\ Cardinality(Of("SendDeferred")) >= GuaranteedPolls ]_vars

(* A flow that only took note of the time.                                 *)
OnlyClock(before, after) ==
    /\ DOMAIN after = DOMAIN before
    /\ \A field \in DOMAIN before \ {"last"} : after[field] = before[field]

(* A flow that is over stays over and asks for nothing more; only the      *)
(* clock or the end of the token's life still turn it into a failure.      *)
TerminalLatch ==
    [][ Running /\ flow.stage \in {"Complete", "Failed"} /\ phase' = phase =>
        /\ flow'.stage \in {"Complete", "Failed"}
        /\ sent' = <<>>
        /\ flow'.stage = "Complete" => OnlyClock(flow, flow')
        /\ flow'.failure # flow.failure => flow'.failure \in {"InvalidClock", "TokenExpired"} ]_vars

(* No request for the credential leaves after the token expired.           *)
ExpiredTokenNeverSent ==
    [][ phase = "obtain" /\ Len(sent') > Len(sent) =>
        LET token == flow.config.grant
        IN  token.expires = None \/ now < token.issued + token.expires ]_vars

(* Every answer that leaves a flow running brings it nearer to its end,    *)
(* even with an issuer that defers for ever: a flow cannot be kept busy    *)
(* longer than its random values last.                                     *)
Waits == {"AwaitingParResponse", "AwaitingCredentialResponse", "AwaitingDeferredResponse"}
Measure(f) == 2 * (MaxRandom - f.used) + IF f.stage \in Waits THEN 1 ELSE 0
AnswersAreFinite ==
    [][ /\ Running /\ phase' = phase /\ flow'.stage \notin {"Complete", "Failed"}
        /\ ~OnlyClock(flow, flow')
        => Measure(flow') < Measure(flow) /\ Measure(flow') >= 0 ]_vars

=============================================================================
