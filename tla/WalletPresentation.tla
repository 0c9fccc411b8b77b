------------------------- MODULE WalletPresentation -------------------------
(***************************************************************************)
(* The remote-presentation flow of crates/wallet-core: how the facade      *)
(* drives the OpenID4VP machine, and the evidence it demands before every  *)
(* signature and every disclosure: a current trusted list that registers   *)
(* the relying party, credentials that still authenticate, and a fresh     *)
(* status list for each of them.                                           *)
(*                                                                         *)
(* Which credentials the DCQL plan selects is an input: any set of held,   *)
(* current credentials, the empty one when the query is not satisfied.     *)
(***************************************************************************)
EXTENDS WalletKernel, Oid4vp

CONSTANTS Credentials,   \* credentials the wallet may come to hold
          ExpiresAt,     \* last instant at which each one is valid
          StatusUri,     \* the status list each one refers to, or None
          Unencryptable, \* requests whose response key cannot be used
          TrustLists     \* the signed lists, indexed by sequence number

-----------------------------------------------------------------------------
(* Evidence.                                                               *)

TrustList(c) == TrustLists[c.trust]
TrustListValid(c) == c.clock <= TrustList(c).until
RpTrusted(c) == TrustListValid(c) /\ TrustList(c).rp
IssuerTrusted(c) == TrustListValid(c) /\ TrustList(c).issuer
StatusProviderTrusted(c) == TrustListValid(c) /\ TrustList(c).status

CredentialIsCurrent(c, x) ==
    x \in c.held /\ c.clock <= ExpiresAt[x] /\ IssuerTrusted(c)

(* The reason the session's evidence is not current, or "current".         *)
PresentationEvidence(c) ==
    IF c.session = None \/ ~RpTrusted(c) THEN "PresentationTrustInvalid"
    ELSE IF c.session.plan = {} THEN "NoCredential"
    ELSE IF \E x \in c.session.plan : x \in c.held /\ c.clock > ExpiresAt[x]
    THEN "CredentialExpired"
    ELSE IF \E x \in c.session.plan : ~CredentialIsCurrent(c, x)
    THEN "CredentialProvenanceInvalid"
    ELSE "current"

StatusReferences(c) == {StatusUri[x] : x \in c.session.plan} \ {None}

(* Mutant: the expiry of a cached list is ignored.                         *)
MutantStatusListFresh(c, uri) == uri \in DOMAIN c.status

StatusListFresh(c, uri) ==
    /\ uri \in DOMAIN c.status
    /\ c.clock < c.status[uri].until
    /\ StatusProviderTrusted(c)

UrisToFetch(c) == {uri \in StatusReferences(c) : ~StatusListFresh(c, uri)}

(* Which of two bad assertions is met first only chooses the error shown;  *)
(* a revoked one is reported first here.                                   *)
PresentationStatusGate(c) ==
    LET says(verdict) == \E x \in c.session.plan :
            /\ StatusUri[x] \in StatusReferences(c) \ UrisToFetch(c)
            /\ c.status[StatusUri[x]].says[x] = verdict
    IN  IF c.session = None THEN "Indeterminate"
        ELSE IF says("Invalid") THEN "Revoked"
        ELSE IF says("Unknown") THEN "Indeterminate"
        ELSE IF UrisToFetch(c) # {} THEN "Fetch"
        ELSE "Ready"

StatusReason(gate) == IF gate = "Revoked" THEN "CredentialStatusInvalid"
                                          ELSE "CredentialStatusUnavailable"

(* The gate before any signature or disclosure: the reason to abort.       *)
PresentationSensitiveAbortReason(c) ==
    LET gate == PresentationStatusGate(c)
    IN  IF PresentationEvidence(c) # "current" THEN PresentationEvidence(c)
        ELSE IF gate = "Ready" THEN None
        ELSE StatusReason(gate)

(* Loading one status list: its provider must be trusted and the token     *)
(* must verify; stale lists are dropped first.  The cache limit of eight   *)
(* lists is above the number of lists in use here.                         *)
LoadStatusList(c, uri, list) ==
    LET fresh == {u \in DOMAIN c.status : c.clock < c.status[u].until}
    IN  [c EXCEPT !.status = [u \in fresh \cup {uri} |->
                                 IF u = uri THEN list ELSE c.status[u]]]

StatusListLoads(c, list) == StatusProviderTrusted(c) /\ c.clock < list.until

-----------------------------------------------------------------------------
(* Driving the machine.                                                    *)

(* The abort reasons for which the facade has an error screen.             *)
Surfaced ==
    {"MalformedRequest", "ResponseModeUnsupported", "ResponseUriInvalid",
     "ResponseUriNotRegistered", "ResponseEncryptionMetadataInvalid",
     "ResponseEncryptionFailed", "ClockRollback", "CredentialExpired",
     "CredentialNotYetValid", "CredentialProvenanceInvalid",
     "PresentationTrustInvalid", "NoCredential", "CredentialStatusInvalid",
     "CredentialStatusUnavailable"}

(* None is a value of its own; the log can hold an entry of any credential *)
(* handed over.                                                            *)
ASSUME EvidenceAssumption ==
    /\ None \notin AllFlows \cup Surfaced \cup [plan : SUBSET Credentials]
    /\ IsFiniteSet(Credentials)
    /\ Unrecordable \cap Credentials = {}
    /\ \A x \in Credentials : ExpiresAt[x] \in Nat

PresentationErrorEffects(reason) ==
    IF reason \in Surfaced THEN ErrorAndClose ELSE << >>

AbortPresentation(c, reason) ==
    Result([ResetFlow(c, "Presentation") EXCEPT
               !.machine["Presentation"] = Aborted(reason),
               !.active = None],
           PresentationErrorEffects(reason))

Translate(c, output) ==
    LET f      == "Presentation"
        req    == c.machine[f].req
        emit(kind) == Result(c, <<Eff(kind, f, req)>>)
        reason == PresentationSensitiveAbortReason(c)
    IN  CASE output = "ResolveRpTrust" -> emit("ResolveRpTrust")
          [] output = "PersistNonce" ->
                Result([c EXCEPT !.seen[f] = @ \cup {NonceOf[req]}],
                       <<Eff("PersistNonce", f, req)>>)
          [] output = "RenderConsent" ->
                IF PresentationEvidence(c) # "current"
                THEN AbortPresentation(c, PresentationEvidence(c))
                ELSE Result([c EXCEPT !.hash[f] = req],
                            <<Eff("Consent", f, req)>>)
          [] output = "SignKeyBinding" ->
                IF reason # None THEN AbortPresentation(c, reason)
                                 ELSE emit("Sign")
          [] output = "SendVpToken" ->
                IF reason # None THEN AbortPresentation(c, reason)
                ELSE IF req \in Unencryptable
                THEN AbortPresentation(c, "ResponseEncryptionFailed")
                ELSE emit("Http")
          [] output = "Close" -> Result(c, <<Close>>)

(* The effects of a machine's outputs, translated in order; no machine     *)
(* step has more than two outputs.                                         *)
Translated(translate(_, _), c, outputs) ==
    LET then(r, i) ==
            IF i > Len(outputs) THEN r
            ELSE LET t == translate(r.core, outputs[i])
                 IN  Result(t.core, r.out \o t.out)
    IN  then(then(Result(c, << >>), 1), 2)

PresentationEffects(c, outputs) == Translated(Translate, c, outputs)

(* Entered with the machine in RequestValidated: the selection is frozen   *)
(* and its audit entry checked before anything is persisted or rendered.   *)
FreezeSelection(c, plan, outputs) ==
    LET frozen == [c EXCEPT !.session = [plan |-> plan]]
    IN  IF ~RpTrusted(c)
        THEN AbortPresentation(frozen, "PresentationTrustInvalid")
        ELSE IF plan = {} THEN AbortPresentation(frozen, "NoCredential")
        ELSE IF ~CheckAuditEntry(c, c.machine["Presentation"].req)
        THEN TerminateAuditedFlow(frozen, "Presentation")
        ELSE PresentationEffects(frozen, outputs)

(* Recorded once, when the machine first reaches Done.                     *)
RecordPresentation(r) ==
    LET c == r.core
        f == "Presentation"
    IN  IF c.session = None THEN r
        ELSE Recorded(c, f, c.hash[f], LAMBDA done : Result(done, r.out))

Drive(c, in) ==
    LET f     == "Presentation"
        from  == c.machine[f].at
        chosen == IF in.type = "ConsentGranted" /\ c.session # None
                  THEN Cardinality(c.session.plan) ELSE 0
        s     == VpStep(c.machine[f], in,
                         [seen |-> c.seen[f], selected |-> chosen])
        moved == [c EXCEPT !.machine[f] = s.to]
        r     == PresentationEffects(moved, s.out)
    IN  IF s.to.at = "RequestValidated"
        THEN FreezeSelection(moved, in.plan, s.out)
        ELSE IF s.to.at = "Aborted" /\ from # "Aborted" /\ s.to.why \in Surfaced
        THEN Result([r.core EXCEPT !.session = None, !.hash[f] = None],
                    r.out \o ErrorAndClose)
        ELSE IF s.to.at = "Done" /\ from # "Done"
        THEN RecordPresentation(r)
        ELSE r

-----------------------------------------------------------------------------
(* The events of the flow whose handling goes beyond one drive.            *)

(* The registration is decided here, from the trusted list of now.         *)
RpCertChainResolved(c, verdict, plan) ==
    Drive(c, [type |-> "RpTrustResolved", plan |-> plan,
              verdict |-> IF RpTrusted(c) THEN verdict
                                          ELSE "RelyingPartyNotRegistered"])

Abandoned(c, reason) == AbortPresentation([c EXCEPT !.refs = {}], reason)
Proceed(c) == Drive([c EXCEPT !.refs = {}], [type |-> "ConsentGranted"])

(* One fetch for each list to be fetched, in some order.                   *)
FetchEffects(uris) ==
    LET order == CHOOSE s \in Bijection(1 .. Cardinality(uris), uris) : TRUE
    IN  [i \in 1 .. Cardinality(uris) |->
            Eff("FetchStatusList", "Presentation", order[i])]

(* Status is resolved after consent and before any signature.              *)
PresentationConsented(c) ==
    LET gate == PresentationStatusGate(c)
    IN  CASE PresentationEvidence(c) # "current" ->
                AbortPresentation(c, PresentationEvidence(c))
          [] PresentationEvidence(c) = "current" /\ gate = "Ready" -> Proceed(c)
          [] PresentationEvidence(c) = "current" /\ gate = "Fetch" ->
                Result([c EXCEPT !.refs = StatusReferences(c)],
                       FetchEffects(UrisToFetch(c)))
          [] OTHER -> AbortPresentation(c, StatusReason(gate))

ResetWhenDeclined(r) ==
    IF r.core.machine["Presentation"] = Aborted("UserDeclined")
    THEN Result(ResetFlow(r.core, "Presentation"), r.out) ELSE r
PresentationDeclined(c) ==
    ResetWhenDeclined(Drive([c EXCEPT !.refs = {}], [type |-> "ConsentDeclined"]))

(* answered: the response is a success and its token verifies.             *)
StatusListReceived(c, uri, answered, list) ==
    LET loaded == LoadStatusList(c, uri, list)
        gate   == PresentationStatusGate(loaded)
    IN  IF PresentationEvidence(c) # "current"
        THEN AbortPresentation(c, PresentationEvidence(c))
        ELSE IF uri \notin c.refs \/ ~answered \/ ~StatusListLoads(c, list)
        THEN Abandoned(c, StatusReason("Indeterminate"))
        ELSE IF gate = "Ready" THEN Proceed(loaded)
        ELSE IF gate = "Fetch"
        THEN Result([loaded EXCEPT !.refs = StatusReferences(loaded)], << >>)
        ELSE Abandoned(loaded, StatusReason(gate))

PresentationSigned(c) ==
    LET reason == PresentationSensitiveAbortReason(c)
    IN  IF reason # None THEN AbortPresentation(c, reason)
        ELSE Drive(c, [type |-> "DeviceSignatureProduced"])

PresentationDelivered(c) ==
    LET r == Drive(c, [type |-> "PresentationDelivered"])
    IN  IF r.core.machine["Presentation"].at = "Done"
        THEN Result(FinishFlow(r.core, "Presentation"), r.out) ELSE r

=============================================================================
