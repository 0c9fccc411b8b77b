---------------------------- MODULE WalletFlows -----------------------------
(***************************************************************************)
(* The other flows of crates/wallet-core: issuance, payment, qualified     *)
(* signature, wallet-to-wallet transfer, in-person presentation and the    *)
(* Digital Credentials API.  Each drive operator steps the flow's machine, *)
(* translates its outputs and does the facade's own work: replay sets, the *)
(* audit entry, the credential store and the end of the flow.              *)
(***************************************************************************)
EXTENDS WalletPresentation, Oid4vci, Payment, Qes, W2w, Iso18013

CONSTANT WuaUntil  \* the wallet-unit attestation is valid before this time

ASSUME GrantAssumption == \A req \in Requests : GrantOf[req] \in Grants

Stepped(c, flow, s) == [c EXCEPT !.machine[flow] = s.to]
Ends(why) == IF why = "UserDeclined" THEN <<Close>> ELSE ErrorAndClose

-----------------------------------------------------------------------------
(* Issuance.                                                               *)

WuaValid(c) == c.clock < WuaUntil

IssuanceEffect == [PushPar |-> "PushPar", OpenAuthBrowser |-> "OpenAuthBrowser",
                   PromptTxCode |-> "PromptTxCode", RequestToken |-> "RequestToken",
                   SignProof |-> "Sign", RequestCredential |-> "RequestCredential"]

TranslateIssuance(c, output) ==
    LET f == "Issuance"
        req == c.machine[f].req
    IN  CASE output = "ReviewOffer" ->
                Result([c EXCEPT !.hash[f] = req], <<Eff("Consent", f, req)>>)
          [] output \in DOMAIN IssuanceEffect ->
                Result(c, <<Eff(IssuanceEffect[output], f, req)>>)
          [] output = "Close" -> Result(c, <<Close>>)

IssuanceEffects(c, outputs) == Translated(TranslateIssuance, c, outputs)

(* The "document ready" screen goes before the Close the machine emitted.  *)
WithReadyScreen(out) ==
    LET i == CHOOSE i \in DOMAIN out : /\ out[i] = Close
                                       /\ \A j \in 1 .. i - 1 : out[j] # Close
    IN  IF Close \notin Range(out) THEN Append(out, Screen)
        ELSE SubSeq(out, 1, i - 1) \o <<Screen>> \o SubSeq(out, i, Len(out))

(* The first arrival in CredentialIssued: the audit entry, then the store. *)
StoreIssuedCredential(r, credential) ==
    LET f == "Issuance"
        store(done) == Result(FinishFlow([done EXCEPT !.held = @ \cup {credential}], f),
                              WithReadyScreen(r.out))
    IN  Recorded(r.core, f, r.core.machine[f].req, store)

DriveIssuance(c, in) ==
    LET f     == "Issuance"
        from  == c.machine[f].at
        s     == VciStep(c.machine[f], in,
                          [trusted |-> IssuerTrusted(c), attested |-> WuaValid(c),
                           seen |-> c.seen[f]])
        r     == IssuanceEffects(Stepped(c, f, s), s.out)
    IN  IF s.to.at \notin {"Idle", "Aborted"} /\ ~CheckAuditEntry(c, s.to.req)
        THEN TerminateAuditedFlow(Stepped(c, f, s), f)
        ELSE IF s.to.at = "CredentialIssued" /\ from # "CredentialIssued"
        THEN StoreIssuedCredential(r, in.credential)
        ELSE IF s.to.at = "Aborted"
        THEN Result(FinishFlow(r.core, f),
                    IF from = "Aborted" THEN r.out ELSE Ends(s.to.why))
        ELSE Result(r.core, (IF in.type = "AcceptOffer" THEN <<Screen>> ELSE << >>)
                            \o r.out)

(* A token whose c_nonce leads to a proof spends that c_nonce.             *)
TokenReceived(c, in) ==
    LET f == "Issuance"
        r == DriveIssuance(c, in)
    IN  IF r.core.machine[f].at = "ProvingPossession"
        THEN [r EXCEPT !.core.seen[f] = @ \cup {in.nonce}]
        ELSE r

(* A response authenticates only under the trust and the time of now.      *)
Authenticates(c, in) ==
    in.valid /\ IssuerTrusted(c) /\ c.clock <= ExpiresAt[in.credential]

CredentialReceived(c, in) ==
    DriveIssuance(c, [in EXCEPT !.valid = Authenticates(c, in)])

-----------------------------------------------------------------------------
(* Payment and qualified signature.                                        *)

TranslatePayment(c, output) ==
    LET f == "Payment"
        req == c.machine[f].req
    IN  CASE output = "RenderPaymentConfirmation" ->
                IF CheckAuditEntry(c, req)
                THEN Result([c EXCEPT !.hash[f] = req], <<Eff("Consent", f, req)>>)
                ELSE TerminateAuditedFlow(c, f)
          [] output = "SignAuthCode" -> Result(c, <<Eff("Sign", f, req)>>)
          [] output = "SendAuthorization" -> Result(c, <<Eff("Http", f, req)>>)
          [] output = "Close" ->   \* completion awaits the acknowledgement
                Result(c, IF c.machine[f].at = "Authorized" THEN << >> ELSE <<Close>>)

PaymentEffects(c, outputs) == Translated(TranslatePayment, c, outputs)

(* Mutant: the payment nonce is not remembered.                            *)
MutantSpendPaymentNonce(c) == c

(* The nonce is spent when the payment is authorized, not before.          *)
SpendPaymentNonce(c) ==
    LET m == c.machine["Payment"]
    IN  IF m.at = "Authorized"
        THEN [c EXCEPT !.seen["Payment"] = @ \cup {NonceOf[m.req]}] ELSE c

DrivePayment(c, in) ==
    LET f == "Payment"
        s == PayStep(c.machine[f], in, [seen |-> c.seen[f]])
        r == PaymentEffects(SpendPaymentNonce(Stepped(c, f, s)), s.out)
    IN  IF s.to.at = "Aborted" THEN Result(ResetFlow(r.core, f), Ends(s.to.why))
                               ELSE r

(* Mutant: the flow is finished before its entry is written.               *)
MutantPaymentAuthorizationDelivered(c) ==
    LET done == FinishFlow(c, "Payment")
    IN  Recorded(done, "Payment", done.hash["Payment"], LAMBDA d : Result(d, <<Close>>))

PaymentAuthorizationDelivered(c) ==
    LET f == "Payment"
    IN  IF c.active # f \/ c.machine[f].at # "Authorized" THEN Result(c, << >>)
        ELSE Recorded(c, f, c.hash[f],
                      LAMBDA done : Result(FinishFlow(done, f), <<Close>>))

TranslateQes(c, output) ==
    LET f == "Qes"
        req == c.machine[f].req
    IN  CASE output = "RenderSignConfirmation" ->
                Result([c EXCEPT !.hash[f] = req], <<Eff("Consent", f, req)>>)
          [] output = "SignAuthorization" -> Result(c, <<Eff("Sign", f, req)>>)
          [] output = "SendToQtsp" -> Result(c, <<Eff("Http", f, req)>>)
          [] output = "Close" ->
                Result(c, IF c.machine[f].at = "Signed" THEN << >> ELSE <<Close>>)

QesEffects(c, outputs) == Translated(TranslateQes, c, outputs)

(* The nonce is spent as soon as the confirmation is reached.              *)
DriveQes(c, in) ==
    LET f == "Qes"
        s == QesStep(c.machine[f], in, [seen |-> c.seen[f]])
        moved == IF s.to.at = "AwaitingAuthorization"
                 THEN [Stepped(c, f, s) EXCEPT !.seen[f] = @ \cup {NonceOf[s.to.req]}]
                 ELSE Stepped(c, f, s)
        r == QesEffects(moved, s.out)
    IN  IF s.to.at = "Aborted" THEN Result(ResetFlow(r.core, f), Ends(s.to.why))
                               ELSE r

QesAuthorizationDelivered(c) ==
    IF c.active # "Qes" \/ c.machine["Qes"].at # "Signed" THEN Result(c, << >>)
    ELSE Result(FinishFlow(c, "Qes"), <<Close>>)

-----------------------------------------------------------------------------
(* Wallet-to-wallet transfer.                                              *)

MayTransfer(c) == c.active \in {None, "WalletTransfer"}

(* The entry of an accepted transfer is written while its credential is    *)
(* stored, before the machine's Close.                                     *)
StoreTransferred(c, credential) ==
    LET f == "WalletTransfer"
        store(done) == Result(FinishFlow([done EXCEPT !.transferred = credential], f),
                              << >>)
        r == Recorded(c, f, credential, store)
    IN  Result(r.core, Append(r.out, Close))

DriveW2w(c, in) ==
    LET f == "WalletTransfer"
        s == W2wStep(c.machine[f], in)
        moved == Stepped(c, f, s)
    IN  CASE s.to.at = "Accepted" -> StoreTransferred(moved, in.credential)
          [] s.to.at = "Rejected" -> Result(FinishFlow(moved, f), ErrorAndClose)
          [] OTHER -> Result(moved, IF s.out = << >> THEN << >>
                                    ELSE <<Eff("PublishTransferOffer", f, None)>>)

TransferOfferCreated(c) ==
    IF ~MayTransfer(c) THEN Result(c, <<Screen>>)
    ELSE IF ~CheckAuditEntry(c, None) THEN TerminateAuditedFlow(c, "WalletTransfer")
    ELSE DriveW2w(BeginFlow(c, "WalletTransfer"), [type |-> "CreateOffer"])

(* Whether the issuer is valid is decided here, under the trust of now.    *)
TransferReceived(c, in) ==
    IF ~MayTransfer(c) THEN Result(c, <<Screen>>)
    ELSE DriveW2w(IF c.active = None THEN BeginFlow(c, "WalletTransfer") ELSE c,
                  [in EXCEPT !.issuerValid = @ /\ IssuerTrusted(c)])

-----------------------------------------------------------------------------
(* In-person presentation and the Digital Credentials API.  The request is *)
(* answered from a held credential that is current when it arrives.        *)

Selected(c, req, matches) ==
    IF matches /\ \E x \in c.held : CredentialIsCurrent(c, x) THEN req ELSE None

TranslateProximity(c, output) ==
    LET f == "Proximity"
        doc == c.doc[f]
        whenSelected(kind) == Result(c, <<IF doc = None THEN Close
                                                       ELSE Eff(kind, f, doc)>>)
    IN  CASE output = "EmitDeviceEngagement" ->
                Result(c, <<Eff("EmitDeviceEngagement", f, None)>>)
          [] output = "RenderConsent" ->
                Result([c EXCEPT !.hash[f] = doc], <<Eff("Consent", f, doc)>>)
          [] output = "SignDeviceAuth" -> whenSelected("Sign")
          [] output = "EmitDeviceResponse" -> whenSelected("EmitDeviceResponse")
          [] output = "EmitTermination" -> Result(c, <<Close>>)

ProximityEffects(c, outputs) == Translated(TranslateProximity, c, outputs)

DriveProximity(c, in) ==
    LET f == "Proximity"
        derived == /\ in.type = "ReaderEstablishment" /\ in.agrees
                   /\ c.machine[f].at = "Engaged" /\ c.secrets
        keyed == IF derived THEN [c EXCEPT !.doc[f] = Selected(c, in.req, in.matches)]
                            ELSE c
        s == IsoStep(c.machine[f], in, [derived |-> derived])
        r == ProximityEffects(Stepped(keyed, f, s), s.out)
    IN  IF s.to.at = "Aborted" THEN Result(ResetFlow(r.core, f), <<Close>>) ELSE r

EngagementRequested(c, usable) ==
    IF ~usable THEN Result(c, <<Close>>)
    ELSE DriveProximity([BeginFlow(c, "Proximity") EXCEPT !.secrets = TRUE],
                        [type |-> "StartEngagement"])

DcApiRequestReceived(c, req, matches) ==
    LET f == "DcApi"
        doc == Selected(c, req, matches)
        begun == BeginFlow(c, f)
    IN  IF doc = None THEN Result(ResetFlow(begun, f), <<Close>>)
        ELSE Result([begun EXCEPT !.doc[f] = doc, !.hash[f] = doc],
                    <<Eff("Consent", f, doc)>>)

DcApiConsentGranted(c) ==
    IF c.doc["DcApi"] = None THEN Result(ResetFlow(c, "DcApi"), <<Close>>)
    ELSE Result(c, <<Eff("Sign", "DcApi", c.doc["DcApi"])>>)

DcApiSignatureProduced(c) ==
    LET doc == c.doc["DcApi"]
    IN  Result(FinishFlow(c, "DcApi"),
               <<IF doc = None THEN Close ELSE Eff("EmitDcApiResponse", "DcApi", doc)>>)

=============================================================================
