------------------------------ MODULE Oid4vci -------------------------------
(***************************************************************************)
(* The issuance machine of crates/oid4vci: a pure transition function.     *)
(* An offer is opaque; its grant is a constant of the offer.  Credential   *)
(* formats are not told apart: a response in another format than the       *)
(* offered one is one of the responses that are not acceptable.            *)
(***************************************************************************)
EXTENDS Machine

CONSTANT GrantOf  \* the HAIP grant of each offer

Grants == {"AuthorizationCode", "PreAuthorizedTxCode", "PreAuthorized"}
VciPhases == {"Idle", "ReviewingOffer", "OfferParsed", "Authorizing",
              "AwaitingTxCode", "RequestingToken", "ProvingPossession",
              "RequestingCredential", "CredentialIssued", "Aborted"}

AcceptOffer(s) ==
    CASE GrantOf[s.req] = "AuthorizationCode" -> Goto(s, "OfferParsed", "PushPar")
      [] GrantOf[s.req] = "PreAuthorizedTxCode" ->
            Goto(s, "AwaitingTxCode", "PromptTxCode")
      [] GrantOf[s.req] = "PreAuthorized" -> Goto(s, "RequestingToken", "RequestToken")

(* env.trusted and env.attested are the facts the facade recomputes on     *)
(* every step, env.seen the set of c_nonces already proved.                *)
VciStep(s, in, env) ==
    CASE in.type = "Decline" -> To(Aborted("UserDeclined"), <<"Close">>)
      [] s.at = "Idle" /\ in.type = "CredentialOffer" ->
            IF ~in.parsed THEN To(Aborted("UnsupportedGrant"), <<>>)
            ELSE IF ~env.trusted THEN To(Aborted("IssuerNotTrusted"), <<>>)
            ELSE Goto([s EXCEPT !.req = in.req], "ReviewingOffer", "ReviewOffer")
      [] s.at = "ReviewingOffer" /\ in.type = "AcceptOffer" -> AcceptOffer(s)
      [] s.at = "OfferParsed" /\ in.type = "ParPushed" ->
            IF in.valid THEN Goto(s, "Authorizing", "OpenAuthBrowser")
                        ELSE To(Aborted("PkceMissing"), <<>>)
      [] s.at = "Authorizing" /\ in.type = "AuthCodeReturned" ->
            Goto(s, "RequestingToken", "RequestToken")
      [] s.at = "AwaitingTxCode" /\ in.type = "TxCodeEntered" ->
            IF in.valid THEN Goto(s, "RequestingToken", "RequestToken")
                        ELSE To(Aborted("TxCodeInvalid"), <<>>)
      [] s.at = "RequestingToken" /\ in.type = "TokenResponse" ->
            IF ~in.valid THEN To(Aborted("TokenNotBound"), <<>>)
            ELSE IF in.nonce \in env.seen THEN To(Aborted("CNonceStale"), <<>>)
            ELSE IF ~env.attested THEN To(Aborted("ProofKeyNotAttested"), <<>>)
            ELSE Goto(s, "ProvingPossession", "SignProof")
      [] s.at = "ProvingPossession" /\ in.type = "ProofSignatureProduced" ->
            Goto(s, "RequestingCredential", "RequestCredential")
      [] s.at = "RequestingCredential" /\ in.type = "CredentialResponse" ->
            IF in.valid THEN Goto(s, "CredentialIssued", "Close")
                        ELSE To(Aborted("CredentialInvalid"), <<"Close">>)
      [] OTHER -> To(s, <<>>)

=============================================================================
