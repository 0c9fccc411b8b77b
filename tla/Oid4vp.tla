------------------------------- MODULE Oid4vp -------------------------------
(***************************************************************************)
(* The remote-presentation machine of crates/oid4vp: a pure transition     *)
(* function from a state and an input to a state and outputs.  It performs *)
(* no I/O; WalletCore drives it and turns its outputs into effects.        *)
(*                                                                         *)
(* A request is opaque; of its content only the nonce is told apart.  What *)
(* the request and the resolved trust say about the ten guards is one      *)
(* verdict: the first guard, other than the nonce guard, that fails.       *)
(***************************************************************************)
EXTENDS Machine

(* The guards of the machine in the order the code evaluates them; the     *)
(* nonce guard stands between the two groups.                              *)
GuardsBeforeNonce ==
    {"RelyingPartyNotRegistered", "ResponseModeUnsupported",
     "ResponseUriInvalid", "ResponseUriNotRegistered",
     "ResponseEncryptionMetadataInvalid", "RedirectUriNotRegistered",
     "AudienceMismatch"}
GuardsAfterNonce == {"RequestNotSignedOrBound", "ClientIdBindingInvalid"}
Verdict == GuardsBeforeNonce \cup GuardsAfterNonce \cup {"pass"}

VpPhases == {"Idle", "ResolvingTrust", "RequestValidated",
             "AwaitingDeviceSignature", "Presenting", "Done", "Aborted"}

(* The first failing guard of a request whose trust has been resolved.     *)
FirstFailure(verdict, nonce, seen) ==
    IF verdict \in GuardsBeforeNonce THEN verdict
    ELSE IF nonce \in seen THEN "NonceReplayed"
    ELSE verdict

(* env.seen is the replay set, env.selected the number of credentials the  *)
(* DCQL plan chose; left counts the sub-presentations still to be signed.  *)
VpStep(s, in, env) ==
    CASE s.at = "Idle" /\ in.type = "AuthorizationRequest" ->
            IF in.parsed
            THEN To([s EXCEPT !.at = "ResolvingTrust", !.req = in.req],
                    <<"ResolveRpTrust">>)
            ELSE To(Aborted("MalformedRequest"), <<>>)
      [] s.at = "ResolvingTrust" /\ in.type = "RpTrustResolved" ->
            LET failure == FirstFailure(in.verdict, NonceOf[s.req], env.seen)
            IN  IF failure = "pass"
                THEN To([s EXCEPT !.at = "RequestValidated"],
                        <<"PersistNonce", "RenderConsent">>)
                ELSE To(Aborted(failure), <<>>)
      [] s.at = "RequestValidated" /\ in.type = "ConsentGranted" ->
            IF env.selected = 0
            THEN To(Aborted("NoCredential"), <<>>)
            ELSE To([s EXCEPT !.at = "AwaitingDeviceSignature",
                              !.left = env.selected],
                    <<"SignKeyBinding">>)
      [] s.at = "RequestValidated" /\ in.type = "ConsentDeclined" ->
            To(Aborted("UserDeclined"), <<"Close">>)
      [] s.at = "AwaitingDeviceSignature" /\ in.type = "DeviceSignatureProduced" ->
            IF s.left > 1
            THEN To([s EXCEPT !.left = @ - 1], <<"SignKeyBinding">>)
            ELSE To([s EXCEPT !.at = "Presenting", !.left = 0], <<"SendVpToken">>)
      [] s.at = "Presenting" /\ in.type = "PresentationDelivered" ->
            To([s EXCEPT !.at = "Done"], <<"Close">>)
      [] OTHER -> To(s, <<>>)

=============================================================================
