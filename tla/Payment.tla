------------------------------ MODULE Payment -------------------------------
(***************************************************************************)
(* The payment (SCA, dynamic linking) machine of crates/payment: a pure    *)
(* transition function.  A malformed request, a zero amount and a missing  *)
(* payee lead to the same abort and are one bit of the input.              *)
(***************************************************************************)
EXTENDS Machine

PayPhases == {"Idle", "AwaitingConfirmation", "AwaitingSca", "Authorized", "Aborted"}

PayStep(s, in, env) ==
    CASE s.at = "Idle" /\ in.type = "PaymentAuthorizationRequest" ->
            IF ~in.parsed THEN To(Aborted("MalformedRequest"), <<>>)
            ELSE IF NonceOf[in.req] \in env.seen
            THEN To(Aborted("NonceReplayed"), <<>>)
            ELSE To([s EXCEPT !.at = "AwaitingConfirmation", !.req = in.req],
                    <<"RenderPaymentConfirmation">>)
      [] s.at = "AwaitingConfirmation" /\ in.type = "UserApproved" ->
            To([s EXCEPT !.at = "AwaitingSca"], <<"SignAuthCode">>)
      [] s.at = "AwaitingConfirmation" /\ in.type = "UserDeclined" ->
            To(Aborted("UserDeclined"), <<"Close">>)
      [] s.at = "AwaitingSca" /\ in.type = "AuthCodeSignatureProduced" ->
            To([s EXCEPT !.at = "Authorized"], <<"SendAuthorization", "Close">>)
      [] OTHER -> To(s, <<>>)

=============================================================================
