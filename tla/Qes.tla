-------------------------------- MODULE Qes ---------------------------------
(***************************************************************************)
(* The qualified-signature authorization machine of crates/qes: a pure     *)
(* transition function.  A malformed request and a missing document hash   *)
(* lead to the same abort and are one bit of the input.                    *)
(***************************************************************************)
EXTENDS Machine

QesPhases == {"Idle", "AwaitingAuthorization", "AwaitingSca", "Signed", "Aborted"}

QesStep(s, in, env) ==
    CASE s.at = "Idle" /\ in.type = "SignatureRequest" ->
            IF ~in.parsed THEN To(Aborted("MalformedRequest"), <<>>)
            ELSE IF NonceOf[in.req] \in env.seen
            THEN To(Aborted("NonceReplayed"), <<>>)
            ELSE To([s EXCEPT !.at = "AwaitingAuthorization", !.req = in.req],
                    <<"RenderSignConfirmation">>)
      [] s.at = "AwaitingAuthorization" /\ in.type = "UserAuthorized" ->
            To([s EXCEPT !.at = "AwaitingSca"], <<"SignAuthorization">>)
      [] s.at = "AwaitingAuthorization" /\ in.type = "UserDeclined" ->
            To(Aborted("UserDeclined"), <<>>)
      [] s.at = "AwaitingSca" /\ in.type = "AuthorizationSignatureProduced" ->
            To([s EXCEPT !.at = "Signed"], <<"SendToQtsp", "Close">>)
      [] OTHER -> To(s, <<>>)

=============================================================================
