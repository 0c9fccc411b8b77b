------------------------------ MODULE Iso18013 ------------------------------
(***************************************************************************)
(* The in-person (ISO 18013-5) presentation machine of crates/iso18013-5:  *)
(* a pure transition function.  env.derived says that the facade derived   *)
(* the session keys, which is what makes both the reader-key guard and the *)
(* transcript guard true; reader authentication is always absent.          *)
(***************************************************************************)
EXTENDS Machine

IsoPhases == {"Idle", "Engaged", "SessionEstablished", "SigningResponse",
              "Responded", "Terminated", "Aborted"}

IsoStep(s, in, env) ==
    CASE in.type = "ReaderTermination" ->
            To([Idle EXCEPT !.at = "Terminated"], <<"EmitTermination">>)
      [] s.at = "Idle" /\ in.type = "StartEngagement" ->
            To([s EXCEPT !.at = "Engaged"], <<"EmitDeviceEngagement">>)
      [] s.at = "Engaged" /\ in.type = "ReaderEstablishment" ->
            IF env.derived
            THEN To([s EXCEPT !.at = "SessionEstablished"], <<"RenderConsent">>)
            ELSE To(Aborted("ReaderKeyInvalid"), <<>>)
      [] s.at = "SessionEstablished" /\ in.type = "ConsentGranted" ->
            To([s EXCEPT !.at = "SigningResponse"], <<"SignDeviceAuth">>)
      [] s.at = "SessionEstablished" /\ in.type = "ConsentDeclined" ->
            To(Aborted("NoConsent"), <<"EmitTermination">>)
      [] s.at = "SigningResponse" /\ in.type = "DeviceSignatureProduced" ->
            To([s EXCEPT !.at = "Responded"], <<"EmitDeviceResponse">>)
      [] s.at = "Engaged" /\ in.type = "ConsentGranted" ->
            To(Aborted("RequestOutOfOrder"), <<>>)
      [] OTHER -> To(s, <<>>)

=============================================================================
