-------------------------------- MODULE W2w ---------------------------------
(***************************************************************************)
(* The wallet-to-wallet receive machine of crates/w2w: a pure transition   *)
(* function.                                                               *)
(***************************************************************************)
EXTENDS Machine

W2wPhases == {"Idle", "AwaitingTransfer", "Accepted", "Rejected"}

Rejected(reason) == [Idle EXCEPT !.at = "Rejected", !.why = reason]

W2wStep(s, in) ==
    CASE s.at = "Idle" /\ in.type = "CreateOffer" ->
            To([s EXCEPT !.at = "AwaitingTransfer"], <<"PublishOffer">>)
      [] s.at = "AwaitingTransfer" /\ in.type = "TransferReceived" ->
            IF ~in.issuerValid THEN To(Rejected("IssuerInvalid"), <<>>)
            ELSE IF ~in.peerBound THEN To(Rejected("PeerMismatch"), <<>>)
            ELSE To([s EXCEPT !.at = "Accepted"], <<"StoreCredential", "Close">>)
      [] s.at = "Idle" /\ in.type = "TransferReceived" ->
            To(Rejected("OutOfOrder"), <<>>)
      [] OTHER -> To(s, <<>>)

=============================================================================
