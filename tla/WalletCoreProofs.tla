-------------------------- MODULE WalletCoreProofs --------------------------
(***************************************************************************)
(* What follows for every behaviour of the wallet core: the results that   *)
(* several flows share, the inductive invariant of the wallet, and the     *)
(* properties it implies.                                                  *)
(***************************************************************************)
EXTENDS TransactionProofs, PresentationProofs, FiniteSetTheorems

(* Zenon proves a leaf unless the leaf cites SMT.                          *)
USE ZenonT(60)

(* What the approval of each flow's screen returns.                        *)
LEMMA ConsentedGood ==
  ASSUME NEW c, NEW ok, NEW gone, Inv(c, ok, gone), NEW op, Fits(c, ok, op),
         op.result = "Decision", c.hash[c.active] \in ok, PlansCount, ListsCount
  PROVE  Good(Consented(c), ok, gone) /\ Keeps(c, Consented(c))
<1>1. /\ c.active \in AllFlows \ {"WalletTransfer"}
      /\ c.active = "Presentation" =>
            c.machine["Presentation"].at \in {"RequestValidated",
                                              "AwaitingDeviceSignature", "Presenting"}
  BY DEF Fits, Inv, CoreType
<1>2. CASE c.active = "Presentation"
  <2>. DEFINE r == PresentationConsented(c)
  <2>1. Good(r, ok, gone) /\ Keeps(c, r)
    BY <1>1, <1>2, PresentationConsents
  <2>. QED
    BY <1>2, <2>1 DEF Consented
<1>3. CASE c.active = "Proximity"
  <2>. DEFINE r == DriveProximity(c, [type |-> "ConsentGranted"])
  <2>1. Good(r, ok, gone) /\ Keeps(c, r)
    BY <1>3, ProximityConsented
  <2>. QED
    BY <1>3, <2>1 DEF Consented
<1>4. CASE c.active = "DcApi"
  <2>. DEFINE r == DcApiConsentGranted(c)
  <2>1. Good(r, ok, gone) /\ Keeps(c, r)
    BY <1>4, DcApiConsented
  <2>. QED
    BY <1>4, <2>1 DEF Consented
<1>5. CASE c.active = "Payment"
  <2>. DEFINE r == DrivePayment(c, [type |-> "UserApproved"])
  <2>1. Good(r, ok, gone) /\ Keeps(c, r)
    BY <1>5, PaymentApproved
  <2>. QED
    BY <1>5, <2>1 DEF Consented
<1>6. CASE c.active = "Qes"
  <2>. DEFINE r == DriveQes(c, [type |-> "UserAuthorized"])
  <2>1. Good(r, ok, gone) /\ Keeps(c, r)
    BY <1>6, QesApproved
  <2>. QED
    BY <1>6, <2>1 DEF Consented
<1>7. CASE c.active = "Issuance"
  <2>. DEFINE r == DriveIssuance(c, [type |-> "AcceptOffer"])
  <2>1. Good(r, ok, gone) /\ Keeps(c, r)
    BY <1>7, IssuanceAccepted
  <2>. QED
    BY <1>7, <2>1 DEF Consented
<1>. QED
  BY <1>1, <1>2, <1>3, <1>4, <1>5, <1>6, <1>7 DEF AllFlows

(* What declining each flow's screen returns.                              *)
LEMMA DeclinedGood ==
  ASSUME NEW c, NEW ok, NEW gone, Inv(c, ok, gone), NEW op, Fits(c, ok, op),
         op.result = "Decision"
  PROVE  Good(Declined(c), ok, gone) /\ Keeps(c, Declined(c))
<1>1. /\ c.active \in AllFlows \ {"WalletTransfer"}
      /\ c.active = "Presentation" =>
            c.machine["Presentation"].at \in {"RequestValidated",
                                              "AwaitingDeviceSignature", "Presenting"}
  BY DEF Fits, Inv, CoreType
<1>2. CASE c.active = "Presentation"
  <2>. DEFINE r == PresentationDeclined(c)
  <2>1. Good(r, ok, gone) /\ Keeps(c, r)
    BY <1>1, <1>2, PresentationDeclines
  <2>. QED
    BY <1>2, <2>1 DEF Declined
<1>3. CASE c.active = "Proximity"
  <2>. DEFINE r == DriveProximity(c, [type |-> "ConsentDeclined"])
  <2>1. Good(r, ok, gone) /\ Keeps(c, r)
    BY <1>3, ProximityDeclined
  <2>. QED
    BY <1>3, <2>1 DEF Declined
<1>4. CASE c.active = "DcApi"
  <2>. DEFINE r == Result(ResetFlow(c, "DcApi"), <<Close>>)
  <2>1. Base(c, "DcApi", gone) /\ "DcApi" \in AllFlows /\ <<Close>> \in Seq(Quiet)
    BY <1>4, BaseOfInv, ErrorAndCloseQuiet DEF AllFlows
  <2>2. Good(r, ok, gone) /\ Keeps(c, r)
    BY <2>1, ResetGood
  <2>. QED
    BY <1>4, <2>2 DEF Declined
<1>5. CASE c.active = "Payment"
  <2>. DEFINE r == DrivePayment(c, [type |-> "UserDeclined"])
  <2>1. Good(r, ok, gone) /\ Keeps(c, r)
    BY <1>5, PaymentDeclined
  <2>. QED
    BY <1>5, <2>1 DEF Declined
<1>6. CASE c.active = "Qes"
  <2>. DEFINE r == DriveQes(c, [type |-> "UserDeclined"])
  <2>1. Good(r, ok, gone) /\ Keeps(c, r)
    BY <1>6, QesDeclined
  <2>. QED
    BY <1>6, <2>1 DEF Declined
<1>7. CASE c.active = "Issuance"
  <2>. DEFINE r == DriveIssuance(c, [type |-> "Decline"])
  <2>1. Good(r, ok, gone) /\ Keeps(c, r)
    BY <1>7, IssuanceDeclined
  <2>. QED
    BY <1>7, <2>1 DEF Declined
<1>. QED
  BY <1>1, <1>2, <1>3, <1>4, <1>5, <1>6, <1>7 DEF AllFlows

(* What a signature of the device key returns in each flow.                *)
LEMMA SignedGood ==
  ASSUME NEW c, NEW ok, NEW gone, Inv(c, ok, gone), NEW op, Fits(c, ok, op),
         op.result = "Signature"
  PROVE  Good(Signed(c), ok, gone) /\ Keeps(c, Signed(c))
<1>1. /\ c.active \in AllFlows \ {"WalletTransfer"}
      /\ c.active = "Presentation" =>
            c.machine["Presentation"].at \in {"AwaitingDeviceSignature", "Presenting"}
      /\ c.active = "DcApi" => c.doc["DcApi"] \in ok
  BY DEF Fits, Inv, CoreType
<1>2. CASE c.active = "Presentation"
  <2>. DEFINE r == PresentationSigned(c)
  <2>1. Good(r, ok, gone) /\ Keeps(c, r)
    BY <1>1, <1>2, PresentationSigns
  <2>. QED
    BY <1>2, <2>1 DEF Signed
<1>3. CASE c.active = "Proximity"
  <2>. DEFINE r == DriveProximity(c, [type |-> "DeviceSignatureProduced"])
  <2>1. Good(r, ok, gone) /\ Keeps(c, r)
    BY <1>3, ProximitySigned
  <2>. QED
    BY <1>3, <2>1 DEF Signed
<1>4. CASE c.active = "DcApi"
  <2>. DEFINE r == DcApiSignatureProduced(c)
  <2>1. Good(r, ok, gone) /\ Keeps(c, r)
    BY <1>1, <1>4, DcApiSigned
  <2>. QED
    BY <1>4, <2>1 DEF Signed
<1>5. CASE c.active = "Payment"
  <2>. DEFINE r == DrivePayment(c, [type |-> "AuthCodeSignatureProduced"])
  <2>1. Good(r, ok, gone) /\ Keeps(c, r)
    BY <1>5, PaymentSigned
  <2>. QED
    BY <1>5, <2>1 DEF Signed
<1>6. CASE c.active = "Qes"
  <2>. DEFINE r == DriveQes(c, [type |-> "AuthorizationSignatureProduced"])
  <2>1. Good(r, ok, gone) /\ Keeps(c, r)
    BY <1>6, QesSigned
  <2>. QED
    BY <1>6, <2>1 DEF Signed
<1>7. CASE c.active = "Issuance"
  <2>. DEFINE r == DriveIssuance(c, [type |-> "ProofSignatureProduced"])
  <2>1. Good(r, ok, gone) /\ Keeps(c, r)
    BY <1>7, IssuanceProved
  <2>. QED
    BY <1>7, <2>1 DEF Signed
<1>. QED
  BY <1>1, <1>2, <1>3, <1>4, <1>5, <1>6, <1>7 DEF AllFlows

(* The holder approves what the screen shows, and only that.               *)
LEMMA UserApprovesStep ==
  ASSUME Inv(core, approved, spent), UserApproves, PlansCount, ListsCount
  PROVE  Turn /\ LogTurn
<1>1. PICK id \in Answerable("Decision") :
        /\ Released(Consented(Consume(id)))
        /\ approved' = approved \cup {core.pending[id].about}
        /\ history' = history
  BY DEF UserApproves
<1>. DEFINE c == Consume(id)
            op == core.pending[id]
            ok == approved \cup {op.about}
            r == Consented(c)
<1>2. /\ Inv(c, approved, spent) /\ c.log = core.log /\ (Proving(c) <=> Proving(core))
      /\ Fits(c, approved, op) /\ op.result = "Decision"
  BY Answering, SMTT(60)
<1>. HIDE DEF c
<1>3. Inv(c, ok, spent)
  BY <1>2, MoreApproved
<1>4. Fits(c, ok, op) /\ op.about = c.hash[c.active]
  BY <1>2 DEF Fits
<1>5. c.hash[c.active] \in ok
  BY <1>4
<1>. HIDE DEF ok
<1>6. Good(r, ok, spent) /\ Keeps(c, r)
  BY <1>2, <1>3, <1>4, <1>5, ConsentedGood
<1>. HIDE DEF r
<1>7. r.core.log = core.log /\ (Proving(r.core) => Proving(core))
  BY <1>2, <1>6 DEF Keeps
<1>8. Released(r) /\ approved' = ok
  BY <1>1 DEF r, c, ok
<1>9. Turn /\ core'.log = r.core.log
  BY <1>6, <1>7, <1>8, ReleaseTurn
<1>. QED
  BY <1>1, <1>7, <1>9 DEF LogTurn

(* The holder declines.                                                    *)
LEMMA UserDeclinesStep ==
  ASSUME Inv(core, approved, spent), UserDeclines
  PROVE  Turn /\ LogTurn
<1>1. PICK id \in Answerable("Decision") : Event(Declined(Consume(id)))
  BY DEF UserDeclines, Answer
<1>. DEFINE c == Consume(id)
            op == core.pending[id]
            r == Declined(c)
<1>2. /\ id \in DOMAIN core.pending /\ Inv(c, approved, spent)
      /\ Fits(c, approved, op) /\ op.result = "Decision"
  BY Answering, SMTT(60)
<1>. HIDE DEF c, op
<1>3. Good(r, approved, spent) /\ Keeps(c, r)
  BY <1>2, DeclinedGood
<1>. QED
  BY <1>1, <1>2, <1>3, AnswerTurn DEF c

(* The device key signs.                                                   *)
LEMMA DeviceSignatureProducedStep ==
  ASSUME Inv(core, approved, spent), DeviceSignatureProduced
  PROVE  Turn /\ LogTurn
<1>1. PICK id \in Answerable("Signature") : Event(Signed(Consume(id)))
  BY DEF DeviceSignatureProduced, Answer
<1>. DEFINE c == Consume(id)
            op == core.pending[id]
            r == Signed(c)
<1>2. /\ id \in DOMAIN core.pending /\ Inv(c, approved, spent)
      /\ Fits(c, approved, op) /\ op.result = "Signature"
  BY Answering, SMTT(60)
<1>. HIDE DEF c, op
<1>3. Good(r, approved, spent) /\ Keeps(c, r)
  BY <1>2, SignedGood
<1>. QED
  BY <1>1, <1>2, <1>3, AnswerTurn DEF c

(* An operation that needs no handling succeeds.                           *)
LEMMA OperationSucceededStep ==
  ASSUME Inv(core, approved, spent), OperationSucceeded
  PROVE  Turn /\ LogTurn
<1>1. PICK id \in Answerable("Succeeded") : Event(Result(Consume(id), << >>))
  BY DEF OperationSucceeded, Answer
<1>. DEFINE c == Consume(id)
            r == Result(c, << >>)
<1>2. id \in DOMAIN core.pending /\ Inv(c, approved, spent)
  BY Answering, SMTT(60)
<1>. HIDE DEF c
<1>3. Good(r, approved, spent) /\ Keeps(c, r)
  BY <1>2, Silent, Returns
<1>. QED
  BY <1>1, <1>2, <1>3, AnswerTurn DEF c

(* An operation fails or is cancelled: its flow is reset.                  *)
LEMMA OperationEndedStep ==
  ASSUME Inv(core, approved, spent), OperationEnded
  PROVE  Turn /\ LogTurn
<1>1. PICK id \in DOMAIN core.pending :
        /\ core.pending[id].flow = core.active
        /\ Event(OperationTerminal(Consume(id), core.pending[id]))
  BY DEF OperationEnded
<1>. DEFINE c == Consume(id)
            f == core.active
            r == Result(ResetFlow(c, f), ErrorAndClose)
<1>2. Inv(c, approved, spent) /\ c.active = f /\ Fits(core, approved, core.pending[id])
  BY Consumed, SMTT(60)
<1>3. Event(r)
  BY <1>1 DEF OperationTerminal
<1>. HIDE DEF c
<1>4. f \in AllFlows
  BY <1>2 DEF Fits, Inv, CoreType
<1>5. Base(c, f, spent) /\ ErrorAndClose \in Seq(Quiet)
  BY <1>2, BaseOfInv, ErrorAndCloseQuiet
<1>6. Good(r, approved, spent) /\ Keeps(c, r)
  BY <1>4, <1>5, ResetGood
<1>. QED
  BY <1>3, <1>6, AnswerTurn DEF c

-----------------------------------------------------------------------------
(* Every event is a turn of the wallet.                                    *)
LEMMA NextTurn ==
  ASSUME Inv(core, approved, spent), Next, PlansCount, ListsCount
  PROVE  Turn /\ LogTurn
<1>1. CASE Results
  BY <1>1, ResolveRpTrustStep, ReceiveStatusListStep, DeliverPresentationStep,
     DeliverPaymentStep, DeliverQesStep, ParPushedStep, AuthorizationCodeReturnedStep,
     TransactionCodeEnteredStep, ReceiveTokenStep, ReceiveCredentialStep,
     UserApprovesStep, UserDeclinesStep, DeviceSignatureProducedStep,
     OperationSucceededStep, OperationEndedStep DEF Results
<1>2. CASE Arrivals
  BY <1>2, AuthorizationRequestReceivedStep, PaymentRequestReceivedStep,
     QesSignRequestReceivedStep, CredentialOfferReceivedStep, CreateTransferOfferStep,
     ReceiveTransferStep, RequestEngagementStep, ReaderEstablishmentStep,
     ReaderTerminationStep, ReceiveDcApiRequestStep DEF Arrivals
<1>3. CASE Environment
  BY <1>3, SetClockStep, LoadTrustListStep, IngestCredentialStep, RedactTransactionStep,
     WipeTransactionLogStep, RestartStep DEF Environment
<1>. QED
  BY <1>1, <1>2, <1>3 DEF Next

(* What the released effects rest on, when they are released.              *)
Warranted ==
    \A e \in Range(effects) :
        /\ e.kind \in Consequential => e.about \in approved
        /\ e.kind \in {"Sign", "Http"} /\ e.flow = "Presentation" => Covered(core)

(* The inductive invariant of the wallet.                                  *)
WalletInv ==
    /\ Inv(core, approved, spent)
    /\ Warranted
    /\ history \in Seq(Entries)
    /\ LogIsHistory

(* Whatever a turn does to the log, it does to the history.                *)
LEMMA LogStep ==
  ASSUME core.log \in Seq(Entries), history \in Seq(Entries), LogIsHistory, LogTurn
  PROVE  history' \in Seq(Entries) /\ LogIsHistory'
<1>1. Tombstone \in Entries
  BY SMTT(60) DEF Tombstone, Entries, Shown, AllFlows
<1>2. CASE core'.log = core.log /\ history' = history
  BY <1>2 DEF LogIsHistory
<1>3. ASSUME NEW f \in AllFlows, NEW x \in Shown \cup Credentials, Logs(f, x)
      PROVE  history' \in Seq(Entries) /\ LogIsHistory'
  <2>. DEFINE e == [kind |-> f, shown |-> x]
  <2>1. e \in Entries
    BY SMTT(60) DEF Entries
  <2>2. core'.log = Append(core.log, e) /\ history' = Append(history, e)
    BY <1>3 DEF Logs
  <2>. HIDE DEF e
  <2>3. history' \in Seq(Entries) /\ Len(core'.log) = Len(history')
    BY <2>1, <2>2, SMTT(60) DEF LogIsHistory
  <2>4. \A i \in DOMAIN core'.log : core'.log[i] \in {history'[i], Tombstone}
    BY <2>1, <2>2, SMTT(60) DEF LogIsHistory
  <2>. QED
    BY <2>3, <2>4 DEF LogIsHistory
<1>4. ASSUME NEW seq \in 1 .. Len(core.log), history' = history,
             core'.log = [core.log EXCEPT ![seq] = Tombstone]
      PROVE  history' \in Seq(Entries) /\ LogIsHistory'
  <2>1. /\ Len(core'.log) = Len(core.log)
        /\ \A i \in DOMAIN core'.log : core'.log[i] \in {core.log[i], Tombstone}
        /\ DOMAIN core'.log = DOMAIN core.log
    BY <1>1, <1>4, SMTT(60)
  <2>. QED
    BY <1>4, <2>1 DEF LogIsHistory
<1>5. CASE core'.log = << >> /\ history' = << >>
  <2>1. Len(core'.log) = Len(history') /\ DOMAIN core'.log = {} /\ history' \in Seq(Entries)
    BY <1>5, SMTT(60)
  <2>. QED
    BY <2>1 DEF LogIsHistory
<1>. QED
  BY <1>2, <1>3, <1>4, <1>5 DEF LogTurn

(* What a turn releases is warranted by the state it leaves.               *)
LEMMA WarrantedStep ==
  ASSUME Turn
  PROVE  Warranted'
<1>. DEFINE d == core'
            ok == approved'
            out == effects'
<1>1. out \in Seq(Allowed(d, ok, spent))
  BY DEF Turn
<1>. HIDE DEF d, ok, out
<1>2. ASSUME NEW e \in Range(out)
      PROVE  /\ e.kind \in Consequential => e.about \in ok
             /\ e.kind \in {"Sign", "Http"} /\ e.flow = "Presentation" => Covered(d)
  <2>1. e \in Allowed(d, ok, spent)
    BY <1>1, InRange
  <2>. QED
    BY <2>1 DEF Allowed, EffectOK
<1>. QED
  BY <1>2 DEF Warranted, d, ok, out

(* A plan is finite, and so are the lists it refers to.                    *)
LEMMA PlanCounts ==
  ASSUME NEW plan \in SUBSET Credentials, plan # {}
  PROVE  Cardinality(plan) # 0
<1>1. IsFiniteSet(plan)
  BY EvidenceAssumption, FS_Subset
<1>. QED
  BY <1>1, FS_EmptySet

(* The lists can be put in order.                                          *)
LEMMA FetchOrder ==
  ASSUME NEW uris \in SUBSET {StatusUri[x] : x \in Credentials}
  PROVE  /\ Cardinality(uris) \in Nat
         /\ \E s \in Bijection(1 .. Cardinality(uris), uris) : TRUE
<1>. DEFINE all == {StatusUri[x] : x \in Credentials}
            of == [x \in Credentials |-> StatusUri[x]]
<1>1. of \in Surjection(Credentials, all)
  BY DEF Surjection
<1>. HIDE DEF of
<1>2. IsFiniteSet(all)
  BY <1>1, EvidenceAssumption, FS_Surjection
<1>3. IsFiniteSet(uris)
  BY <1>2, FS_Subset
<1>4. Cardinality(uris) \in Nat /\ ExistsBijection(1 .. Cardinality(uris), uris)
  BY <1>3, FS_CardinalityType
<1>. QED
  BY <1>4 DEF ExistsBijection

(* Both facts as the lemmas on presentations ask for them.                 *)
LEMMA Counts == PlansCount /\ ListsCount
BY PlanCounts, FetchOrder DEF PlansCount, ListsCount

(* The invariant holds when the process starts with an empty log.          *)
THEOREM WalletInitially == Init => WalletInv
<1>. SUFFICES ASSUME Init PROVE WalletInv
  OBVIOUS
<1>1. Inv(core, approved, spent) /\ effects = << >>
  BY InitStep
<1>2. Range(effects) = {}
  BY <1>1, SMTT(60) DEF Range
<1>3. core.log = << >> /\ history = << >>
  BY DEF Init, NewCore, Fresh
<1>4. history \in Seq(Entries) /\ Len(core.log) = Len(history) /\ DOMAIN core.log = {}
  BY <1>3, SMTT(60)
<1>. QED
  BY <1>1, <1>2, <1>4 DEF WalletInv, Warranted, LogIsHistory

(* Every event the native shell may send keeps it.                         *)
THEOREM WalletStep == WalletInv /\ [Next]_vars => WalletInv'
<1>. SUFFICES ASSUME WalletInv, [Next]_vars PROVE WalletInv'
  OBVIOUS
<1>1. CASE Next
  <2>1. Turn /\ LogTurn
    BY <1>1, Counts, NextTurn DEF WalletInv
  <2>2. Warranted'
    BY <2>1, WarrantedStep
  <2>3. history' \in Seq(Entries) /\ LogIsHistory'
    BY <2>1, LogStep DEF WalletInv, Inv, CoreType
  <2>. QED
    BY <2>1, <2>2, <2>3 DEF WalletInv, Turn
<1>2. CASE UNCHANGED vars
  BY <1>2 DEF vars, WalletInv, Warranted, LogIsHistory
<1>. QED
  BY <1>1, <1>2

(* The invariant of the wallet core holds throughout, for any requests,    *)
(* nonces, grants, credentials, status lists, trusted lists and limits.    *)
THEOREM WalletInductive == Spec => []WalletInv
BY WalletInitially, WalletStep, PTL DEF Spec

(* Only the active flow is under way, whichever event replaces, ends or    *)
(* restarts it: every other machine is at rest, with no operation a late   *)
(* callback could answer and no screen an approval could match             *)
(* (begin_flow, reset_flow).                                               *)
THEOREM WalletOneFlowAtATime == Spec => []OneFlowAtATime
<1>1. WalletInv => OneFlowAtATime
  BY DEF WalletInv, Inv, OthersRest, Fits, OneFlowAtATime
<1>. QED
  BY <1>1, WalletInductive, PTL

(* Whatever the device key signs and whatever leaves the wallet was        *)
(* approved on a screen of this very session (wire_authorization_hash).    *)
THEOREM WalletNothingUnapproved == Spec => []NothingUnapproved
<1>1. WalletInv => NothingUnapproved
  BY DEF WalletInv, Warranted, NothingUnapproved, EffectsIn
<1>. QED
  BY <1>1, WalletInductive, PTL

(* The audit log is the history of completed interactions, in order, each  *)
(* with what the holder was shown (append_audit_entry).                    *)
THEOREM WalletLogIsHistory == Spec => []LogIsHistory
<1>1. WalletInv => LogIsHistory
  BY DEF WalletInv
<1>. QED
  BY <1>1, WalletInductive, PTL

(* A completed interaction can always be recorded: the audit fault never   *)
(* latches (audit_log_fault_effects), because admission and the dry run    *)
(* reserved the room.                                                      *)
THEOREM WalletAuditNeverFaults == Spec => []AuditNeverFaults
<1>1. WalletInv => AuditNeverFaults
  BY DEF WalletInv, Inv, AuditNeverFaults
<1>. QED
  BY <1>1, WalletInductive, PTL

(* A remote presentation signs and sends only on evidence that is current  *)
(* at that very moment (presentation_sensitive_abort_reason).              *)
THEOREM WalletDisclosedOnCurrentEvidence == Spec => []DisclosedOnCurrentEvidence
<1>1. WalletInv => DisclosedOnCurrentEvidence
  <2>1. ASSUME Warranted, NEW e \in EffectsIn(effects, {"Sign", "Http"}),
               e.flow = "Presentation"
        PROVE  Covered(core)
    BY <2>1 DEF Warranted, EffectsIn
  <2>. QED
    BY <2>1 DEF WalletInv, DisclosedOnCurrentEvidence, Covered
<1>. QED
  BY <1>1, WalletInductive, PTL

(* Nothing leaves the wallet twice under one nonce and no c_nonce is       *)
(* proved twice, whatever is repeated, replaced, cancelled or restarted in *)
(* between.                                                                *)
THEOREM WalletNoncesSpentOnce == Spec => NoncesSpentOnce
<1>. DEFINE Once == /\ Spends(effects') \cap spent = {}
                    /\ core'.machine["Issuance"].at = "ProvingPossession"
                       /\ core.machine["Issuance"].at # "ProvingPossession"
                       => spent' # spent
<1>1. WalletInv /\ [Next]_vars => [Once]_vars
  <2>. SUFFICES ASSUME WalletInv, Next PROVE Once
    OBVIOUS
  <2>1. Turn
    BY Counts, NextTurn DEF WalletInv
  <2>. DEFINE d == core'
              ok == approved'
              out == effects'
  <2>2. out \in Seq(Allowed(d, ok, spent))
    BY <2>1 DEF Turn
  <2>. HIDE DEF d, ok, out
  <2>3. Accounted(d, ok, spent, Spends(out)) /\ Spends(out) \cap spent = {}
    BY <2>2, SpendsAllowed
  <2>4. Spends(effects') \cap spent = {}
    BY <2>3 DEF out
  <2>. QED
    BY <2>1, <2>4 DEF Turn, Proving
<1>. QED
  BY <1>1, WalletInductive, PTL DEF Spec, NoncesSpentOnce

=============================================================================
