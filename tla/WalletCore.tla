----------------------------- MODULE WalletCore -----------------------------
(***************************************************************************)
(* The wallet core behind its JSON boundary (crates/wallet-core): every    *)
(* event the native shell may send, in any order, with the effects each    *)
(* one releases.                                                           *)
(*                                                                         *)
(* core is the state of the Core; effects is the batch released by the     *)
(* last event.  An event the boundary refuses (a stale operation id, a     *)
(* result of the wrong kind, a wrong authorization hash) changes nothing   *)
(* and is not a step.                                                      *)
(*                                                                         *)
(* The remaining variables record history for the properties: approved is  *)
(* what the holder approved in the current session, spent the nonces under *)
(* which something left the wallet, history the interactions completed     *)
(* since the log was last erased, sessions the number of requests so far.  *)
(***************************************************************************)
EXTENDS WalletFlows

CONSTANTS Flows,        \* the flows the shell starts
          InitiallyHeld,\* credentials held when the process starts
          StatusLists,  \* contents of the status lists the provider may sign
          MaxClock,     \* bound on the trusted clock
          MaxSessions   \* bound on the requests received

ASSUME WalletAssumption ==
    /\ MaxLog \in Nat /\ MaxClock \in Nat
    /\ InitiallyHeld \subseteq Credentials
    /\ \A list \in StatusLists, x \in Credentials :
          list.says[x] \in {"Valid", "Invalid", "Unknown"}

VARIABLES core, effects, approved, spent, history, sessions

vars == <<core, effects, approved, spent, history, sessions>>

CNonces == {NonceOf[r] : r \in Requests}

(* A Core with an empty ephemeral part.                                    *)
Fresh(c) ==
    [c EXCEPT !.active = None, !.machine = [f \in AllFlows |-> IdleMachine],
              !.pending = << >>, !.hash = [f \in AllFlows |-> None],
              !.session = None, !.refs = {}, !.secrets = FALSE,
              !.doc = [f \in {"Proximity", "DcApi"} |-> None],
              !.status = << >>, !.transferred = None, !.auditOk = TRUE]

NewCore ==
    Fresh([active |-> None, machine |-> << >>, pending |-> << >>, nextId |-> 1,
           hash |-> << >>, session |-> None, refs |-> {}, doc |-> << >>,
           secrets |-> FALSE, auditOk |-> TRUE, log |-> << >>, clock |-> 1,
           trust |-> 1, status |-> << >>, held |-> InitiallyHeld,
           seen |-> [f \in {"Presentation", "Payment", "Issuance", "Qes"} |-> {}],
           transferred |-> None, interrupted |-> FALSE])

Init ==
    /\ core = NewCore
    /\ effects = << >>
    /\ approved = {}
    /\ spent = {}
    /\ history = << >>
    /\ sessions = 0

-----------------------------------------------------------------------------
(* The boundary.                                                           *)

EffectsIn(batch, kinds) == {e \in Range(batch) : e.kind \in kinds}

(* What the released batch spends: the nonce of each delivered request.    *)
Spends(batch) ==
    {<<e.flow, NonceOf[e.about]>> : e \in EffectsIn(batch, {"Http"})}

(* The event's effects are put on the wire; result r before, core after.   *)
Released(r) ==
    LET wire == SerializeWireEffects(r)
    IN  /\ core' = wire.core
        /\ effects' = wire.out
        /\ spent' = spent \cup Spends(wire.out)

(* An event that is neither a result nor the start of a flow.              *)
Event(r) == Released(r) /\ UNCHANGED <<approved, history, sessions>>

(* An event that starts a flow: nothing is approved in it yet.             *)
Start(flow, r) ==
    /\ flow \in Flows
    /\ sessions < MaxSessions
    /\ sessions' = sessions + 1
    /\ Released(r)
    /\ approved' = {}
    /\ UNCHANGED history

(* The operations a result of this kind may answer.                        *)
Answerable(kind) ==
    {id \in DOMAIN core.pending : /\ core.pending[id].flow = core.active
                                  /\ core.pending[id].result = kind}

(* The core once the answered operation has been consumed.                 *)
Consume(id) ==
    [core EXCEPT !.pending = [i \in DOMAIN @ \ {id} |-> @[i]]]

(* A result event: r(c) is what the handler makes of the consumed core.    *)
Answer(kind, flows, r(_)) ==
    /\ core.active \in flows
    /\ \E id \in Answerable(kind) : Event(r(Consume(id)))

(* A result that, when completes is true, completes an interaction: the    *)
(* wallet must remember what the answered operation was about.             *)
Complete(kind, flow, completes, r(_)) ==
    /\ core.active = flow
    /\ \E id \in Answerable(kind) :
          /\ Released(r(Consume(id)))
          /\ history' = IF completes
                        THEN Append(history, [kind |-> flow,
                                              shown |-> core.pending[id].about])
                        ELSE history
    /\ UNCHANGED <<approved, sessions>>

-----------------------------------------------------------------------------
(* Events about the environment and the log.                               *)

(* The clock is a high-water mark: a step backwards ends a presentation.   *)
SetClock ==
    \E epoch \in 1 .. MaxClock :
        IF epoch >= core.clock
        THEN /\ epoch # core.clock
             /\ Event(Result([core EXCEPT !.clock = epoch], << >>))
        ELSE Event(IF core.active = "Presentation"
                   THEN AbortPresentation(core, "ClockRollback")
                   ELSE Result(core, ErrorAndClose))

LoadTrustList ==
    \E n \in DOMAIN TrustLists :
        /\ n > core.trust
        /\ core.clock <= TrustLists[n].until
        /\ Event(Result([core EXCEPT !.trust = n], << >>))

IngestCredential ==
    \E x \in Credentials \ core.held :
        /\ core.clock <= ExpiresAt[x]
        /\ IssuerTrusted(core)
        /\ Event(Result([core EXCEPT !.held = @ \cup {x}], << >>))

(* A redacted entry keeps its place in the log and nothing else.           *)
Tombstone == [kind |-> "Presentation", shown |-> None]

RedactTransaction ==
    \E seq \in 1 .. Len(core.log) :
        /\ core.log[seq] # Tombstone
        /\ Event(Result([core EXCEPT !.log[seq] = Tombstone], << >>))

WipeTransactionLog ==
    /\ Released(Result([core EXCEPT !.log = << >>, !.auditOk = TRUE], << >>))
    /\ history' = << >>
    /\ UNCHANGED <<approved, sessions>>

(* The process ends and a new one restores the committed checkpoint.  The  *)
(* restore re-authenticates every credential under the current trusted     *)
(* list and attestation; operation ids go on in a fresh namespace.         *)
Restart ==
    /\ core.auditOk /\ TrustListValid(core) /\ WuaValid(core)
    /\ \A x \in core.held : CredentialIsCurrent(core, x)
    /\ core' = [Fresh(core) EXCEPT !.interrupted =
                   core.active = "Issuance"
                   /\ core.machine["Issuance"].at \notin {"Idle", "Aborted"}]
    /\ effects' = << >>
    /\ approved' = {}
    /\ UNCHANGED <<spent, history, sessions>>

-----------------------------------------------------------------------------
(* Remote presentation.                                                    *)

AuthorizationRequestReceived ==
    \E req \in Requests, parsed \in BOOLEAN :
        Start("Presentation",
              Admit(core, "Presentation",
                    Drive(BeginFlow(core, "Presentation"),
                          [type |-> "AuthorizationRequest", parsed |-> parsed,
                           req |-> req])))

ResolveRpTrust ==
    \E verdict \in Verdict,
       plan \in SUBSET {x \in core.held : CredentialIsCurrent(core, x)} :
        Answer("RpCertChain", {"Presentation"},
               LAMBDA c : RpCertChainResolved(c, verdict, plan))

ReceiveStatusList ==
    \E list \in StatusLists, answered \in BOOLEAN :
        /\ core.active = "Presentation"
        /\ \E id \in Answerable("StatusList") :
              Event(StatusListReceived(Consume(id), core.pending[id].about,
                                       answered, list))

DeliverPresentation ==
    Complete("Delivery", "Presentation", TRUE, PresentationDelivered)

-----------------------------------------------------------------------------
(* Payment and qualified signature.                                        *)

PaymentRequestReceived ==
    \E req \in Requests, parsed \in BOOLEAN :
        Start("Payment",
              Admit(core, "Payment",
                    DrivePayment(BeginFlow(core, "Payment"),
                                 [type |-> "PaymentAuthorizationRequest",
                                  parsed |-> parsed, req |-> req])))

DeliverPayment ==
    Complete("Delivery", "Payment", TRUE, PaymentAuthorizationDelivered)

QesSignRequestReceived ==
    \E req \in Requests, parsed \in BOOLEAN :
        Start("Qes", DriveQes(BeginFlow(core, "Qes"),
                              [type |-> "SignatureRequest", parsed |-> parsed,
                               req |-> req]))

DeliverQes == Answer("Delivery", {"Qes"}, QesAuthorizationDelivered)

-----------------------------------------------------------------------------
(* Issuance.                                                               *)

CredentialOfferReceived ==
    \E req \in Requests, parsed \in BOOLEAN :
        Start("Issuance",
              Admit(core, "Issuance",
                    DriveIssuance(BeginFlow(core, "Issuance"),
                                  [type |-> "CredentialOffer", parsed |-> parsed,
                                   req |-> req])))

IssuanceResult(kind, in) ==
    Answer(kind, {"Issuance"}, LAMBDA c : DriveIssuance(c, in))

ParPushed ==
    \E valid \in BOOLEAN :
        IssuanceResult("Par", [type |-> "ParPushed", valid |-> valid])

AuthorizationCodeReturned ==
    IssuanceResult("AuthorizationCode", [type |-> "AuthCodeReturned"])

TransactionCodeEntered ==
    \E valid \in BOOLEAN :
        IssuanceResult("TransactionCode", [type |-> "TxCodeEntered", valid |-> valid])

(* The proof the token leads to is made under the token's c_nonce.         *)
ReceiveToken ==
    \E valid \in BOOLEAN, nonce \in CNonces :
        /\ core.active = "Issuance"
        /\ \E id \in Answerable("Token") :
              LET r == TokenReceived(Consume(id),
                           [type |-> "TokenResponse", valid |-> valid, nonce |-> nonce])
                  wire == SerializeWireEffects(r)
              IN  /\ core' = wire.core
                  /\ effects' = wire.out
                  /\ spent' = IF EffectsIn(wire.out, {"Sign"}) = {} THEN spent
                              ELSE spent \cup {<<"Issuance", nonce>>}
        /\ UNCHANGED <<approved, history, sessions>>

ReceiveCredential ==
    \E valid \in BOOLEAN, credential \in Credentials :
        LET in == [type |-> "CredentialResponse", valid |-> valid,
                   credential |-> credential]
        IN  Complete("Credential", "Issuance", Authenticates(core, in),
                     LAMBDA c : CredentialReceived(c, in))

-----------------------------------------------------------------------------
(* Wallet-to-wallet transfer.  An event that the wallet answers with the   *)
(* in-progress notice starts no flow.                                      *)

TransferStarts(r) ==
    IF MayTransfer(core) THEN Start("WalletTransfer", r)
    ELSE "WalletTransfer" \in Flows /\ Event(r)

CreateTransferOffer ==
    TransferStarts(Admit(core, "WalletTransfer", TransferOfferCreated(core)))

ReceiveTransfer ==
    \E issuerValid, peerBound \in BOOLEAN, credential \in Credentials :
        LET in == [type |-> "TransferReceived", issuerValid |-> issuerValid,
                   peerBound |-> peerBound, credential |-> credential]
            r  == Admit(core, "WalletTransfer", TransferReceived(core, in))
            accepted == /\ core.machine["WalletTransfer"].at = "AwaitingTransfer"
                        /\ issuerValid /\ IssuerTrusted(core) /\ peerBound
        IN  /\ "WalletTransfer" \in Flows
            /\ sessions < MaxSessions
            /\ sessions' = sessions + 1
            /\ Released(r)
            /\ history' = IF accepted
                          THEN Append(history, [kind |-> "WalletTransfer",
                                                shown |-> credential])
                          ELSE history
            /\ UNCHANGED approved

-----------------------------------------------------------------------------
(* In-person presentation and the Digital Credentials API.                 *)

RequestEngagement ==
    \/ Start("Proximity", EngagementRequested(core, TRUE))
    \/ "Proximity" \in Flows /\ Event(EngagementRequested(core, FALSE))

ReaderEstablishment ==
    \E req \in Requests, agrees, matches \in BOOLEAN :
        /\ "Proximity" \in Flows
        /\ Event(DriveProximity(core, [type |-> "ReaderEstablishment", req |-> req,
                                       agrees |-> agrees, matches |-> matches]))

ReaderTermination ==
    /\ "Proximity" \in Flows
    /\ Event(DriveProximity(core, [type |-> "ReaderTermination"]))

ReceiveDcApiRequest ==
    \E req \in Requests, matches \in BOOLEAN :
        Start("DcApi", DcApiRequestReceived(core, req, matches))

-----------------------------------------------------------------------------
(* Results that several flows share.                                       *)

Consented(c) ==
    CASE c.active = "Presentation" -> PresentationConsented(c)
      [] c.active = "Proximity" -> DriveProximity(c, [type |-> "ConsentGranted"])
      [] c.active = "DcApi" -> DcApiConsentGranted(c)
      [] c.active = "Payment" -> DrivePayment(c, [type |-> "UserApproved"])
      [] c.active = "Qes" -> DriveQes(c, [type |-> "UserAuthorized"])
      [] c.active = "Issuance" -> DriveIssuance(c, [type |-> "AcceptOffer"])

Declined(c) ==
    CASE c.active = "Presentation" -> PresentationDeclined(c)
      [] c.active = "Proximity" -> DriveProximity(c, [type |-> "ConsentDeclined"])
      [] c.active = "DcApi" -> Result(ResetFlow(c, "DcApi"), <<Close>>)
      [] c.active = "Payment" -> DrivePayment(c, [type |-> "UserDeclined"])
      [] c.active = "Qes" -> DriveQes(c, [type |-> "UserDeclined"])
      [] c.active = "Issuance" -> DriveIssuance(c, [type |-> "Decline"])

Signed(c) ==
    CASE c.active = "Presentation" -> PresentationSigned(c)
      [] c.active = "Proximity" ->
            DriveProximity(c, [type |-> "DeviceSignatureProduced"])
      [] c.active = "DcApi" -> DcApiSignatureProduced(c)
      [] c.active = "Payment" -> DrivePayment(c, [type |-> "AuthCodeSignatureProduced"])
      [] c.active = "Qes" ->
            DriveQes(c, [type |-> "AuthorizationSignatureProduced"])
      [] c.active = "Issuance" ->
            DriveIssuance(c, [type |-> "ProofSignatureProduced"])

(* The approval carries the authorization hash of the screen it answers.   *)
UserApproves ==
    \E id \in Answerable("Decision") :
        /\ Released(Consented(Consume(id)))
        /\ approved' = approved \cup {core.pending[id].about}
        /\ UNCHANGED <<history, sessions>>

UserDeclines == Answer("Decision", AllFlows, Declined)

DeviceSignatureProduced == Answer("Signature", AllFlows, Signed)

(* A persisted nonce or a published offer needs no further handling.       *)
OperationSucceeded ==
    Answer("Succeeded", AllFlows, LAMBDA c : Result(c, << >>))

(* The shell reports that it could not perform the operation, or that it   *)
(* was cancelled; the core does the same with both.                        *)
OperationEnded ==
    \E id \in DOMAIN core.pending :
        /\ core.pending[id].flow = core.active
        /\ Event(OperationTerminal(Consume(id), core.pending[id]))

-----------------------------------------------------------------------------
(* What the shell or the holder answers; what comes from elsewhere.        *)
Results ==
    \/ ResolveRpTrust
    \/ ReceiveStatusList
    \/ DeliverPresentation
    \/ DeliverPayment
    \/ DeliverQes
    \/ ParPushed
    \/ AuthorizationCodeReturned
    \/ TransactionCodeEntered
    \/ ReceiveToken
    \/ ReceiveCredential
    \/ UserApproves
    \/ UserDeclines
    \/ DeviceSignatureProduced
    \/ OperationSucceeded
    \/ OperationEnded

Arrivals ==
    \/ AuthorizationRequestReceived
    \/ PaymentRequestReceived
    \/ QesSignRequestReceived
    \/ CredentialOfferReceived
    \/ CreateTransferOffer
    \/ ReceiveTransfer
    \/ RequestEngagement
    \/ ReaderEstablishment
    \/ ReaderTermination
    \/ ReceiveDcApiRequest

Environment ==
    \/ SetClock
    \/ LoadTrustList
    \/ IngestCredential
    \/ RedactTransaction
    \/ WipeTransactionLog
    \/ Restart

Next == Results \/ Arrivals \/ Environment

Spec == Init /\ [][Next]_vars

-----------------------------------------------------------------------------
(* Properties.                                                             *)

(* What the device key signs and what leaves the wallet is what the holder *)
(* approved on a screen of this very session (wire_authorization_hash and  *)
(* the pending operation's hash): never another request's approval, one    *)
(* given before the flow was replaced, or none.                            *)
NothingUnapproved ==
    \A e \in EffectsIn(effects, Consequential) : e.about \in approved

(* Only the active flow is under way: every other machine is at rest, has  *)
(* no operation that a late callback could answer and no screen hash that  *)
(* a later approval could match, and the ephemeral key of an in-person     *)
(* session is gone once another flow has begun.                            *)
OneFlowAtATime ==
    /\ \A f \in AllFlows \ {core.active} :
          /\ core.machine[f].at \in AtRest
          /\ core.hash[f] = None
          /\ \A id \in DOMAIN core.pending : core.pending[id].flow # f
    /\ core.secrets => core.active = "Proximity"

(* The operation each phase of an active flow waits for.                   *)
Awaited ==
    [Presentation |-> [ResolvingTrust |-> "RpCertChain",
                       AwaitingDeviceSignature |-> "Signature",
                       Presenting |-> "Delivery"],
     Payment |-> [AwaitingConfirmation |-> "Decision", AwaitingSca |-> "Signature",
                  Authorized |-> "Delivery"],
     Qes |-> [AwaitingAuthorization |-> "Decision", AwaitingSca |-> "Signature",
              Signed |-> "Delivery"],
     Issuance |-> [ReviewingOffer |-> "Decision", OfferParsed |-> "Par",
                   Authorizing |-> "AuthorizationCode",
                   AwaitingTxCode |-> "TransactionCode",
                   RequestingToken |-> "Token", ProvingPossession |-> "Signature",
                   RequestingCredential |-> "Credential"]]

(* A flow in a phase that waits has exactly one operation in flight that   *)
(* can move it, of the kind the phase expects: no phase is left without a  *)
(* callback, and none can be completed twice.  (The acknowledgement of a   *)
(* persisted nonce moves nothing, and neither does a status list fetched   *)
(* for an earlier look at the evidence.)  The operations in flight stay    *)
(* within the core's limit, whatever is dropped for it.                    *)
OneCallbackPerPhase ==
    /\ Cardinality(DOMAIN core.pending) <= MaxPendingOperations
    /\ \A f \in DOMAIN Awaited :
          LET moving == {id \in DOMAIN core.pending :
                            core.pending[id].result \notin {"Succeeded", "StatusList"}}
          IN  core.active = f /\ core.machine[f].at \in DOMAIN Awaited[f] =>
                  /\ Cardinality(moving) = 1
                  /\ \A id \in moving :
                        core.pending[id].result = Awaited[f][core.machine[f].at]

(* Nothing leaves the wallet twice under one nonce, however often the      *)
(* request is sent again and whatever fails, is cancelled or restarts in   *)
(* between; a c_nonce is proved at most once.                              *)
NoncesSpentOnce ==
    [][/\ Spends(effects') \cap spent = {}
       /\ core'.machine["Issuance"].at = "ProvingPossession"
          /\ core.machine["Issuance"].at # "ProvingPossession" => spent' # spent]_vars

(* The audit log is the history of completed interactions, each with what  *)
(* the holder was shown, in order; only redaction blanks an entry.         *)
LogIsHistory ==
    /\ Len(core.log) = Len(history)
    /\ \A i \in DOMAIN core.log : core.log[i] \in {history[i], Tombstone}

(* Admission reserves room for the entry of every flow it lets in, so that *)
(* a completed interaction can always be recorded.                         *)
AuditNeverFaults == core.auditOk

(* Whatever a remote presentation signs or sends is covered, at that very  *)
(* moment, by a trusted list that still registers the relying party, by    *)
(* credentials held and valid, and by an unexpired status list that calls  *)
(* each of them valid, from a provider trusted now.                        *)
DisclosedOnCurrentEvidence ==
    \A e \in EffectsIn(effects, {"Sign", "Http"}) :
        e.flow = "Presentation" =>
            /\ core.session # None /\ core.session.plan # {}
            /\ TrustList(core).rp /\ TrustList(core).issuer
            /\ core.clock <= TrustList(core).until
            /\ \A x \in core.session.plan :
                  /\ x \in core.held /\ core.clock <= ExpiresAt[x]
                  /\ StatusUri[x] # None =>
                        /\ TrustList(core).status
                        /\ StatusUri[x] \in DOMAIN core.status
                        /\ core.clock < core.status[StatusUri[x]].until
                        /\ core.status[StatusUri[x]].says[x] = "Valid"

(* Every operation handed to the shell is eventually answered, reported as *)
(* failed or cancelled: weak fairness of Results, with its enabling        *)
(* condition (an operation of the active flow is in flight) spelled out.   *)
Outstanding == \E id \in DOMAIN core.pending : core.pending[id].flow = core.active
FairSpec == Spec /\ ([]<>~Outstanding \/ []<><<Results>>_vars)

(* Every flow whose steps are all operations of the shell or decisions of  *)
(* the holder then ends.                                                   *)
FlowsEnd ==
    \A f \in {"Payment", "Qes", "Issuance", "DcApi"} :
        core.active = f ~> core.active # f

-----------------------------------------------------------------------------
(* What comments and messages of the code say and the code does not do.    *)

(* Delivery-policy failures "surface a stable error screen + close effect  *)
(* instead of silently stalling": a request that a guard on its delivery   *)
(* endpoints aborts is closed on the screen.                               *)
DeliveryPolicy ==
    {"ResponseModeUnsupported", "ResponseUriInvalid", "ResponseUriNotRegistered",
     "ResponseEncryptionMetadataInvalid", "RedirectUriNotRegistered"}
AbortsAreSurfaced ==
    [][(/\ core.machine["Presentation"].at # "Aborted"
        /\ core'.machine["Presentation"].why \in DeliveryPolicy)
       => Close \in Range(effects')]_vars

(* "Wait for the other in-flight responses": a consented presentation that *)
(* waits for status lists has a response in flight.                        *)
StatusWaitIsInFlight ==
    core.refs # {} => \E id \in DOMAIN core.pending :
                          core.pending[id].result = "StatusList"

(* "A credential transfer cannot replace another wallet operation."        *)
TransferReplacesNothing ==
    [][(CreateTransferOffer \/ ReceiveTransfer) /\ ~MayTransfer(core)
       => core'.active = core.active]_vars

=============================================================================
