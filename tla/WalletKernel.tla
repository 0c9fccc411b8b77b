---------------------------- MODULE WalletKernel ----------------------------
(***************************************************************************)
(* The bookkeeping every flow of crates/wallet-core shares, as operators   *)
(* on the core's state: starting, finishing and resetting a flow, the      *)
(* audit-log admission that guards the auditable ones, and the JSON wire   *)
(* that gives each effect which awaits an answer an operation of its own.  *)
(*                                                                         *)
(* The code's methods take the core by mutable reference and return        *)
(* effects; here an operator maps a core state to the next core state and  *)
(* the effects, a Result.                                                  *)
(*                                                                         *)
(* A request stands for its whole content: the screen rendered from it,    *)
(* the authorization hash of that screen and the bytes signed over it.     *)
(* Requests that differ in any of these are different members of Requests. *)
(***************************************************************************)
EXTENDS Machine, FiniteSets, Functions

CONSTANTS Requests,             \* requests and offers the wallet may receive
          Unrecordable,         \* requests the audit log cannot hold
          MaxLog,               \* entries the audit log has room for
          MaxPendingOperations  \* operations that may await an answer

AllFlows == {"Presentation", "Payment", "Issuance", "Qes",
             "WalletTransfer", "Proximity", "DcApi"}

Result(core, effects) == [core |-> core, out |-> effects]

Eff(kind, flow, about) == [kind |-> kind, flow |-> flow, about |-> about]
Close == Eff("Close", None, None)
Screen == Eff("Screen", None, None)       \* a render that awaits no decision
ErrorAndClose == <<Screen, Close>>

(* The effects by which something is signed or leaves the wallet.          *)
Consequential == {"Sign", "Http", "RequestCredential", "EmitDeviceResponse",
                  "EmitDcApiResponse"}

(* The phases in which a machine waits for nothing.                        *)
AtRest == {"Idle", "Done", "Authorized", "CredentialIssued", "Signed", "Accepted",
           "Rejected", "Terminated", "Aborted"}

IdleMachine == [at |-> "Idle", req |-> None, left |-> 0, why |-> None]

-----------------------------------------------------------------------------
(* Flow lifecycle.                                                         *)

ClearPendingOperations(pending, flow) ==
    LET kept == {id \in DOMAIN pending : pending[id].flow # flow}
    IN  [id \in kept |-> pending[id]]

ResetFlow(c, flow) ==
    [c EXCEPT !.pending = ClearPendingOperations(@, flow),
              !.active = IF @ = flow THEN None ELSE @,
              !.machine[flow] = IdleMachine,
              !.hash[flow] = None,
              !.session = IF flow = "Presentation" THEN None ELSE @,
              !.refs = IF flow = "Presentation" THEN {} ELSE @,
              !.doc = IF flow \in DOMAIN @ THEN [@ EXCEPT ![flow] = None] ELSE @,
              !.secrets = @ /\ flow # "Proximity"]

(* Mutant: a new flow leaves the one it replaces as it is.                 *)
MutantBeginFlow(c, flow) == [ResetFlow(c, flow) EXCEPT !.active = flow]

(* Mutant: a repeated request resumes a flow being signed.                 *)
MutantBeginFlowResumes(c, flow) ==
    IF c.active = flow /\ c.machine[flow].at \in {"AwaitingDeviceSignature", "AwaitingSca"}
    THEN c
    ELSE LET ended == IF c.active = None THEN c ELSE ResetFlow(c, c.active)
         IN  [ResetFlow(ended, flow) EXCEPT !.active = flow]

BeginFlow(c, flow) ==
    LET ended == IF c.active = None THEN c ELSE ResetFlow(c, c.active)
    IN  [ResetFlow(ended, flow) EXCEPT !.active = flow]

(* Like a reset, except that the machine keeps its terminal state.         *)
FinishFlow(c, flow) ==
    [ResetFlow(c, flow) EXCEPT !.machine[flow] = c.machine[flow]]

(* Mutant: a failed operation leaves its flow active.                      *)
MutantOperationTerminal(c, op) == Result(c, ErrorAndClose)

(* What a failed or cancelled operation leads to: a recovery or an error   *)
(* screen, and the end of the flow.                                        *)
OperationTerminal(c, op) == Result(ResetFlow(c, op.flow), ErrorAndClose)

-----------------------------------------------------------------------------
(* The audit log.                                                          *)

TerminateAuditedFlow(c, flow) ==
    LET ended == IF c.active \in {None, flow} THEN c ELSE ResetFlow(c, c.active)
    IN  Result(ResetFlow(ended, flow), ErrorAndClose)

AuditLogFault(c, flow) ==
    TerminateAuditedFlow([c EXCEPT !.auditOk = FALSE], flow)

CanGuaranteeMaxEntry(c) == Len(c.log) < MaxLog

(* What the log itself accepts: room for one more entry, valid fields.     *)
LogAccepts(c, shown) == Len(c.log) < MaxLog /\ shown \notin Unrecordable

(* Mutant: an entry is not checked before the flow goes on.                *)
MutantCheckAuditEntry(c, req) == TRUE

(* The dry run made before the first consequential effect of a flow.       *)
CheckAuditEntry(c, req) == LogAccepts(c, req)

AppendAuditEntry(c, flow, shown) ==
    [c EXCEPT !.log = Append(@, [kind |-> flow, shown |-> shown])]

(* Appending the entry of a completed interaction, then what follows it;   *)
(* a refused entry latches the audit fault and ends the flow.              *)
Recorded(c, flow, shown, then(_)) ==
    IF LogAccepts(c, shown)
    THEN then(AppendAuditEntry(c, flow, shown))
    ELSE AuditLogFault(c, flow)

(* The check made before an event that starts an auditable flow.           *)
Admit(c, flow, admitted) ==
    IF ~c.auditOk THEN AuditLogFault(c, flow)
    ELSE IF ~CanGuaranteeMaxEntry(c) THEN TerminateAuditedFlow(c, flow)
    ELSE admitted

-----------------------------------------------------------------------------
(* The JSON wire.                                                          *)

(* The result each effect awaits; the other effects await none.            *)
ResultOf == [ResolveRpTrust |-> "RpCertChain", PersistNonce |-> "Succeeded",
             PublishTransferOffer |-> "Succeeded", Sign |-> "Signature",
             Http |-> "Delivery", FetchStatusList |-> "StatusList",
             PushPar |-> "Par", OpenAuthBrowser |-> "AuthorizationCode",
             PromptTxCode |-> "TransactionCode", RequestToken |-> "Token",
             RequestCredential |-> "Credential", Consent |-> "Decision"]

Awaits(effect) == effect.kind \in DOMAIN ResultOf

(* An interactive render must show what the core stored the hash of, and   *)
(* only three flows deliver over HTTP.                                     *)
Representable(c, effect) ==
    /\ effect.kind = "Consent" =>
          c.active # None /\ c.hash[c.active] = effect.about
    /\ effect.kind = "Http" => c.active \in {"Presentation", "Payment", "Qes"}

WithinLimit(c, new) == Cardinality(DOMAIN c.pending) + new <= MaxPendingOperations

(* Operation ids are drawn in increasing order and never reused.  A batch  *)
(* that cannot be represented is dropped whole: the flow that produced it  *)
(* is reset and no callback stays pending.                                 *)
SerializeWireEffects(r) ==
    LET c == r.core
        awaiting == {i \in 1 .. Len(r.out) : Awaits(r.out[i])}
        idOf(i) == c.nextId + Cardinality({j \in awaiting : j < i})
        ids == {idOf(i) : i \in awaiting}
        op(id) == LET e == r.out[CHOOSE i \in awaiting : idOf(i) = id]
                  IN  [flow |-> c.active, result |-> ResultOf[e.kind],
                       about |-> e.about]
    IN  IF /\ \A i \in 1 .. Len(r.out) : Representable(c, r.out[i])
           /\ WithinLimit(c, Cardinality(awaiting))
        THEN Result([c EXCEPT !.nextId = @ + Cardinality(awaiting),
                              !.pending = [id \in DOMAIN @ \cup ids |->
                                  IF id \in ids THEN op(id) ELSE @[id]]],
                    r.out)
        ELSE Result([(IF c.active = None THEN c ELSE ResetFlow(c, c.active))
                        EXCEPT !.pending = << >>],
                    << >>)

=============================================================================
