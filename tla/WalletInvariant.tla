-------------------------- MODULE WalletInvariant ---------------------------
(***************************************************************************)
(* The inductive invariant of the wallet core, for any requests, nonces,   *)
(* grants, credentials, status lists, trusted lists and limits.            *)
(*                                                                         *)
(* Inv(c, ok, gone) is about a core c, what the holder approved (ok) and   *)
(* the nonces already spent (gone).  A handler takes a core in order to a  *)
(* result: a core in order (Good), with effects that are allowed in it.    *)
(* The lemmas here are about what the handlers share: resetting, beginning *)
(* and finishing a flow, raising a screen, spending a nonce, writing an    *)
(* entry, putting a batch on the wire; then about how the core turns a     *)
(* result into a step of the wallet (Turn, LogTurn), and about the events  *)
(* of the environment.  The handlers of the flows are in the modules that  *)
(* extend this one.                                                        *)
(***************************************************************************)
EXTENDS WalletCore, TLAPS

(* Zenon proves a leaf unless the leaf cites SMT.                          *)
USE ZenonT(60)

(* What a screen can show and a machine can be about.                      *)
Shown == Requests \cup {None}
(* The entries of the audit log.                                           *)
Entries == [kind : AllFlows, shown : Shown \cup Credentials]
(* The flows that remember nonces, and those that keep a chosen document.  *)
Replayed == {"Presentation", "Payment", "Issuance", "Qes"}
Documented == {"Proximity", "DcApi"}

(* The fields of the core and what they hold.                              *)
CoreFields ==
    {"active", "machine", "pending", "nextId", "hash", "session", "refs",
     "doc", "secrets", "auditOk", "log", "clock", "trust", "status",
     "held", "seen", "transferred", "interrupted"}

CoreType(c) ==
    /\ DOMAIN c = CoreFields
    /\ c.active \in AllFlows \cup {None}
    /\ DOMAIN c.machine = AllFlows
    /\ \A f \in AllFlows : /\ DOMAIN c.machine[f] = {"at", "req", "left", "why"}
                           /\ c.machine[f].req \in Shown
    /\ c.hash \in [AllFlows -> Shown]
    /\ c.doc \in [Documented -> Shown]
    /\ c.session \in {None} \cup [plan : SUBSET Credentials]
    /\ c.secrets \in BOOLEAN
    /\ c.log \in Seq(Entries)
    /\ c.clock \in Nat
    /\ \A uri \in DOMAIN c.status, x \in Credentials :
          c.status[uri].says[x] \in {"Valid", "Invalid", "Unknown"}
    /\ c.held \in SUBSET Credentials
    /\ DOMAIN c.seen = Replayed

(* Every flow but f is at rest.                                            *)
OthersRest(c, f) ==
    /\ \A g \in AllFlows \ {f} : c.machine[g].at \in AtRest /\ c.hash[g] = None
    /\ c.secrets => f = "Proximity"

(* The machine's request was approved; it is what the screen shows; its    *)
(* nonce has not been spent; whatever was spent is remembered.             *)
Approved(c, f, ok) == c.machine[f].req \in ok
OnScreen(c, f) == c.hash[f] = c.machine[f].req
Unspent(c, f, gone) == <<f, NonceOf[c.machine[f].req]>> \notin gone
Kept(c, f, gone) == \A n : <<f, n>> \in gone => n \in c.seen[f]

(* What each flow's phase says while the flow is active: which request is  *)
(* on the screen, that it was approved before anything is signed, that its *)
(* nonce is still unspent before anything is sent, and that the log still  *)
(* has room for its entry (CheckAuditEntry was passed).                    *)
PresentationPhase(c, ok, gone) ==
    LET at == c.machine["Presentation"].at
        f == "Presentation"
    IN  /\ at \in {"ResolvingTrust", "RequestValidated", "AwaitingDeviceSignature",
                   "Presenting", "Aborted"}
        /\ at = "ResolvingTrust" => c.refs = {}
        /\ at \in {"RequestValidated", "AwaitingDeviceSignature", "Presenting"} =>
              /\ OnScreen(c, f)
              /\ LogAccepts(c, c.machine[f].req)
              /\ c.session # None
        /\ (at = "RequestValidated" /\ c.refs # {})
           \/ at \in {"AwaitingDeviceSignature", "Presenting"} => Approved(c, f, ok)
        /\ at \in {"RequestValidated", "AwaitingDeviceSignature"} =>
              /\ NonceOf[c.machine[f].req] \in c.seen[f]
              /\ Unspent(c, f, gone)

PaymentPhase(c, ok, gone) ==
    LET at == c.machine["Payment"].at
        f == "Payment"
    IN  /\ at \in {"AwaitingConfirmation", "AwaitingSca", "Authorized"}
        /\ OnScreen(c, f)
        /\ LogAccepts(c, c.machine[f].req)
        /\ at # "AwaitingConfirmation" => Approved(c, f, ok)
        /\ at # "Authorized" => Unspent(c, f, gone)

QesPhase(c, ok, gone) ==
    LET at == c.machine["Qes"].at
        f == "Qes"
    IN  /\ at \in {"AwaitingAuthorization", "AwaitingSca", "Signed"}
        /\ OnScreen(c, f)
        /\ at # "AwaitingAuthorization" => Approved(c, f, ok)
        /\ at # "Signed" => /\ NonceOf[c.machine[f].req] \in c.seen[f]
                            /\ Unspent(c, f, gone)

IssuancePhase(c, ok) ==
    LET at == c.machine["Issuance"].at
        f == "Issuance"
    IN  /\ at \in VciPhases \ {"Idle", "CredentialIssued", "Aborted"}
        /\ c.machine[f].req \in Requests
        /\ OnScreen(c, f)
        /\ LogAccepts(c, c.machine[f].req)
        /\ at # "ReviewingOffer" => Approved(c, f, ok)

TransferPhase(c) ==
    /\ c.machine["WalletTransfer"].at = "AwaitingTransfer"
    /\ CanGuaranteeMaxEntry(c)

ProximityPhase(c, ok) ==
    LET at == c.machine["Proximity"].at
        f == "Proximity"
    IN  /\ at \in IsoPhases \ {"Idle", "Aborted"}
        /\ c.hash[f] = c.doc[f]
        /\ at \in {"SigningResponse", "Responded"} => c.doc[f] \in ok \cup {None}

DcApiPhase(c) == /\ c.machine["DcApi"].at \in AtRest
                 /\ c.hash["DcApi"] = c.doc["DcApi"]

(* The phase of whichever flow is active.                                  *)
Phase(c, ok, gone) ==
    /\ c.active = "Presentation" => PresentationPhase(c, ok, gone)
    /\ c.active = "Payment" => PaymentPhase(c, ok, gone)
    /\ c.active = "Qes" => QesPhase(c, ok, gone)
    /\ c.active = "Issuance" => IssuancePhase(c, ok)
    /\ c.active = "WalletTransfer" => TransferPhase(c)
    /\ c.active = "Proximity" => ProximityPhase(c, ok)
    /\ c.active = "DcApi" => DcApiPhase(c)

(* What an operation in flight says of the flow that waits for it.         *)
Fits(c, ok, op) ==
    LET f == c.active
        at == c.machine[f].at
    IN  /\ f # None /\ op.flow = f
        /\ f = "WalletTransfer" => op.result = "Succeeded"
        /\ op.result = "Decision" =>
              /\ op.about = c.hash[f]
              /\ f = "Presentation" => at \in {"RequestValidated",
                                               "AwaitingDeviceSignature", "Presenting"}
              /\ f = "Proximity" => at # "Engaged"
        /\ op.result = "Signature" =>
              /\ f = "Presentation" => at \in {"AwaitingDeviceSignature", "Presenting"}
              /\ f = "DcApi" => c.doc[f] \in ok
        /\ op.result = "Delivery" =>
              /\ f = "Presentation" => at = "Presenting" /\ op.about = c.hash[f]
              /\ f = "Payment" => at = "Authorized" /\ op.about = c.hash[f]
        /\ op.result = "Credential" /\ f = "Issuance" =>
              at = "RequestingCredential" /\ op.about = c.machine[f].req

(* The inductive invariant of the core: ok is what the holder approved,    *)
(* gone the nonces that are spent.                                         *)
Inv(c, ok, gone) ==
    /\ CoreType(c)
    /\ OthersRest(c, c.active)
    /\ \A id \in DOMAIN c.pending : Fits(c, ok, c.pending[id])
    /\ Phase(c, ok, gone)
    /\ c.auditOk
    /\ \A f \in Replayed : Kept(c, f, gone)

(* The evidence DisclosedOnCurrentEvidence asks for.                       *)
Covered(c) ==
    /\ c.session # None /\ c.session.plan # {}
    /\ TrustList(c).rp /\ TrustList(c).issuer
    /\ c.clock <= TrustList(c).until
    /\ \A x \in c.session.plan :
          /\ x \in c.held /\ c.clock <= ExpiresAt[x]
          /\ StatusUri[x] # None =>
                /\ TrustList(c).status
                /\ StatusUri[x] \in DOMAIN c.status
                /\ c.clock < c.status[StatusUri[x]].until
                /\ c.status[StatusUri[x]].says[x] = "Valid"

(* A flow f is under way in c, or none is.                                 *)
Base(c, f, gone) ==
    /\ CoreType(c)
    /\ c.active = f
    /\ OthersRest(c, f)
    /\ \A id \in DOMAIN c.pending : f # None /\ c.pending[id].flow = f
    /\ c.auditOk
    /\ \A g \in Replayed : Kept(c, g, gone)

(* The effects, and the ones a core may hand to the shell: nothing         *)
(* consequential without approval, nothing of a presentation without       *)
(* current evidence, nothing sent under a spent nonce, and no operation    *)
(* that the active flow does not wait for.                                 *)
Abouts == Shown \cup {StatusUri[x] : x \in Credentials}
Kinds == DOMAIN ResultOf \cup Consequential
         \cup {"Close", "Screen", "EmitDeviceEngagement"}
Effects == [kind : Kinds, flow : AllFlows \cup {None}, about : Abouts]

Sendable(c, gone, e) ==
    /\ e.flow = c.active
    /\ e.flow \in {"Presentation", "Payment", "Qes"}
    /\ c.machine[e.flow].at \in {"Presenting", "Authorized", "Signed"}
    /\ NonceOf[e.about] \in c.seen[e.flow]
    /\ <<e.flow, NonceOf[e.about]>> \notin gone

EffectOK(c, ok, gone, e) ==
    /\ e.kind \in Consequential => e.about \in ok
    /\ Awaits(e) => Fits(c, ok, [flow |-> c.active, result |-> ResultOf[e.kind],
                                 about |-> e.about])
    /\ e.kind \in {"Sign", "Http"} /\ e.flow = "Presentation" => Covered(c)
    /\ e.kind = "Http" => Sendable(c, gone, e)
    /\ e.kind = "Sign" /\ e.flow = "Issuance" =>
          c.machine["Issuance"].at = "ProvingPossession"

Allowed(c, ok, gone) == {e \in Effects : EffectOK(c, ok, gone, e)}

(* The issuance is waiting for the signature over its proof of possession. *)
Proving(c) == c.machine["Issuance"].at = "ProvingPossession"

(* What a handler must return.                                             *)
Good(r, ok, gone) ==
    /\ Inv(r.core, ok, gone)
    /\ r.out \in Seq(Allowed(r.core, ok, gone))

(* What a handler that completes nothing keeps.                            *)
Keeps(c, r) == /\ r.core.log = c.log
               /\ Proving(r.core) => Proving(c)

-----------------------------------------------------------------------------
(* A core in order has a flow under way, or none.                          *)
LEMMA BaseOfInv ==
  ASSUME NEW c, NEW ok, NEW gone, Inv(c, ok, gone)
  PROVE  Base(c, c.active, gone)
BY DEF Inv, Base, Fits

(* A flow in order whose phase and operations fit is a core in order.      *)
LEMMA InvOfBase ==
  ASSUME NEW c, NEW f, NEW ok, NEW gone, Base(c, f, gone), Phase(c, ok, gone),
         \A id \in DOMAIN c.pending : Fits(c, ok, c.pending[id])
  PROVE  Inv(c, ok, gone)
BY DEF Inv, Base

(* No flow is called None.                                                 *)
LEMMA NoneIsNoFlow == None \notin AllFlows
BY EvidenceAssumption

(* With no flow under way the core is in order, whatever was approved.     *)
LEMMA Rest ==
  ASSUME NEW c, NEW ok, NEW gone, Base(c, None, gone)
  PROVE  Inv(c, ok, gone)
<1>1. Phase(c, ok, gone)
  BY NoneIsNoFlow DEF Base, Phase, AllFlows
<1>. QED
  BY <1>1 DEF Inv, Base

(* What reset_flow leaves of each field.                                   *)
Reset(c, f, d) ==
   /\ d.pending = ClearPendingOperations(c.pending, f)
   /\ d.active = IF c.active = f THEN None ELSE c.active
   /\ d.machine = [c.machine EXCEPT ![f] = IdleMachine]
   /\ d.hash = [c.hash EXCEPT ![f] = None]
   /\ d.session = IF f = "Presentation" THEN None ELSE c.session
   /\ d.refs = IF f = "Presentation" THEN {} ELSE c.refs
   /\ d.doc = IF f \in Documented THEN [c.doc EXCEPT ![f] = None] ELSE c.doc
   /\ d.secrets = (c.secrets /\ f # "Proximity")
   /\ \A k \in {"nextId", "auditOk", "log", "clock", "trust", "status", "held",
                "seen", "transferred", "interrupted"} : d[k] = c[k]

(* reset_flow does just that.                                              *)
LEMMA ResetFields ==
  ASSUME NEW c, CoreType(c), NEW f \in AllFlows
  PROVE  Reset(c, f, ResetFlow(c, f)) /\ DOMAIN ResetFlow(c, f) = CoreFields
<1>1. DOMAIN ResetFlow(c, f) = CoreFields
  BY DEF CoreType, CoreFields, ResetFlow
<1>2. Reset(c, f, ResetFlow(c, f))
  BY DEF CoreType, CoreFields, ResetFlow, Reset, Documented
<1>. QED
  BY <1>1, <1>2

(* A reset core keeps its types.                                           *)
LEMMA ResetType ==
  ASSUME NEW c, CoreType(c), NEW f \in AllFlows
  PROVE  CoreType(ResetFlow(c, f))
<1>. DEFINE d == ResetFlow(c, f)
<1>1. Reset(c, f, d) /\ DOMAIN d = CoreFields
  BY ResetFields
<1>. HIDE DEF d
<1>2. d.active \in AllFlows \cup {None}
  BY <1>1 DEF Reset, CoreType
<1>3. DOMAIN d.machine = AllFlows
  BY <1>1 DEF Reset, CoreType
<1>4. ASSUME NEW g \in AllFlows
      PROVE  /\ DOMAIN d.machine[g] = {"at", "req", "left", "why"}
             /\ d.machine[g].req \in Shown
  <2>1. CASE g = f
    <3>1. d.machine[g] = [at |-> "Idle", req |-> None, left |-> 0, why |-> None]
      BY <1>1, <2>1 DEF Reset, CoreType, IdleMachine
    <3>. QED
      BY <3>1, SMTT(60) DEF Shown
  <2>2. CASE g # f
    <3>1. d.machine[g] = c.machine[g]
      BY <1>1, <2>2 DEF Reset, CoreType
    <3>. QED
      BY <3>1 DEF CoreType
  <2>. QED
    BY <2>1, <2>2
<1>5. d.hash \in [AllFlows -> Shown]
  BY <1>1 DEF Reset, CoreType, Shown
<1>6. d.doc \in [Documented -> Shown]
  <2>1. /\ c.doc \in [Documented -> Shown] /\ None \in Shown
        /\ d.doc = IF f \in Documented THEN [c.doc EXCEPT ![f] = None] ELSE c.doc
    BY <1>1 DEF Reset, CoreType, Shown
  <2>. QED
    BY <2>1
<1>7. d.session \in {None} \cup [plan : SUBSET Credentials]
  BY <1>1 DEF Reset, CoreType
<1>8. d.secrets \in BOOLEAN
  BY <1>1 DEF Reset, CoreType
<1>9. /\ d.log = c.log /\ d.clock = c.clock /\ d.status = c.status
      /\ d.held = c.held /\ d.seen = c.seen
  BY <1>1 DEF Reset
<1>10. CoreType(d)
  BY <1>1, <1>2, <1>3, <1>4, <1>5, <1>6, <1>7, <1>8, <1>9 DEF CoreType
<1>. QED
  BY <1>10 DEF d

(* Resetting the active flow leaves no flow under way.                     *)
LEMMA ResetBase ==
  ASSUME NEW c, NEW f \in AllFlows, NEW g \in {f, None}, NEW gone, Base(c, g, gone)
  PROVE  /\ Base(ResetFlow(c, f), None, gone)
         /\ ResetFlow(c, f).log = c.log
         /\ ~Proving(ResetFlow(c, f))
<1>. DEFINE d == ResetFlow(c, f)
<1>1. Reset(c, f, d) /\ CoreType(d)
  BY ResetFields, ResetType DEF Base
<1>. HIDE DEF d
<1>2. c.active \in {f, None}
  BY DEF Base
<1>3. d.active = None
  BY <1>1, <1>2 DEF Reset
<1>4. ASSUME NEW h \in AllFlows
      PROVE  d.machine[h].at \in AtRest /\ d.hash[h] = None
  <2>1. CASE h = f
    <3>1. d.machine[h] = IdleMachine /\ d.hash[h] = None
      BY <1>1, <2>1 DEF Reset, Base, CoreType
    <3>2. IdleMachine.at = "Idle"
      BY DEF IdleMachine
    <3>. QED
      BY <3>1, <3>2 DEF AtRest
  <2>2. CASE h # f
    <3>1. d.machine[h] = c.machine[h] /\ d.hash[h] = c.hash[h]
      BY <1>1, <2>2 DEF Reset, Base, CoreType
    <3>2. h # g
      BY <2>2, NoneIsNoFlow
    <3>. QED
      BY <3>1, <3>2 DEF Base, OthersRest
  <2>. QED
    BY <2>1, <2>2
<1>5. ~d.secrets
  BY <1>1, NoneIsNoFlow DEF Reset, Base, OthersRest, AllFlows
<1>6. DOMAIN d.pending = {}
  <2>1. \A id \in DOMAIN c.pending : c.pending[id].flow = f
    BY DEF Base
  <2>2. DOMAIN d.pending = {id \in DOMAIN c.pending : c.pending[id].flow # f}
    BY <1>1 DEF Reset, ClearPendingOperations
  <2>. QED
    BY <2>1, <2>2
<1>7. d.auditOk = c.auditOk /\ d.seen = c.seen /\ d.log = c.log
  BY <1>1 DEF Reset
<1>8. Base(d, None, gone)
  BY <1>1, <1>3, <1>4, <1>5, <1>6, <1>7 DEF Base, OthersRest, Kept
<1>9. ~Proving(d)
  <2>1. d.machine["Issuance"].at \in AtRest
    BY <1>4 DEF AllFlows
  <2>. QED
    BY <2>1 DEF Proving, AtRest
<1>. QED
  BY <1>7, <1>8, <1>9 DEF d

(* Effects that decide nothing.                                            *)
Quiet == {Close, Screen}

(* Every core may show a notice and close the screen.                      *)
LEMMA QuietAllowed ==
  ASSUME NEW c, NEW ok, NEW gone
  PROVE  Quiet \subseteq Allowed(c, ok, gone)
<1>. SUFFICES ASSUME NEW e \in Quiet PROVE e \in Allowed(c, ok, gone)
  OBVIOUS
<1>1. e.kind \in {"Close", "Screen"} /\ e.flow = None /\ e.about = None
  BY SMTT(60) DEF Quiet, Close, Screen, Eff
<1>2. e \in Effects
  BY SMTT(60) DEF Quiet, Close, Screen, Eff, Effects, Kinds, Abouts, Shown
<1>3. ~Awaits(e)
  BY <1>1, SMTT(60) DEF Awaits, ResultOf
<1>4. e.kind \notin Consequential
  BY <1>1 DEF Consequential
<1>. QED
  BY <1>1, <1>2, <1>3, <1>4 DEF Allowed, EffectOK

(* A flow that is over may end with notices.                               *)
LEMMA EndGood ==
  ASSUME NEW d, NEW ok, NEW gone, NEW out \in Seq(Quiet), Base(d, None, gone)
  PROVE  Good(Result(d, out), ok, gone)
<1>1. Inv(d, ok, gone)
  BY Rest
<1>2. out \in Seq(Allowed(d, ok, gone))
  <2>1. Quiet \subseteq Allowed(d, ok, gone)
    BY QuietAllowed
  <2>. QED
    BY <2>1, SMTT(60)
<1>. QED
  BY <1>1, <1>2 DEF Good, Result

(* The batches of notices the handlers return.                             *)
LEMMA ErrorAndCloseQuiet ==
  /\ ErrorAndClose \in Seq(Quiet) /\ <<Close>> \in Seq(Quiet)
  /\ <<Screen>> \in Seq(Quiet) /\ << >> \in Seq(Quiet)
<1>1. Close \in Quiet /\ Screen \in Quiet
  BY DEF Quiet
<1>. QED
  BY <1>1, SMTT(60) DEF ErrorAndClose

(* A handler may end its flow with a reset and notices.                    *)
LEMMA ResetGood ==
  ASSUME NEW c, NEW f \in AllFlows, NEW g \in {f, None}, NEW gone, NEW ok,
         Base(c, g, gone), NEW out \in Seq(Quiet)
  PROVE  LET r == Result(ResetFlow(c, f), out)
         IN  Good(r, ok, gone) /\ Keeps(c, r)
<1>1. /\ Base(ResetFlow(c, f), None, gone) /\ ResetFlow(c, f).log = c.log
      /\ ~Proving(ResetFlow(c, f))
  BY ResetBase
<1>2. Good(Result(ResetFlow(c, f), out), ok, gone)
  BY <1>1, EndGood
<1>. QED
  BY <1>1, <1>2 DEF Keeps, Result

(* terminate_audited_flow ends whichever flow is active.                   *)
LEMMA TerminateGood ==
  ASSUME NEW c, NEW f \in AllFlows, NEW g \in AllFlows \cup {None}, NEW gone, NEW ok,
         Base(c, g, gone)
  PROVE  Good(TerminateAuditedFlow(c, f), ok, gone) /\ Keeps(c, TerminateAuditedFlow(c, f))
<1>. DEFINE ended == IF c.active \in {None, f} THEN c ELSE ResetFlow(c, c.active)
<1>0. c.active = g
  BY DEF Base
<1>1. PICK h \in {f, None} : Base(ended, h, gone) /\ ended.log = c.log
                              /\ (Proving(ended) => Proving(c))
  <2>1. CASE g \in {f, None}
    BY <1>0, <2>1
  <2>2. CASE g \notin {f, None}
    <3>1. ended = ResetFlow(c, g) /\ g \in AllFlows
      BY <1>0, <2>2
    <3>2. Base(ResetFlow(c, g), None, gone) /\ ResetFlow(c, g).log = c.log
          /\ ~Proving(ResetFlow(c, g))
      BY <3>1, ResetBase
    <3>. QED
      BY <3>1, <3>2
  <2>. QED
    BY <2>1, <2>2
<1>. HIDE DEF ended
<1>2. /\ Good(Result(ResetFlow(ended, f), ErrorAndClose), ok, gone)
      /\ Keeps(ended, Result(ResetFlow(ended, f), ErrorAndClose))
  BY <1>1, ResetGood, ErrorAndCloseQuiet
<1>3. TerminateAuditedFlow(c, f) = Result(ResetFlow(ended, f), ErrorAndClose)
  BY DEF TerminateAuditedFlow, ended
<1>. QED
  BY <1>1, <1>2, <1>3 DEF Keeps

(* finish_flow leaves no flow under way and the machine in its terminal    *)
(* state.                                                                  *)
LEMMA FinishBase ==
  ASSUME NEW c, NEW f \in AllFlows, NEW gone, Base(c, f, gone),
         c.machine[f].at \in AtRest
  PROVE  /\ Base(FinishFlow(c, f), None, gone)
         /\ FinishFlow(c, f).log = c.log
         /\ \A g \in AllFlows : FinishFlow(c, f).machine[g] = c.machine[g]
<1>. DEFINE e == ResetFlow(c, f)
            d == FinishFlow(c, f)
<1>1. Base(e, None, gone) /\ e.log = c.log
  BY ResetBase
<1>2. Reset(c, f, e)
  BY ResetFields DEF Base
<1>3. d = [e EXCEPT !.machine = [e.machine EXCEPT ![f] = c.machine[f]]]
  BY DEF FinishFlow
<1>. HIDE DEF d, e
<1>4. DOMAIN e = CoreFields
  BY <1>1 DEF Base, CoreType
<1>5. /\ DOMAIN d = CoreFields
      /\ \A k \in CoreFields \ {"machine"} : d[k] = e[k]
      /\ d.machine = [e.machine EXCEPT ![f] = c.machine[f]]
  BY <1>3, <1>4 DEF CoreFields
<1>6. DOMAIN d.machine = AllFlows /\ \A g \in AllFlows : d.machine[g] = c.machine[g]
  <2>1. /\ e.machine = [c.machine EXCEPT ![f] = IdleMachine]
        /\ DOMAIN c.machine = AllFlows
    BY <1>2 DEF Reset, Base, CoreType
  <2>. QED
    BY <1>5, <2>1
<1>7. Base(d, None, gone)
  <2>0. /\ DOMAIN d = CoreFields /\ d.active = e.active /\ d.hash = e.hash
        /\ d.doc = e.doc /\ d.session = e.session
        /\ d.secrets = e.secrets /\ d.log = e.log /\ d.clock = e.clock
        /\ d.status = e.status /\ d.held = e.held /\ d.seen = e.seen
        /\ d.pending = e.pending /\ d.auditOk = e.auditOk
    BY <1>5 DEF CoreFields
  <2>1. CoreType(d)
    <3>1. CoreType(c) /\ CoreType(e)
      BY <1>1 DEF Base
    <3>. QED
      BY <1>6, <2>0, <3>1 DEF CoreType
  <2>2. OthersRest(d, None)
    <3>1. \A g \in AllFlows : d.machine[g].at \in AtRest
      BY <1>6 DEF Base, OthersRest
    <3>. QED
      BY <1>1, <2>0, <3>1, NoneIsNoFlow DEF Base, OthersRest
  <2>. QED
    BY <1>1, <2>0, <2>1, <2>2 DEF Base, Kept
<1>8. d.log = e.log
  BY <1>5 DEF CoreFields
<1>. QED
  BY <1>1, <1>6, <1>7, <1>8 DEF d

(* What the other fields of the core are after field k has changed.        *)
Only(c, d, k) == DOMAIN d = CoreFields /\ \A j \in CoreFields \ {k} : d[j] = c[j]

(* d differs from c in its machines, screens, replay sets and log at most. *)
Alike(c, d) ==
    /\ d.active = c.active /\ d.pending = c.pending /\ d.session = c.session
    /\ d.refs = c.refs /\ d.doc = c.doc /\ d.secrets = c.secrets
    /\ d.clock = c.clock /\ d.trust = c.trust /\ d.status = c.status
    /\ d.held = c.held

(* Nonces are remembered, never forgotten.                                 *)
SeenMore(c, d) == \A h \in Replayed : c.seen[h] \subseteq d.seen[h]

(* A screen raised, a nonce spent.                                         *)
Asking(c, f, x) == [c EXCEPT !.hash[f] = x]
Used(c, g, n) == [c EXCEPT !.seen[g] = @ \cup {n}]

(* The record a flow's machine is.                                         *)
IsMachine(m) == DOMAIN m = {"at", "req", "left", "why"} /\ m.req \in Shown

(* A machine that takes a step changes nothing but itself.                 *)
LEMMA Moves ==
  ASSUME NEW c, NEW f \in AllFlows, NEW gone, Base(c, f, gone), NEW s, IsMachine(s.to)
  PROVE  LET d == Stepped(c, f, s)
         IN  /\ Base(d, f, gone) /\ Alike(c, d)
             /\ d.hash = c.hash /\ d.seen = c.seen /\ d.log = c.log
             /\ d.machine[f] = s.to
             /\ f # "Issuance" => (Proving(d) <=> Proving(c))
<1>. DEFINE m == s.to
            d == [c EXCEPT !.machine[f] = m]
<1>0. DOMAIN c = CoreFields /\ DOMAIN c.machine = AllFlows
  BY DEF Base, CoreType
<1>1. /\ Only(c, d, "machine") /\ d.machine = [c.machine EXCEPT ![f] = m]
  BY <1>0 DEF Only, CoreFields
<1>. HIDE DEF d
<1>2. /\ DOMAIN d.machine = AllFlows /\ d.machine[f] = m
      /\ \A g \in AllFlows \ {f} : d.machine[g] = c.machine[g]
  BY <1>0, <1>1
<1>3. /\ d.active = c.active /\ d.hash = c.hash /\ d.doc = c.doc /\ d.session = c.session
      /\ d.secrets = c.secrets /\ d.log = c.log /\ d.clock = c.clock
      /\ d.status = c.status /\ d.held = c.held /\ d.seen = c.seen
      /\ d.pending = c.pending /\ d.auditOk = c.auditOk
  BY <1>1 DEF Only, CoreFields
<1>4. CoreType(d)
  <2>1. ASSUME NEW g \in AllFlows
        PROVE  /\ DOMAIN d.machine[g] = {"at", "req", "left", "why"}
               /\ d.machine[g].req \in Shown
    <3>1. CASE g = f
      BY <1>2, <3>1 DEF IsMachine
    <3>2. CASE g # f
      BY <1>2, <3>2 DEF Base, CoreType
    <3>. QED
      BY <3>1, <3>2
  <2>. QED
    BY <1>1, <1>2, <1>3, <2>1 DEF Only, Base, CoreType
<1>5. OthersRest(d, f)
  BY <1>2, <1>3 DEF Base, OthersRest
<1>6. Base(d, f, gone)
  BY <1>3, <1>4, <1>5 DEF Base, Kept
<1>7. Alike(c, d)
  BY <1>1 DEF Only, CoreFields, Alike
<1>8. ASSUME f # "Issuance" PROVE Proving(d) <=> Proving(c)
  <2>1. d.machine["Issuance"] = c.machine["Issuance"]
    BY <1>2, <1>8 DEF AllFlows
  <2>. QED
    BY <2>1 DEF Proving
<1>. QED
  BY <1>2, <1>3, <1>6, <1>7, <1>8 DEF d, Stepped

(* A screen raised for a flow changes nothing but its hash.                *)
LEMMA Raises ==
  ASSUME NEW c, NEW f \in AllFlows, NEW gone, Base(c, f, gone), NEW h \in Shown
  PROVE  LET d == Asking(c, f, h)
         IN  /\ Base(d, f, gone) /\ Alike(c, d)
             /\ d.machine = c.machine /\ d.seen = c.seen /\ d.log = c.log
             /\ d.hash[f] = h
<1>. DEFINE d == [c EXCEPT !.hash[f] = h]
<1>0. DOMAIN c = CoreFields /\ c.hash \in [AllFlows -> Shown]
  BY DEF Base, CoreType
<1>1. /\ Only(c, d, "hash") /\ d.hash = [c.hash EXCEPT ![f] = h]
  BY <1>0 DEF Only, CoreFields
<1>. HIDE DEF d
<1>2. /\ d.hash \in [AllFlows -> Shown] /\ d.hash[f] = h
      /\ \A g \in AllFlows \ {f} : d.hash[g] = c.hash[g]
  BY <1>0, <1>1
<1>3. /\ DOMAIN d = CoreFields /\ d.active = c.active /\ d.machine = c.machine
      /\ d.doc = c.doc /\ d.session = c.session
      /\ d.secrets = c.secrets /\ d.log = c.log /\ d.clock = c.clock
      /\ d.status = c.status /\ d.held = c.held /\ d.seen = c.seen
      /\ d.pending = c.pending /\ d.auditOk = c.auditOk
  BY <1>1 DEF Only, CoreFields
<1>4. CoreType(d)
  BY <1>2, <1>3 DEF Base, CoreType
<1>5. OthersRest(d, f)
  BY <1>2, <1>3 DEF Base, OthersRest
<1>6. Base(d, f, gone)
  BY <1>3, <1>4, <1>5 DEF Base, Kept
<1>7. Alike(c, d)
  BY <1>1 DEF Only, CoreFields, Alike
<1>. QED
  BY <1>2, <1>3, <1>6, <1>7 DEF d, Asking

(* A nonce spent changes nothing but the replay set.                       *)
LEMMA Uses ==
  ASSUME NEW c, NEW f \in AllFlows, NEW gone, Base(c, f, gone), NEW g \in Replayed, NEW n
  PROVE  LET d == Used(c, g, n)
         IN  /\ Base(d, f, gone) /\ Alike(c, d)
             /\ d.machine = c.machine /\ d.hash = c.hash /\ d.log = c.log
             /\ n \in d.seen[g] /\ SeenMore(c, d)
<1>. DEFINE d == [c EXCEPT !.seen[g] = @ \cup {n}]
<1>0. DOMAIN c = CoreFields /\ DOMAIN c.seen = Replayed
  BY DEF Base, CoreType
<1>1. /\ Only(c, d, "seen") /\ d.seen = [c.seen EXCEPT ![g] = @ \cup {n}]
  BY <1>0 DEF Only, CoreFields
<1>. HIDE DEF d
<1>2. /\ DOMAIN d.seen = Replayed /\ d.seen[g] = c.seen[g] \cup {n}
      /\ \A h \in Replayed \ {g} : d.seen[h] = c.seen[h]
  BY <1>0, <1>1
<1>3. /\ DOMAIN d = CoreFields /\ d.active = c.active /\ d.machine = c.machine
      /\ d.doc = c.doc /\ d.session = c.session
      /\ d.secrets = c.secrets /\ d.log = c.log /\ d.clock = c.clock
      /\ d.status = c.status /\ d.held = c.held /\ d.hash = c.hash
      /\ d.pending = c.pending /\ d.auditOk = c.auditOk
  BY <1>1 DEF Only, CoreFields
<1>4. CoreType(d)
  BY <1>2, <1>3 DEF Base, CoreType
<1>5. \A h \in Replayed : Kept(d, h, gone)
  <2>1. \A h \in Replayed : \A x : x \in c.seen[h] => x \in d.seen[h]
    BY <1>2
  <2>. QED
    BY <2>1 DEF Base, Kept
<1>6. Base(d, f, gone)
  BY <1>3, <1>4, <1>5 DEF Base, OthersRest
<1>7. Alike(c, d)
  BY <1>1 DEF Only, CoreFields, Alike
<1>8. SeenMore(c, d)
  BY <1>2 DEF SeenMore
<1>9. n \in d.seen[g]
  BY <1>2
<1>. QED
  BY <1>3, <1>6, <1>7, <1>8, <1>9 DEF d, Used

(* begin_flow ends whatever flow is active and starts from an idle         *)
(* machine, with no operation in flight.                                   *)
LEMMA BeginBase ==
  ASSUME NEW c, NEW f \in AllFlows, NEW g \in AllFlows \cup {None}, NEW gone,
         Base(c, g, gone)
  PROVE  LET b == BeginFlow(c, f)
         IN  /\ Base(b, f, gone) /\ b.machine[f] = IdleMachine /\ b.hash[f] = None
             /\ DOMAIN b.pending = {} /\ b.log = c.log /\ b.seen = c.seen
             /\ ~Proving(b)
             /\ f = "Presentation" => b.refs = {}
             /\ f \in Documented => b.doc[f] = None
<1>. DEFINE e == IF c.active = None THEN c ELSE ResetFlow(c, c.active)
            d == ResetFlow(e, f)
            b == [d EXCEPT !.active = f]
<1>0. c.active = g
  BY DEF Base
<1>1. Base(e, None, gone) /\ e.log = c.log /\ e.seen = c.seen
  <2>1. CASE g = None
    BY <1>0, <2>1
  <2>2. CASE g \in AllFlows
    <3>1. e = ResetFlow(c, g)
      BY <1>0, <2>2, NoneIsNoFlow
    <3>2. Base(ResetFlow(c, g), None, gone) /\ ResetFlow(c, g).log = c.log
      BY <2>2, ResetBase
    <3>3. Reset(c, g, ResetFlow(c, g))
      BY <2>2, ResetFields DEF Base
    <3>4. ResetFlow(c, g).seen = c.seen
      BY <3>3 DEF Reset
    <3>. QED
      BY <3>1, <3>2, <3>4
  <2>. QED
    BY <2>1, <2>2
<1>. HIDE DEF e
<1>2. Base(d, None, gone) /\ d.log = e.log /\ ~Proving(d)
  BY <1>1, ResetBase
<1>3. Reset(e, f, d)
  BY <1>1, ResetFields DEF Base
<1>. HIDE DEF d
<1>4. d.seen = e.seen
  BY <1>3 DEF Reset
<1>5. /\ d.machine[f] = IdleMachine /\ d.hash[f] = None
      /\ f = "Presentation" => d.refs = {}
      /\ f \in Documented => d.doc[f] = None
  <2>1. /\ DOMAIN e.machine = AllFlows /\ e.hash \in [AllFlows -> Shown]
        /\ e.doc \in [Documented -> Shown]
    BY <1>1 DEF Base, CoreType
  <2>2. d.machine[f] = IdleMachine /\ d.hash[f] = None
    BY <1>3, <2>1 DEF Reset
  <2>3. f = "Presentation" => d.refs = {}
    BY <1>3 DEF Reset
  <2>4. f \in Documented => d.doc[f] = None
    BY <1>3, <2>1 DEF Reset
  <2>. QED
    BY <2>2, <2>3, <2>4
<1>6. Only(d, b, "active") /\ b.active = f
  BY <1>2 DEF Base, CoreType, Only, CoreFields
<1>. HIDE DEF b
<1>7. /\ DOMAIN b = CoreFields /\ b.machine = d.machine /\ b.hash = d.hash
      /\ b.doc = d.doc /\ b.session = d.session /\ b.refs = d.refs
      /\ b.secrets = d.secrets /\ b.log = d.log /\ b.clock = d.clock
      /\ b.status = d.status /\ b.held = d.held /\ b.seen = d.seen
      /\ b.pending = d.pending /\ b.auditOk = d.auditOk
  BY <1>6 DEF Only, CoreFields
<1>8. CoreType(b)
  <2>1. CoreType(d)
    BY <1>2 DEF Base
  <2>. QED
    BY <1>6, <1>7, <2>1 DEF CoreType
<1>9. OthersRest(b, f)
  <2>1. ~d.secrets
    BY <1>2, NoneIsNoFlow DEF Base, OthersRest, AllFlows
  <2>2. \A h \in AllFlows : d.machine[h].at \in AtRest /\ d.hash[h] = None
    BY <1>2, NoneIsNoFlow DEF Base, OthersRest
  <2>. QED
    BY <1>7, <2>1, <2>2 DEF OthersRest
<1>10. DOMAIN b.pending = {}
  BY <1>2, <1>7 DEF Base
<1>11. Base(b, f, gone)
  BY <1>2, <1>6, <1>7, <1>8, <1>9, <1>10 DEF Base, Kept
<1>12. BeginFlow(c, f) = b
  BY DEF BeginFlow, b, d, e
<1>13. /\ Base(b, f, gone) /\ b.machine[f] = IdleMachine /\ b.hash[f] = None
       /\ DOMAIN b.pending = {} /\ b.log = c.log /\ b.seen = c.seen
       /\ f = "Presentation" => b.refs = {}
       /\ f \in Documented => b.doc[f] = None
  BY <1>1, <1>2, <1>4, <1>5, <1>7, <1>10, <1>11
<1>14. ~Proving(b)
  BY <1>2, <1>7 DEF Proving
<1>. QED
  BY <1>12, <1>13, <1>14

(* A change to the operations in flight alone.                             *)
Aside(c, d) == /\ DOMAIN d = CoreFields
               /\ \A j \in CoreFields \ {"pending", "nextId"} : d[j] = c[j]

(* The fields that such a change leaves alone.                             *)
LEMMA AsideFields ==
  ASSUME NEW c, NEW d, Aside(c, d)
  PROVE  /\ DOMAIN d = CoreFields
         /\ d.active = c.active /\ d.machine = c.machine /\ d.hash = c.hash
         /\ d.session = c.session /\ d.refs = c.refs /\ d.doc = c.doc
         /\ d.secrets = c.secrets /\ d.auditOk = c.auditOk /\ d.log = c.log
         /\ d.clock = c.clock /\ d.trust = c.trust /\ d.status = c.status
         /\ d.held = c.held /\ d.seen = c.seen
BY DEF Aside, CoreFields

(* It keeps the core in order if every operation still fits.               *)
LEMMA AsideInv ==
  ASSUME NEW c, NEW d, NEW ok, NEW gone, Inv(c, ok, gone), Aside(c, d),
         \A id \in DOMAIN d.pending : Fits(c, ok, d.pending[id])
  PROVE  Inv(d, ok, gone) /\ d.log = c.log /\ (Proving(d) <=> Proving(c))
<1>0. /\ DOMAIN d = CoreFields
      /\ d.active = c.active /\ d.machine = c.machine /\ d.hash = c.hash
      /\ d.session = c.session /\ d.refs = c.refs /\ d.doc = c.doc
      /\ d.secrets = c.secrets /\ d.auditOk = c.auditOk /\ d.log = c.log
      /\ d.clock = c.clock /\ d.trust = c.trust /\ d.status = c.status
      /\ d.held = c.held /\ d.seen = c.seen
  BY AsideFields
<1>1. CoreType(d)
  BY <1>0 DEF Inv, CoreType
<1>2. OthersRest(d, d.active)
  BY <1>0 DEF Inv, OthersRest
<1>3. \A id \in DOMAIN d.pending : Fits(d, ok, d.pending[id])
  BY <1>0 DEF Fits
<1>4. Phase(d, ok, gone)
  <2>1. /\ \A f : OnScreen(d, f) <=> OnScreen(c, f)
        /\ \A x : LogAccepts(d, x) <=> LogAccepts(c, x)
        /\ CanGuaranteeMaxEntry(d) <=> CanGuaranteeMaxEntry(c)
        /\ \A f : Approved(d, f, ok) <=> Approved(c, f, ok)
        /\ \A f : Unspent(d, f, gone) <=> Unspent(c, f, gone)
    BY <1>0 DEF OnScreen, LogAccepts, CanGuaranteeMaxEntry, Approved, Unspent
  <2>2. PresentationPhase(c, ok, gone) => PresentationPhase(d, ok, gone)
    BY <1>0, <2>1 DEF PresentationPhase
  <2>3. PaymentPhase(c, ok, gone) => PaymentPhase(d, ok, gone)
    BY <1>0, <2>1 DEF PaymentPhase
  <2>4. QesPhase(c, ok, gone) => QesPhase(d, ok, gone)
    BY <1>0, <2>1 DEF QesPhase
  <2>5. IssuancePhase(c, ok) => IssuancePhase(d, ok)
    BY <1>0, <2>1 DEF IssuancePhase
  <2>6. TransferPhase(c) => TransferPhase(d)
    BY <1>0, <2>1 DEF TransferPhase
  <2>7. ProximityPhase(c, ok) => ProximityPhase(d, ok)
    BY <1>0 DEF ProximityPhase
  <2>8. DcApiPhase(c) => DcApiPhase(d)
    BY <1>0 DEF DcApiPhase
  <2>. QED
    BY <1>0, <2>2, <2>3, <2>4, <2>5, <2>6, <2>7, <2>8 DEF Inv, Phase
<1>5. d.auditOk /\ \A f \in Replayed : Kept(d, f, gone)
  BY <1>0 DEF Inv, Kept
<1>. QED
  BY <1>1, <1>2, <1>3, <1>4, <1>5, <1>0 DEF Inv, Proving

(* It changes nothing about the effects that are allowed.                  *)
LEMMA AsideAllowed ==
  ASSUME NEW c, NEW d, NEW ok, NEW gone, Aside(c, d)
  PROVE  Allowed(c, ok, gone) = Allowed(d, ok, gone)
<1>0. /\ DOMAIN d = CoreFields
      /\ d.active = c.active /\ d.machine = c.machine /\ d.hash = c.hash
      /\ d.session = c.session /\ d.refs = c.refs /\ d.doc = c.doc
      /\ d.secrets = c.secrets /\ d.auditOk = c.auditOk /\ d.log = c.log
      /\ d.clock = c.clock /\ d.trust = c.trust /\ d.status = c.status
      /\ d.held = c.held /\ d.seen = c.seen
  BY AsideFields
<1>1. ASSUME NEW op PROVE Fits(d, ok, op) <=> Fits(c, ok, op)
  BY <1>0 DEF Fits
<1>2. Covered(d) <=> Covered(c)
  BY <1>0 DEF Covered, TrustList
<1>3. ASSUME NEW e PROVE Sendable(d, gone, e) <=> Sendable(c, gone, e)
  BY <1>0 DEF Sendable
<1>4. ASSUME NEW e PROVE EffectOK(d, ok, gone, e) <=> EffectOK(c, ok, gone, e)
  BY <1>1, <1>2, <1>3, <1>0 DEF EffectOK
<1>. QED
  BY <1>4 DEF Allowed

(* serialize_wire_effects keeps a result in order: either the whole batch  *)
(* goes out, each awaited effect with an operation in flight that fits the *)
(* phase, or the batch is dropped and the flow reset.                      *)
LEMMA WireGood ==
  ASSUME NEW r, NEW ok, NEW gone, Good(r, ok, gone)
  PROVE  LET w == SerializeWireEffects(r)
         IN  /\ Good(w, ok, gone) /\ Keeps(r.core, w)
             /\ \/ w.out = r.out /\ w.core.machine = r.core.machine
                \/ w.out = << >> /\ ~Proving(w.core)
<1>. DEFINE c == r.core
            w == SerializeWireEffects(r)
            awaiting == {i \in 1 .. Len(r.out) : Awaits(r.out[i])}
            idOf(i) == c.nextId + Cardinality({j \in awaiting : j < i})
            ids == {idOf(i) : i \in awaiting}
            op(id) == LET e == r.out[CHOOSE i \in awaiting : idOf(i) = id]
                      IN  [flow |-> c.active, result |-> ResultOf[e.kind],
                           about |-> e.about]
            fits == /\ \A i \in 1 .. Len(r.out) : Representable(c, r.out[i])
                    /\ WithinLimit(c, Cardinality(awaiting))
            added == [c EXCEPT !.nextId = @ + Cardinality(awaiting),
                               !.pending = [id \in DOMAIN @ \cup ids |->
                                   IF id \in ids THEN op(id) ELSE @[id]]]
            reset == IF c.active = None THEN c ELSE ResetFlow(c, c.active)
            dropped == [reset EXCEPT !.pending = << >>]
<1>1. Inv(c, ok, gone) /\ r.out \in Seq(Allowed(c, ok, gone))
  BY DEF Good
<1>2. DOMAIN c = CoreFields
  BY <1>1 DEF Inv, CoreType
<1>3. CASE fits
  <2>1. w = Result(added, r.out)
    BY <1>3 DEF SerializeWireEffects
  <2>2. Aside(c, added)
    BY <1>2 DEF Aside, CoreFields
  <2>3. added.pending = [id \in DOMAIN c.pending \cup ids |->
                            IF id \in ids THEN op(id) ELSE c.pending[id]]
    BY <1>2 DEF CoreFields
  <2>4. ASSUME NEW id \in ids PROVE Fits(c, ok, op(id))
    <3>. DEFINE j == CHOOSE i \in awaiting : idOf(i) = id
    <3>1. \E i \in awaiting : idOf(i) = id
      BY <2>4
    <3>2. j \in awaiting
      BY <3>1
    <3>. HIDE DEF j
    <3>3. Awaits(r.out[j]) /\ j \in 1 .. Len(r.out)
      BY <3>2
    <3>4. r.out[j] \in Allowed(c, ok, gone)
      BY <1>1, <3>3, SMTT(60)
    <3>5. Fits(c, ok, [flow |-> c.active, result |-> ResultOf[r.out[j].kind],
                       about |-> r.out[j].about])
      BY <3>3, <3>4 DEF Allowed, EffectOK
    <3>. QED
      BY <3>5 DEF j
  <2>5. \A id \in DOMAIN c.pending : Fits(c, ok, c.pending[id])
    BY <1>1 DEF Inv
  <2>. HIDE DEF added, ids, op
  <2>6. ASSUME NEW id \in DOMAIN added.pending PROVE Fits(c, ok, added.pending[id])
    <3>1. CASE id \in ids
      BY <2>3, <2>4, <3>1
    <3>2. CASE id \notin ids
      BY <2>3, <2>5, <3>2
    <3>. QED
      BY <3>1, <3>2
  <2>7. Inv(added, ok, gone) /\ added.log = c.log /\ (Proving(added) <=> Proving(c))
    BY <1>1, <2>2, <2>6, AsideInv
  <2>8. Allowed(c, ok, gone) = Allowed(added, ok, gone)
    BY <2>2, AsideAllowed, SMTT(60)
  <2>9. added.machine = c.machine
    BY <2>2 DEF Aside, CoreFields
  <2>10. w.core = added /\ w.out = r.out
    BY <2>1, SMTT(60) DEF Result
  <2>. QED
    BY <1>1, <2>7, <2>8, <2>9, <2>10 DEF Good, Keeps
<1>4. CASE ~fits
  <2>1. w = Result(dropped, << >>)
    BY <1>4 DEF SerializeWireEffects
  <2>2. Base(c, c.active, gone) /\ c.active \in AllFlows \cup {None}
    <3>1. Base(c, c.active, gone)
      BY <1>1, BaseOfInv
    <3>. QED
      BY <1>1, <3>1 DEF Inv, CoreType
  <2>3. Base(reset, None, gone) /\ reset.log = c.log /\ ~Proving(reset)
    <3>1. CASE c.active = None
      <4>1. c.machine["Issuance"].at \in AtRest
        BY <2>2, <3>1, NoneIsNoFlow DEF Base, OthersRest, AllFlows
      <4>2. ~Proving(c)
        BY <4>1 DEF Proving, AtRest
      <4>. QED
        BY <2>2, <3>1, <4>2
    <3>2. CASE c.active # None
      <4>1. c.active \in AllFlows
        BY <2>2, <3>2
      <4>2. /\ Base(ResetFlow(c, c.active), None, gone)
            /\ ResetFlow(c, c.active).log = c.log /\ ~Proving(ResetFlow(c, c.active))
        BY <2>2, <4>1, ResetBase
      <4>. QED
        BY <3>2, <4>2
    <3>. QED
      BY <3>1, <3>2
  <2>4. Inv(reset, ok, gone)
    BY <2>3, Rest
  <2>. HIDE DEF reset
  <2>5. Aside(reset, dropped)
    BY <2>4 DEF Inv, CoreType, Aside, CoreFields
  <2>6. dropped.pending = << >>
    BY <2>4 DEF Inv, CoreType, CoreFields
  <2>. HIDE DEF dropped
  <2>7. DOMAIN dropped.pending = {}
    BY <2>6, SMTT(60)
  <2>8. /\ Inv(dropped, ok, gone) /\ dropped.log = reset.log
        /\ (Proving(dropped) <=> Proving(reset))
    BY <2>4, <2>5, <2>7, AsideInv
  <2>9. << >> \in Seq(Allowed(dropped, ok, gone))
    BY SMTT(60)
  <2>10. w.core = dropped /\ w.out = << >>
    BY <2>1, SMTT(60) DEF Result
  <2>. QED
    BY <2>3, <2>8, <2>9, <2>10 DEF Good, Keeps
<1>. QED
  BY <1>3, <1>4

(* Every nonce of more is that of an effect the core may send.             *)
Accounted(c, ok, gone, more) ==
    \A p \in more : \E e \in Allowed(c, ok, gone) :
        e.kind = "Http" /\ p = <<e.flow, NonceOf[e.about]>>

(* Counting the nonces of what is sent as spent keeps the core in order.   *)
LEMMA SpentInv ==
  ASSUME NEW c, NEW ok, NEW gone, Inv(c, ok, gone), NEW more,
         Accounted(c, ok, gone, more)
  PROVE  Inv(c, ok, gone \cup more)
<1>1. ASSUME NEW f, NEW n, <<f, n>> \in more
      PROVE  /\ f = c.active /\ n \in c.seen[f]
             /\ c.machine[f].at \in {"Presenting", "Authorized", "Signed"}
  <2>1. PICK e \in Allowed(c, ok, gone) :
            e.kind = "Http" /\ <<f, n>> = <<e.flow, NonceOf[e.about]>>
    BY <1>1 DEF Accounted
  <2>2. f = e.flow /\ n = NonceOf[e.about]
    BY <2>1
  <2>3. Sendable(c, gone, e)
    BY <2>1 DEF Allowed, EffectOK
  <2>. QED
    BY <2>2, <2>3 DEF Sendable
<1>2. \A f \in Replayed : Kept(c, f, gone \cup more)
  BY <1>1 DEF Inv, Kept
<1>3. ASSUME NEW f, c.machine[f].at \notin {"Presenting", "Authorized", "Signed"},
             Unspent(c, f, gone)
      PROVE  Unspent(c, f, gone \cup more)
  BY <1>1, <1>3 DEF Unspent
<1>4. Phase(c, ok, gone \cup more)
  <2>1. Phase(c, ok, gone)
    BY DEF Inv
  <2>2. PresentationPhase(c, ok, gone) => PresentationPhase(c, ok, gone \cup more)
    BY <1>3 DEF PresentationPhase
  <2>3. PaymentPhase(c, ok, gone) => PaymentPhase(c, ok, gone \cup more)
    BY <1>3 DEF PaymentPhase
  <2>4. QesPhase(c, ok, gone) => QesPhase(c, ok, gone \cup more)
    BY <1>3 DEF QesPhase
  <2>. QED
    BY <2>1, <2>2, <2>3, <2>4 DEF Phase
<1>. QED
  BY <1>2, <1>4 DEF Inv

(* A further approval does.                                                *)
LEMMA MoreApproved ==
  ASSUME NEW c, NEW ok, NEW gone, Inv(c, ok, gone), NEW more
  PROVE  Inv(c, ok \cup more, gone)
<1>1. \A f : Approved(c, f, ok) => Approved(c, f, ok \cup more)
  BY DEF Approved
<1>2. Phase(c, ok \cup more, gone)
  <2>1. Phase(c, ok, gone)
    BY DEF Inv
  <2>2. PresentationPhase(c, ok, gone) => PresentationPhase(c, ok \cup more, gone)
    BY <1>1 DEF PresentationPhase
  <2>3. PaymentPhase(c, ok, gone) => PaymentPhase(c, ok \cup more, gone)
    BY <1>1 DEF PaymentPhase
  <2>4. QesPhase(c, ok, gone) => QesPhase(c, ok \cup more, gone)
    BY <1>1 DEF QesPhase
  <2>5. IssuancePhase(c, ok) => IssuancePhase(c, ok \cup more)
    BY <1>1 DEF IssuancePhase
  <2>6. ProximityPhase(c, ok) => ProximityPhase(c, ok \cup more)
    BY DEF ProximityPhase
  <2>. QED
    BY <2>1, <2>2, <2>3, <2>4, <2>5, <2>6 DEF Phase
<1>3. ASSUME NEW op, Fits(c, ok, op) PROVE Fits(c, ok \cup more, op)
  BY <1>3 DEF Fits
<1>. QED
  BY <1>2, <1>3 DEF Inv

(* An effect that awaits an answer, alone in its batch.                    *)
LEMMA EffAllowed ==
  ASSUME NEW d, NEW ok, NEW gone, NEW k \in DOMAIN ResultOf, NEW a \in Abouts,
         NEW f \in AllFlows, d.active = f,
         k \in Consequential => a \in ok,
         Fits(d, ok, [flow |-> f, result |-> ResultOf[k], about |-> a]),
         k \in {"Sign", "Http"} /\ f = "Presentation" => Covered(d),
         k = "Http" => Sendable(d, gone, Eff(k, f, a)),
         k = "Sign" /\ f = "Issuance" => Proving(d)
  PROVE  <<Eff(k, f, a)>> \in Seq(Allowed(d, ok, gone))
<1>. DEFINE e == Eff(k, f, a)
<1>1. e.kind = k /\ e.flow = f /\ e.about = a
  BY DEF Eff
<1>2. e \in Effects
  BY DEF Eff, Effects, Kinds
<1>. HIDE DEF e
<1>3. EffectOK(d, ok, gone, e)
  BY <1>1 DEF EffectOK, e, Proving
<1>4. e \in Allowed(d, ok, gone)
  BY <1>2, <1>3 DEF Allowed
<1>. QED
  BY <1>4, SMTT(60) DEF e

(* An emission that awaits none.                                           *)
LEMMA EmitAllowed ==
  ASSUME NEW d, NEW ok, NEW gone, NEW a \in Abouts, NEW f \in AllFlows,
         NEW k \in {"EmitDeviceEngagement", "EmitDeviceResponse", "EmitDcApiResponse"},
         k # "EmitDeviceEngagement" => a \in ok
  PROVE  <<Eff(k, f, a)>> \in Seq(Allowed(d, ok, gone))
<1>. DEFINE e == Eff(k, f, a)
<1>1. e.kind = k /\ e.flow = f /\ e.about = a
  BY DEF Eff
<1>2. e \in Effects
  BY DEF Eff, Effects, Kinds, Consequential
<1>. HIDE DEF e
<1>3. EffectOK(d, ok, gone, e)
  BY <1>1 DEF EffectOK, Awaits, ResultOf, Consequential
<1>4. e \in Allowed(d, ok, gone)
  BY <1>2, <1>3 DEF Allowed
<1>. QED
  BY <1>4, SMTT(60) DEF e

(* No effect at all.                                                       *)
LEMMA Silent == ASSUME NEW c, NEW ok, NEW gone PROVE << >> \in Seq(Allowed(c, ok, gone))
BY SMTT(60)

(* Joining nothing to a sequence of effects leaves it as it is.            *)
Flat(out) == << >> \o out = out /\ out \o << >> = out

(* Joining nothing to a batch of effects leaves it as it is.               *)
LEMMA FlatSeq == ASSUME NEW S, NEW out \in Seq(S) PROVE Flat(out)
BY SMTT(60) DEF Flat

(* So it is for what a handler returned.                                   *)
LEMMA GoodFlat ==
  ASSUME NEW d, NEW out, NEW ok, NEW gone, Good(Result(d, out), ok, gone)
  PROVE  Flat(out)
<1>1. out \in Seq(Allowed(d, ok, gone))
  BY SMTT(60) DEF Good, Result
<1>. QED
  BY <1>1, FlatSeq

(* A core in order with effects it allows is what a handler must return.   *)
LEMMA Returns ==
  ASSUME NEW c, NEW d, NEW ok, NEW gone, NEW out, Inv(d, ok, gone),
         out \in Seq(Allowed(d, ok, gone)), d.log = c.log, Proving(d) => Proving(c)
  PROVE  Good(Result(d, out), ok, gone) /\ Keeps(c, Result(d, out))
<1>1. Result(d, out).core = d /\ Result(d, out).out = out
  BY DEF Result
<1>. QED
  BY <1>1 DEF Good, Keeps

(* So is an active flow whose phase and operations fit.                    *)
LEMMA Advances ==
  ASSUME NEW c, NEW d, NEW f, NEW ok, NEW gone, NEW out,
         Base(d, f, gone), Phase(d, ok, gone),
         \A id \in DOMAIN d.pending : Fits(d, ok, d.pending[id]),
         out \in Seq(Allowed(d, ok, gone)), d.log = c.log, Proving(d) => Proving(c)
  PROVE  Good(Result(d, out), ok, gone) /\ Keeps(c, Result(d, out))
<1>1. Inv(d, ok, gone)
  BY InvOfBase
<1>. QED
  BY <1>1, Returns

(* A consent screen is raised over the operations in flight.               *)
LEMMA AsksOver ==
  ASSUME NEW d, NEW ok, NEW gone, NEW f \in AllFlows, Base(d, f, gone),
         f # "WalletTransfer", NEW x \in Shown,
         \A id \in DOMAIN d.pending : Fits(Asking(d, f, x), ok, d.pending[id]),
         f = "Presentation" => d.machine[f].at = "RequestValidated",
         f = "Proximity" => d.machine[f].at # "Engaged",
         Phase(Asking(d, f, x), ok, gone)
  PROVE  LET r == Result(Asking(d, f, x), <<Eff("Consent", f, x)>>)
         IN  Good(r, ok, gone) /\ Keeps(d, r)
<1>. DEFINE h == Asking(d, f, x)
            out == <<Eff("Consent", f, x)>>
<1>1. /\ Base(h, f, gone) /\ Alike(d, h)
      /\ h.machine = d.machine /\ h.seen = d.seen /\ h.log = d.log
      /\ h.hash[f] = x
  BY Raises, SMTT(60)
<1>. HIDE DEF h
<1>2. h.active = f /\ h.pending = d.pending
  BY <1>1 DEF Base, Alike
<1>3. /\ ResultOf["Consent"] = "Decision" /\ "Consent" \in DOMAIN ResultOf
      /\ "Consent" \notin Consequential
  BY DEF ResultOf, Consequential
<1>4. Fits(h, ok, [flow |-> f, result |-> ResultOf["Consent"], about |-> x])
  BY <1>1, <1>2, <1>3, NoneIsNoFlow DEF Fits
<1>5. x \in Abouts
  BY DEF Abouts
<1>6. out \in Seq(Allowed(h, ok, gone))
  BY <1>2, <1>3, <1>4, <1>5, EffAllowed
<1>7. \A id \in DOMAIN h.pending : Fits(h, ok, h.pending[id])
  BY <1>2 DEF h
<1>8. Proving(h) => Proving(d)
  BY <1>1 DEF Proving
<1>9. Phase(h, ok, gone)
  BY DEF h
<1>. HIDE DEF out
<1>10. Good(Result(h, out), ok, gone) /\ Keeps(d, Result(h, out))
  BY <1>1, <1>6, <1>7, <1>8, <1>9, Advances
<1>. QED
  BY <1>10 DEF h, out

(* Of a flow just begun, the consent screen is all there is.               *)
LEMMA Asks ==
  ASSUME NEW d, NEW ok, NEW gone, NEW f \in AllFlows, Base(d, f, gone),
         f # "WalletTransfer", NEW x \in Shown, DOMAIN d.pending = {},
         f = "Presentation" => d.machine[f].at = "RequestValidated",
         f = "Proximity" => d.machine[f].at # "Engaged",
         Phase(Asking(d, f, x), ok, gone)
  PROVE  LET r == Result(Asking(d, f, x), <<Eff("Consent", f, x)>>)
         IN  Good(r, ok, gone) /\ Keeps(d, r)
<1>1. \A id \in DOMAIN d.pending : Fits(Asking(d, f, x), ok, d.pending[id])
  OBVIOUS
<1>. QED
  BY <1>1, AsksOver

(* A step that moves nothing keeps the core in order.                      *)
LEMMA FrameInv ==
  ASSUME NEW c, NEW d, NEW ok, NEW gone, NEW f \in AllFlows,
         Inv(c, ok, gone), c.active = f, Base(d, f, gone), Alike(c, d),
         d.hash = c.hash, d.log = c.log, d.machine[f] = c.machine[f], SeenMore(c, d)
  PROVE  Inv(d, ok, gone)
<1>1. /\ d.active = f /\ d.refs = c.refs /\ d.doc = c.doc /\ d.log = c.log
      /\ d.session = c.session /\ d.pending = c.pending
  BY DEF Alike
<1>2. Phase(c, ok, gone) /\ \A id \in DOMAIN c.pending : Fits(c, ok, c.pending[id])
  BY DEF Inv
<1>3. ASSUME f = "Presentation" PROVE PresentationPhase(d, ok, gone)
  <2>1. PresentationPhase(c, ok, gone) /\ c.seen[f] \subseteq d.seen[f]
    BY <1>2, <1>3 DEF Phase, Replayed, SeenMore
  <2>2. d.machine["Presentation"] = c.machine["Presentation"]
    BY <1>3
  <2>. QED
    BY <1>1, <1>3, <2>1, <2>2
       DEF PresentationPhase, OnScreen, Approved, Unspent, LogAccepts
<1>4. ASSUME f = "Payment" PROVE PaymentPhase(d, ok, gone)
  BY <1>1, <1>2, <1>4 DEF Phase, PaymentPhase, OnScreen, Approved, Unspent, LogAccepts
<1>5. ASSUME f = "Qes" PROVE QesPhase(d, ok, gone)
  <2>1. QesPhase(c, ok, gone) /\ c.seen[f] \subseteq d.seen[f]
    BY <1>2, <1>5 DEF Phase, Replayed, SeenMore
  <2>2. d.machine["Qes"] = c.machine["Qes"]
    BY <1>5
  <2>. QED
    BY <1>1, <1>5, <2>1, <2>2 DEF QesPhase, OnScreen, Approved, Unspent
<1>6. ASSUME f = "Issuance" PROVE IssuancePhase(d, ok)
  BY <1>1, <1>2, <1>6 DEF Phase, IssuancePhase, OnScreen, Approved, LogAccepts
<1>7. ASSUME f = "WalletTransfer" PROVE TransferPhase(d)
  BY <1>1, <1>2, <1>7 DEF Phase, TransferPhase, CanGuaranteeMaxEntry
<1>8. ASSUME f = "Proximity" PROVE ProximityPhase(d, ok)
  BY <1>1, <1>2, <1>8 DEF Phase, ProximityPhase
<1>9. ASSUME f = "DcApi" PROVE DcApiPhase(d)
  BY <1>1, <1>2, <1>9 DEF Phase, DcApiPhase
<1>10. Phase(d, ok, gone)
  BY <1>1, <1>3, <1>4, <1>5, <1>6, <1>7, <1>8, <1>9 DEF Phase
<1>11. \A id \in DOMAIN d.pending : Fits(d, ok, d.pending[id])
  <2>1. ASSUME NEW op, Fits(c, ok, op) PROVE Fits(d, ok, op)
    BY <1>1, <2>1 DEF Fits
  <2>. QED
    BY <1>1, <1>2, <2>1
<1>. QED
  BY <1>10, <1>11, InvOfBase

(* The log of d is that of c and the entry of one interaction.             *)
Adds(c, d, f, x) == d.log = Append(c.log, [kind |-> f, shown |-> x])

(* An entry appended to the log changes nothing else.                      *)
LEMMA Records ==
  ASSUME NEW c, NEW f \in AllFlows, NEW gone, Base(c, f, gone),
         NEW x \in Shown \cup Credentials
  PROVE  LET d == AppendAuditEntry(c, f, x)
         IN  /\ Base(d, f, gone) /\ d.machine = c.machine
             /\ Adds(c, d, f, x)
<1>. DEFINE e == [kind |-> f, shown |-> x]
            d == [c EXCEPT !.log = Append(@, e)]
<1>0. DOMAIN c = CoreFields /\ c.log \in Seq(Entries)
  BY DEF Base, CoreType
<1>1. e \in Entries
  BY DEF Entries
<1>. HIDE DEF e
<1>2. Only(c, d, "log") /\ d.log = Append(c.log, e)
  BY <1>0 DEF Only, CoreFields
<1>. HIDE DEF d
<1>3. d.log \in Seq(Entries)
  BY <1>0, <1>1, <1>2, SMTT(60)
<1>4. /\ DOMAIN d = CoreFields /\ d.active = c.active /\ d.machine = c.machine
      /\ d.doc = c.doc /\ d.session = c.session /\ d.secrets = c.secrets
      /\ d.clock = c.clock /\ d.status = c.status /\ d.held = c.held
      /\ d.hash = c.hash /\ d.seen = c.seen /\ d.pending = c.pending
      /\ d.auditOk = c.auditOk
  BY <1>2 DEF Only, CoreFields
<1>5. CoreType(d)
  BY <1>3, <1>4 DEF Base, CoreType
<1>6. Base(d, f, gone)
  BY <1>4, <1>5 DEF Base, OthersRest, Kept
<1>7. d.machine = c.machine
  BY <1>4
<1>8. Adds(c, d, f, x)
  BY <1>2 DEF Adds, e
<1>. QED
  BY <1>6, <1>7, <1>8 DEF d, e, AppendAuditEntry

(* What a completion leaves: the flow over, its entry written.             *)
Completes(c, r, f, x) == Adds(c, r.core, f, x) /\ (Proving(r.core) => Proving(c))

(* The entry of a completed interaction is written and the flow finished.  *)
LEMMA CompleteGood ==
  ASSUME NEW c, NEW f \in AllFlows, NEW gone, NEW ok, Base(c, f, gone),
         c.machine[f].at \in AtRest, NEW x \in Shown \cup Credentials,
         NEW out \in Seq(Quiet)
  PROVE  LET r == Result(FinishFlow(AppendAuditEntry(c, f, x), f), out)
         IN  Good(r, ok, gone) /\ Completes(c, r, f, x)
<1>. DEFINE d == AppendAuditEntry(c, f, x)
            b == FinishFlow(d, f)
<1>1. Base(d, f, gone) /\ d.machine = c.machine /\ Adds(c, d, f, x)
  BY Records
<1>. HIDE DEF d
<1>2. d.machine = c.machine
  BY <1>1
<1>3. /\ Base(b, None, gone) /\ b.log = d.log
      /\ \A g \in AllFlows : b.machine[g] = d.machine[g]
  BY <1>1, <1>2, FinishBase
<1>. HIDE DEF b
<1>4. Good(Result(b, out), ok, gone)
  BY <1>3, EndGood
<1>5. b.machine["Issuance"] = c.machine["Issuance"]
  BY <1>2, <1>3 DEF AllFlows
<1>6. Result(b, out).core = b
  BY DEF Result
<1>7. Completes(c, Result(b, out), f, x)
  BY <1>1, <1>3, <1>5, <1>6 DEF Completes, Adds, Proving
<1>. QED
  BY <1>4, <1>7 DEF b, d

(* A machine that changes its phase only.                                  *)
At(n, p) == [n EXCEPT !.at = p]

(* Such a machine keeps its request.                                       *)
LEMMA PhaseOnly ==
  ASSUME NEW n, IsMachine(n), NEW p
  PROVE  At(n, p).at = p /\ At(n, p).req = n.req /\ IsMachine(At(n, p))
BY DEF At, IsMachine

(* The core's machines are machines.                                       *)
LEMMA MachineOfInv ==
  ASSUME NEW c, NEW ok, NEW gone, Inv(c, ok, gone), NEW f \in AllFlows
  PROVE  IsMachine(c.machine[f])
BY DEF Inv, CoreType, IsMachine

-----------------------------------------------------------------------------
(* What occurs in a sequence belongs to its elements' set.                 *)
LEMMA InRange ==
  ASSUME NEW S, NEW out \in Seq(S), NEW e \in Range(out)
  PROVE  e \in S
BY SMTT(60) DEF Range

(* What a batch of allowed effects spends is accounted for and was not     *)
(* spent before.                                                           *)
LEMMA SpendsAllowed ==
  ASSUME NEW c, NEW ok, NEW gone, NEW out \in Seq(Allowed(c, ok, gone))
  PROVE  Accounted(c, ok, gone, Spends(out)) /\ Spends(out) \cap gone = {}
<1>1. ASSUME NEW p \in Spends(out)
      PROVE  /\ \E e \in Allowed(c, ok, gone) :
                   e.kind = "Http" /\ p = <<e.flow, NonceOf[e.about]>>
             /\ p \notin gone
  <2>1. PICK e \in EffectsIn(out, {"Http"}) : p = <<e.flow, NonceOf[e.about]>>
    BY DEF Spends
  <2>2. e \in Range(out) /\ e.kind = "Http"
    BY DEF EffectsIn
  <2>3. e \in Allowed(c, ok, gone)
    BY <2>2, InRange
  <2>4. Sendable(c, gone, e)
    BY <2>2, <2>3 DEF Allowed, EffectOK
  <2>. QED
    BY <2>1, <2>2, <2>3, <2>4 DEF Sendable
<1>. QED
  BY <1>1 DEF Accounted

(* A handler's result, put on the wire.                                    *)
LEMMA Wire ==
  ASSUME NEW r, NEW ok, NEW gone, Good(r, ok, gone)
  PROVE  LET w == SerializeWireEffects(r)
         IN  /\ Inv(w.core, ok, gone \cup Spends(w.out))
             /\ w.out \in Seq(Allowed(w.core, ok, gone))
             /\ w.core.log = r.core.log
             /\ Proving(w.core) => Proving(r.core)
<1>. DEFINE w == SerializeWireEffects(r)
<1>1. Good(w, ok, gone) /\ Keeps(r.core, w)
  BY WireGood, SMTT(60)
<1>. HIDE DEF w
<1>2. Inv(w.core, ok, gone) /\ w.out \in Seq(Allowed(w.core, ok, gone))
  BY <1>1 DEF Good
<1>3. Accounted(w.core, ok, gone, Spends(w.out))
  BY <1>2, SpendsAllowed
<1>4. Inv(w.core, ok, gone \cup Spends(w.out))
  BY <1>2, <1>3, SpentInv
<1>. QED
  BY <1>1, <1>2, <1>4 DEF w, Keeps

-----------------------------------------------------------------------------
(* What every event does to the wallet.                                    *)
Turn ==
    /\ Inv(core', approved', spent')
    /\ effects' \in Seq(Allowed(core', approved', spent))
    /\ Proving(core') /\ ~Proving(core) => spent' # spent

(* What every event does to the log and to the history it stands for.      *)
Logs(f, x) == /\ core'.log = Append(core.log, [kind |-> f, shown |-> x])
              /\ history' = Append(history, [kind |-> f, shown |-> x])
(* The log stays, grows by the entry of one interaction, has an entry      *)
(* redacted or is erased.                                                  *)
LogTurn ==
    \/ core'.log = core.log /\ history' = history
    \/ \E f \in AllFlows, x \in Shown \cup Credentials : Logs(f, x)
    \/ \E seq \in 1 .. Len(core.log) :
          core'.log = [core.log EXCEPT ![seq] = Tombstone] /\ history' = history
    \/ core'.log = << >> /\ history' = << >>

(* A result in order, released, is a turn of the wallet.                   *)
LEMMA ReleaseTurn ==
  ASSUME NEW r, NEW ok, Released(r), approved' = ok, Good(r, ok, spent),
         Proving(r.core) => Proving(core)
  PROVE  Turn /\ core'.log = r.core.log
<1>. DEFINE w == SerializeWireEffects(r)
<1>1. /\ Inv(w.core, ok, spent \cup Spends(w.out))
      /\ w.out \in Seq(Allowed(w.core, ok, spent))
      /\ w.core.log = r.core.log
      /\ Proving(w.core) => Proving(r.core)
  BY Wire
<1>2. core' = w.core /\ effects' = w.out /\ spent' = spent \cup Spends(w.out)
  BY DEF Released
<1>. HIDE DEF w
<1>. QED
  BY <1>1, <1>2 DEF Turn

(* So is an event that completes nothing,                                  *)
LEMMA EventTurn ==
  ASSUME NEW r, Event(r), Good(r, approved, spent), Keeps(core, r)
  PROVE  Turn /\ LogTurn
<1>1. /\ Released(r) /\ approved' = approved /\ history' = history
      /\ r.core.log = core.log
      /\ Proving(r.core) => Proving(core)
  BY DEF Event, Keeps
<1>2. Turn /\ core'.log = r.core.log
  BY <1>1, ReleaseTurn
<1>. QED
  BY <1>1, <1>2 DEF LogTurn

(* an event that starts a flow: nothing is approved in it yet,             *)
LEMMA StartTurn ==
  ASSUME NEW f, NEW r, Start(f, r), Good(r, {}, spent), Keeps(core, r)
  PROVE  Turn /\ LogTurn
<1>1. /\ Released(r) /\ approved' = {} /\ history' = history
      /\ r.core.log = core.log
      /\ Proving(r.core) => Proving(core)
  BY DEF Start, Keeps
<1>2. Turn /\ core'.log = r.core.log
  BY <1>1, ReleaseTurn
<1>. QED
  BY <1>1, <1>2 DEF LogTurn

(* and a completed interaction: its entry is written.                      *)
LEMMA EntryTurn ==
  ASSUME NEW r, NEW f \in AllFlows, NEW x \in Shown \cup Credentials,
         Released(r), approved' = approved, Good(r, approved, spent),
         Completes(core, r, f, x),
         history' = Append(history, [kind |-> f, shown |-> x])
  PROVE  Turn /\ LogTurn
<1>1. /\ r.core.log = Append(core.log, [kind |-> f, shown |-> x])
      /\ Proving(r.core) => Proving(core)
  BY DEF Completes, Adds
<1>2. Turn /\ core'.log = r.core.log
  BY <1>1, ReleaseTurn
<1>. QED
  BY <1>1, <1>2 DEF LogTurn, Logs

(* The answered operation is consumed.                                     *)
LEMMA Consumed ==
  ASSUME NEW ok, NEW gone, Inv(core, ok, gone), NEW id \in DOMAIN core.pending
  PROVE  LET c == Consume(id)
         IN  /\ Inv(c, ok, gone) /\ c.log = core.log /\ (Proving(c) <=> Proving(core))
             /\ c.active = core.active /\ c.machine = core.machine
             /\ c.hash = core.hash /\ c.doc = core.doc /\ c.held = core.held
             /\ c.clock = core.clock /\ c.trust = core.trust
             /\ Fits(core, ok, core.pending[id])
<1>. DEFINE c == Consume(id)
<1>1. Aside(core, c) /\ c.pending = [i \in DOMAIN core.pending \ {id} |-> core.pending[i]]
  BY DEF Consume, Aside, Inv, CoreType, CoreFields
<1>. HIDE DEF c
<1>2. \A i \in DOMAIN c.pending : Fits(core, ok, c.pending[i])
  BY <1>1 DEF Inv
<1>3. Inv(c, ok, gone) /\ c.log = core.log /\ (Proving(c) <=> Proving(core))
  BY <1>1, <1>2, AsideInv
<1>4. /\ DOMAIN c = CoreFields
      /\ c.active = core.active /\ c.machine = core.machine /\ c.hash = core.hash
      /\ c.session = core.session /\ c.refs = core.refs /\ c.doc = core.doc
      /\ c.secrets = core.secrets /\ c.auditOk = core.auditOk /\ c.log = core.log
      /\ c.clock = core.clock /\ c.trust = core.trust /\ c.status = core.status
      /\ c.held = core.held /\ c.seen = core.seen
  BY <1>1, AsideFields
<1>5. Fits(core, ok, core.pending[id])
  BY DEF Inv
<1>. QED
  BY <1>3, <1>4, <1>5 DEF c

(* A result handled without completing anything.                           *)
LEMMA AnswerTurn ==
  ASSUME NEW id \in DOMAIN core.pending, NEW r, Event(r), Inv(core, approved, spent),
         Good(r, approved, spent), Keeps(Consume(id), r)
  PROVE  Turn /\ LogTurn
<1>1. Consume(id).log = core.log /\ (Proving(Consume(id)) <=> Proving(core))
  BY Consumed, SMTT(60)
<1>2. Keeps(core, r)
  BY <1>1 DEF Keeps
<1>. QED
  BY <1>2, EventTurn

-----------------------------------------------------------------------------
(* The environment: nothing of a flow changes.                             *)
Settles(c, d) ==
    /\ DOMAIN d = CoreFields
    /\ \A j \in CoreFields \ {"clock", "trust", "held", "log", "auditOk"} : d[j] = c[j]

(* Such a change keeps the core in order.                                  *)
LEMMA Environs ==
  ASSUME NEW c, NEW d, NEW ok, NEW gone, Inv(c, ok, gone), Settles(c, d),
         d.log \in Seq(Entries), d.clock \in Nat, d.held \in SUBSET Credentials,
         d.auditOk, Len(c.log) < MaxLog => Len(d.log) < MaxLog
  PROVE  Inv(d, ok, gone) /\ (Proving(d) <=> Proving(c))
<1>1. /\ DOMAIN d = CoreFields
      /\ d.active = c.active /\ d.machine = c.machine /\ d.pending = c.pending
      /\ d.hash = c.hash /\ d.session = c.session /\ d.refs = c.refs
      /\ d.doc = c.doc /\ d.secrets = c.secrets /\ d.status = c.status
      /\ d.seen = c.seen
  BY DEF Settles, CoreFields
<1>2. CoreType(d)
  <2>1. CoreType(c)
    BY DEF Inv
  <2>. QED
    BY <1>1, <2>1 DEF CoreType
<1>3. ASSUME NEW op, Fits(c, ok, op) PROVE Fits(d, ok, op)
  BY <1>1, <1>3 DEF Fits
<1>4. \A id \in DOMAIN d.pending : Fits(d, ok, d.pending[id])
  BY <1>1, <1>3 DEF Inv
<1>5. \A x : LogAccepts(c, x) => LogAccepts(d, x)
  BY DEF LogAccepts
<1>6. CanGuaranteeMaxEntry(c) => CanGuaranteeMaxEntry(d)
  BY DEF CanGuaranteeMaxEntry
<1>7. Phase(d, ok, gone)
  <2>1. Phase(c, ok, gone)
    BY DEF Inv
  <2>2. PresentationPhase(c, ok, gone) => PresentationPhase(d, ok, gone)
    BY <1>1, <1>5 DEF PresentationPhase, OnScreen, Approved, Unspent
  <2>3. PaymentPhase(c, ok, gone) => PaymentPhase(d, ok, gone)
    BY <1>1, <1>5 DEF PaymentPhase, OnScreen, Approved, Unspent
  <2>4. QesPhase(c, ok, gone) => QesPhase(d, ok, gone)
    BY <1>1 DEF QesPhase, OnScreen, Approved, Unspent
  <2>5. IssuancePhase(c, ok) => IssuancePhase(d, ok)
    BY <1>1, <1>5 DEF IssuancePhase, OnScreen, Approved
  <2>6. TransferPhase(c) => TransferPhase(d)
    BY <1>1, <1>6 DEF TransferPhase
  <2>7. ProximityPhase(c, ok) => ProximityPhase(d, ok)
    BY <1>1 DEF ProximityPhase
  <2>8. DcApiPhase(c) => DcApiPhase(d)
    BY <1>1 DEF DcApiPhase
  <2>. QED
    BY <1>1, <2>1, <2>2, <2>3, <2>4, <2>5, <2>6, <2>7, <2>8 DEF Phase
<1>8. OthersRest(d, d.active) /\ \A f \in Replayed : Kept(d, f, gone)
  BY <1>1 DEF Inv, OthersRest, Kept
<1>. QED
  BY <1>1, <1>2, <1>4, <1>7, <1>8 DEF Inv, Proving

(* Notices may accompany it.                                               *)
LEMMA Quietly ==
  ASSUME NEW c, NEW d, NEW ok, NEW gone, Inv(d, ok, gone), d.log = c.log,
         Proving(d) => Proving(c), NEW out \in Seq(Quiet)
  PROVE  Good(Result(d, out), ok, gone) /\ Keeps(c, Result(d, out))
<1>1. out \in Seq(Allowed(d, ok, gone))
  <2>1. Quiet \subseteq Allowed(d, ok, gone)
    BY QuietAllowed
  <2>. QED
    BY <2>1, SMTT(60)
<1>. QED
  BY <1>1, Returns

(* A setting of the wallet changes.                                        *)
LEMMA SettingTurn ==
  ASSUME NEW d, Inv(core, approved, spent), Settles(core, d), d.log = core.log,
         d.clock \in Nat, d.held \in SUBSET Credentials, d.auditOk = core.auditOk,
         Event(Result(d, << >>))
  PROVE  Turn /\ LogTurn
<1>1. d.log \in Seq(Entries) /\ d.auditOk
  BY DEF Inv, CoreType
<1>2. Len(core.log) < MaxLog => Len(d.log) < MaxLog
  OBVIOUS
<1>3. Inv(d, approved, spent) /\ (Proving(d) <=> Proving(core))
  BY <1>1, <1>2, Environs
<1>4. /\ Good(Result(d, << >>), approved, spent)
      /\ Keeps(core, Result(d, << >>))
  BY <1>3, ErrorAndCloseQuiet, Quietly
<1>. QED
  BY <1>4, EventTurn

(* A newer trusted list is loaded.                                         *)
LEMMA LoadTrustListStep ==
  ASSUME Inv(core, approved, spent), LoadTrustList
  PROVE  Turn /\ LogTurn
<1>1. PICK n : Event(Result([core EXCEPT !.trust = n], << >>))
  BY DEF LoadTrustList
<1>. DEFINE d == [core EXCEPT !.trust = n]
<1>2. /\ Settles(core, d) /\ d.log = core.log /\ d.clock = core.clock
      /\ d.held = core.held /\ d.auditOk = core.auditOk
  BY DEF Settles, Inv, CoreType, CoreFields
<1>. HIDE DEF d
<1>3. d.clock \in Nat /\ d.held \in SUBSET Credentials
  BY <1>2 DEF Inv, CoreType
<1>. QED
  BY <1>1, <1>2, <1>3, SettingTurn DEF d

(* A credential is stored outside of any flow.                             *)
LEMMA IngestCredentialStep ==
  ASSUME Inv(core, approved, spent), IngestCredential
  PROVE  Turn /\ LogTurn
<1>1. PICK x \in Credentials : Event(Result([core EXCEPT !.held = @ \cup {x}], << >>))
  BY DEF IngestCredential
<1>. DEFINE d == [core EXCEPT !.held = @ \cup {x}]
<1>2. /\ Settles(core, d) /\ d.log = core.log /\ d.clock = core.clock
      /\ d.held = core.held \cup {x} /\ d.auditOk = core.auditOk
  BY DEF Settles, Inv, CoreType, CoreFields
<1>. HIDE DEF d
<1>3. d.clock \in Nat /\ d.held \in SUBSET Credentials
  BY <1>2 DEF Inv, CoreType
<1>. QED
  BY <1>1, <1>2, <1>3, SettingTurn DEF d

(* An entry of the log is redacted.                                        *)
LEMMA RedactTransactionStep ==
  ASSUME Inv(core, approved, spent), RedactTransaction
  PROVE  Turn /\ LogTurn
<1>1. PICK seq \in 1 .. Len(core.log) :
         Event(Result([core EXCEPT !.log[seq] = Tombstone], << >>))
  BY DEF RedactTransaction
<1>. DEFINE d == [core EXCEPT !.log[seq] = Tombstone]
<1>2. /\ Settles(core, d) /\ d.log = [core.log EXCEPT ![seq] = Tombstone]
      /\ d.clock = core.clock /\ d.held = core.held /\ d.auditOk = core.auditOk
      /\ d.machine = core.machine
  BY DEF Settles, Inv, CoreType, CoreFields
<1>. HIDE DEF d
<1>3. Tombstone \in Entries
  BY SMTT(60) DEF Tombstone, Entries, Shown, AllFlows
<1>4. core.log \in Seq(Entries)
  BY DEF Inv, CoreType
<1>5. d.log \in Seq(Entries) /\ Len(d.log) = Len(core.log)
  BY <1>2, <1>3, <1>4, SMTT(60)
<1>6. d.clock \in Nat /\ d.held \in SUBSET Credentials /\ d.auditOk
  BY <1>2 DEF Inv, CoreType
<1>7. Len(core.log) < MaxLog => Len(d.log) < MaxLog
  BY <1>5
<1>8. Inv(d, approved, spent) /\ (Proving(d) <=> Proving(core))
  BY <1>2, <1>5, <1>6, <1>7, Environs
<1>9. << >> \in Seq(Allowed(d, approved, spent))
  BY Silent
<1>10. Result(d, << >>).core = d /\ Result(d, << >>).out = << >>
  BY DEF Result
<1>11. Good(Result(d, << >>), approved, spent)
  BY <1>8, <1>9, <1>10 DEF Good
<1>12. /\ Released(Result(d, << >>)) /\ approved' = approved /\ history' = history
  BY <1>1 DEF Event, d
<1>13. Proving(Result(d, << >>).core) => Proving(core)
  BY <1>8, <1>10
<1>14. Turn /\ core'.log = Result(d, << >>).core.log
  BY <1>11, <1>12, <1>13, ReleaseTurn
<1>. QED
  BY <1>2, <1>10, <1>12, <1>14 DEF LogTurn

(* The log is erased.                                                      *)
LEMMA WipeTransactionLogStep ==
  ASSUME Inv(core, approved, spent), WipeTransactionLog
  PROVE  Turn /\ LogTurn
<1>. DEFINE d == [core EXCEPT !.log = << >>, !.auditOk = TRUE]
<1>1. Released(Result(d, << >>)) /\ approved' = approved /\ history' = << >>
  BY DEF WipeTransactionLog
<1>2. /\ Settles(core, d) /\ d.log = << >> /\ d.clock = core.clock
      /\ d.held = core.held /\ d.auditOk
  BY DEF Settles, Inv, CoreType, CoreFields
<1>. HIDE DEF d
<1>3. core.log \in Seq(Entries)
  BY DEF Inv, CoreType
<1>4. d.log \in Seq(Entries) /\ (Len(core.log) < MaxLog => Len(d.log) < MaxLog)
  BY <1>2, <1>3, WalletAssumption, SMTT(60)
<1>5. d.clock \in Nat /\ d.held \in SUBSET Credentials
  BY <1>2 DEF Inv, CoreType
<1>6. Inv(d, approved, spent) /\ (Proving(d) <=> Proving(core))
  BY <1>2, <1>4, <1>5, Environs
<1>7. << >> \in Seq(Allowed(d, approved, spent))
  BY Silent
<1>8. Result(d, << >>).core = d /\ Result(d, << >>).out = << >>
  BY DEF Result
<1>9. Good(Result(d, << >>), approved, spent)
  BY <1>6, <1>7, <1>8 DEF Good
<1>10. Proving(Result(d, << >>).core) => Proving(core)
  BY <1>6, <1>8
<1>11. Turn /\ core'.log = Result(d, << >>).core.log
  BY <1>1, <1>9, <1>10, ReleaseTurn
<1>. QED
  BY <1>1, <1>2, <1>8, <1>11 DEF LogTurn

(* A new process: nothing is under way.                                    *)
LEMMA FreshInv ==
  ASSUME NEW d, NEW ok, NEW gone,
         DOMAIN d = CoreFields,
         d.active = None, d.machine = [f \in AllFlows |-> IdleMachine],
         d.pending = << >>, d.hash = [f \in AllFlows |-> None], d.session = None,
         d.secrets = FALSE, d.doc = [f \in Documented |-> None], d.status = << >>,
         d.auditOk = TRUE, d.log \in Seq(Entries), d.clock \in Nat,
         d.held \in SUBSET Credentials, DOMAIN d.seen = Replayed,
         \A f \in Replayed : Kept(d, f, gone)
  PROVE  Inv(d, ok, gone) /\ ~Proving(d)
<1>1. /\ DOMAIN IdleMachine = {"at", "req", "left", "why"}
      /\ IdleMachine.req = None /\ IdleMachine.at = "Idle"
  BY SMTT(60) DEF IdleMachine
<1>2. DOMAIN d.machine = AllFlows /\ \A f \in AllFlows : d.machine[f] = IdleMachine
  BY SMTT(60)
<1>3. \A f \in AllFlows : d.hash[f] = None
  BY SMTT(60)
<1>4. d.hash \in [AllFlows -> Shown] /\ d.doc \in [Documented -> Shown]
  BY SMTT(60) DEF Shown
<1>5. DOMAIN d.status = {} /\ DOMAIN d.pending = {}
  BY SMTT(60)
<1>6. CoreType(d)
  BY <1>1, <1>2, <1>4, <1>5 DEF CoreType, Shown
<1>7. OthersRest(d, None)
  BY <1>1, <1>2, <1>3 DEF OthersRest, AtRest
<1>8. Base(d, None, gone)
  BY <1>5, <1>6, <1>7 DEF Base
<1>9. ~Proving(d)
  BY <1>1, <1>2 DEF Proving, AllFlows
<1>. QED
  BY <1>8, <1>9, Rest

(* The process ends and a new one restores the committed checkpoint.       *)
LEMMA RestartStep ==
  ASSUME Inv(core, approved, spent), Restart
  PROVE  Turn /\ LogTurn
<1>. DEFINE d == core'
<1>1. /\ DOMAIN d = CoreFields
      /\ d.active = None /\ d.machine = [f \in AllFlows |-> IdleMachine]
      /\ d.pending = << >> /\ d.hash = [f \in AllFlows |-> None] /\ d.session = None
      /\ d.secrets = FALSE /\ d.doc = [f \in {"Proximity", "DcApi"} |-> None]
      /\ d.status = << >> /\ d.auditOk = TRUE /\ d.log = core.log
      /\ d.clock = core.clock /\ d.held = core.held /\ d.seen = core.seen
  BY DEF Restart, Fresh, Inv, CoreType, CoreFields
<1>2. effects' = << >> /\ approved' = {} /\ spent' = spent /\ history' = history
  BY DEF Restart
<1>. HIDE DEF d
<1>3. /\ d.log \in Seq(Entries) /\ d.clock \in Nat /\ d.held \in SUBSET Credentials
      /\ DOMAIN d.seen = Replayed
  BY <1>1 DEF Inv, CoreType
<1>4. \A f \in Replayed : Kept(d, f, spent)
  BY <1>1 DEF Inv, Kept
<1>5. d.doc = [f \in Documented |-> None]
  BY <1>1 DEF Documented
<1>6. Inv(d, {}, spent) /\ ~Proving(d)
  BY <1>1, <1>3, <1>4, <1>5, FreshInv
<1>7. << >> \in Seq(Allowed(d, {}, spent))
  BY Silent
<1>. QED
  BY <1>1, <1>2, <1>6, <1>7 DEF Turn, LogTurn, d

(* The wallet starts in order.                                             *)
LEMMA InitStep ==
  ASSUME Init
  PROVE  Inv(core, approved, spent) /\ effects = << >>
<1>1. /\ DOMAIN core = CoreFields
      /\ core.active = None /\ core.machine = [f \in AllFlows |-> IdleMachine]
      /\ core.pending = << >> /\ core.hash = [f \in AllFlows |-> None]
      /\ core.session = None /\ core.secrets = FALSE
      /\ core.doc = [f \in {"Proximity", "DcApi"} |-> None]
      /\ core.status = << >> /\ core.auditOk = TRUE /\ core.log = << >>
      /\ core.clock = 1 /\ core.held = InitiallyHeld
      /\ core.seen = [f \in {"Presentation", "Payment", "Issuance", "Qes"} |-> {}]
  BY DEF Init, NewCore, Fresh, CoreFields
<1>2. /\ core.log \in Seq(Entries) /\ core.clock \in Nat
      /\ core.held \in SUBSET Credentials /\ DOMAIN core.seen = Replayed
  BY <1>1, WalletAssumption, SMTT(60) DEF Replayed
<1>3. \A f \in Replayed : Kept(core, f, spent)
  BY DEF Init, Kept
<1>4. core.doc = [f \in Documented |-> None]
  BY <1>1 DEF Documented
<1>. QED
  BY <1>1, <1>2, <1>3, <1>4, FreshInv DEF Init

-----------------------------------------------------------------------------
(* Results and arrivals.                                                  *)

(* The operation a result answers, and the core it is handled in.          *)
LEMMA Answering ==
  ASSUME Inv(core, approved, spent), NEW kind, NEW id \in Answerable(kind)
  PROVE  LET c == Consume(id)
             op == core.pending[id]
         IN  /\ id \in DOMAIN core.pending
             /\ Inv(c, approved, spent) /\ c.active = core.active
             /\ c.machine = core.machine /\ c.hash = core.hash /\ c.doc = core.doc
             /\ c.log = core.log /\ (Proving(c) <=> Proving(core))
             /\ Fits(c, approved, op) /\ op.result = kind /\ op.flow = c.active
<1>. DEFINE c == Consume(id)
            op == core.pending[id]
<1>1. id \in DOMAIN core.pending /\ op.flow = core.active /\ op.result = kind
  BY DEF Answerable
<1>2. /\ Inv(c, approved, spent) /\ c.log = core.log /\ (Proving(c) <=> Proving(core))
      /\ c.active = core.active /\ c.machine = core.machine
      /\ c.hash = core.hash /\ c.doc = core.doc /\ c.held = core.held
      /\ c.clock = core.clock /\ c.trust = core.trust
      /\ Fits(core, approved, core.pending[id])
  BY <1>1, Consumed
<1>. HIDE DEF c
<1>3. Fits(c, approved, op)
  BY <1>2 DEF Fits
<1>. QED
  BY <1>1, <1>2, <1>3 DEF c

(* An admitted flow begins, or the admission ends it.                      *)
LEMMA Admits ==
  ASSUME NEW ok, NEW f \in AllFlows, NEW r, Inv(core, approved, spent),
         CanGuaranteeMaxEntry(core) => Good(r, ok, spent) /\ Keeps(core, r)
  PROVE  LET a == Admit(core, f, r) IN Good(a, ok, spent) /\ Keeps(core, a)
<1>. DEFINE a == Admit(core, f, r)
            t == TerminateAuditedFlow(core, f)
<1>1. core.auditOk /\ core.active \in AllFlows \cup {None}
  BY DEF Inv, CoreType
<1>2. Base(core, core.active, spent)
  BY BaseOfInv
<1>3. Good(t, ok, spent) /\ Keeps(core, t)
  BY <1>1, <1>2, TerminateGood
<1>4. a = IF ~CanGuaranteeMaxEntry(core) THEN t ELSE r
  BY <1>1 DEF Admit
<1>. HIDE DEF a, t
<1>5. Good(a, ok, spent) /\ Keeps(core, a)
  BY <1>3, <1>4
<1>. QED
  BY <1>5 DEF a

(* A flow begins from an idle machine with nothing in flight.              *)
LEMMA Begins ==
  ASSUME NEW f \in AllFlows, Inv(core, approved, spent)
  PROVE  LET b == BeginFlow(core, f)
         IN  /\ Base(b, f, spent) /\ b.machine[f] = IdleMachine
             /\ DOMAIN b.pending = {} /\ b.log = core.log /\ ~Proving(b)
             /\ f = "Presentation" => b.refs = {}
<1>. DEFINE b == BeginFlow(core, f)
<1>1. core.active \in AllFlows \cup {None}
  BY DEF Inv, CoreType
<1>2. Base(core, core.active, spent)
  BY BaseOfInv
<1>3. /\ Base(b, f, spent) /\ b.machine[f] = IdleMachine /\ b.hash[f] = None
      /\ DOMAIN b.pending = {} /\ b.log = core.log /\ b.seen = core.seen
      /\ ~Proving(b)
      /\ f = "Presentation" => b.refs = {}
      /\ f \in Documented => b.doc[f] = None
  BY <1>1, <1>2, BeginBase
<1>. QED
  BY <1>3

(* A flow that begins and answers its request.                             *)
LEMMA BegunTurn ==
  ASSUME NEW f \in AllFlows, NEW r, Inv(core, approved, spent),
         Start(f, Admit(core, f, r)), Good(r, {}, spent), Keeps(BeginFlow(core, f), r)
  PROVE  Turn /\ LogTurn
<1>. DEFINE b == BeginFlow(core, f)
            a == Admit(core, f, r)
<1>1. b.log = core.log /\ ~Proving(b)
  BY Begins, SMTT(60)
<1>2. Keeps(core, r)
  BY <1>1 DEF Keeps
<1>3. Good(a, {}, spent) /\ Keeps(core, a)
  BY <1>2, Admits
<1>. QED
  BY <1>3, StartTurn

=============================================================================
