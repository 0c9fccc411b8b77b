------------------------- MODULE PresentationProofs -------------------------
(***************************************************************************)
(* Presentation keeps the wallet core in order, remotely, in person and    *)
(* over the Digital Credentials API: the evidence behind every signature   *)
(* and delivery, the consent it rests on, and the status lists it waits    *)
(* for.                                                                    *)
(***************************************************************************)
EXTENDS WalletInvariant

(* Zenon proves a leaf unless the leaf cites SMT.                          *)
USE ZenonT(60)

(* The step of the presentation machine as the core drives it.             *)
Chosen(c, in) == IF in.type = "ConsentGranted" /\ c.session # None
                 THEN Cardinality(c.session.plan) ELSE 0
PresentationStep(c, in) ==
    VpStep(c.machine["Presentation"], in,
            [seen |-> c.seen["Presentation"], selected |-> Chosen(c, in)])

(* No output has no effect;                                                *)
LEMMA PresentationNone ==
  ASSUME NEW c
  PROVE  PresentationEffects(c, << >>) = Result(c, << >>)
BY SMTT(60) DEF PresentationEffects, Translated, Result

(* one output has the effects it translates to;                            *)
LEMMA PresentationOne ==
  ASSUME NEW c, NEW a, NEW d, NEW out, Flat(out), Translate(c, a) = Result(d, out)
  PROVE  PresentationEffects(c, <<a>>) = Result(d, out)
BY SMTT(60) DEF PresentationEffects, Translated, Result, Flat

(* the second of two is translated in the core the first one leaves,       *)
LEMMA TwoOutputs ==
  ASSUME NEW c, NEW a, NEW b
  PROVE  LET t == Translate(c, a)
             u == Translate(t.core, b)
         IN  PresentationEffects(c, <<a, b>>) = Result(u.core, (<< >> \o t.out) \o u.out)
<1>1. /\ ~(1 > Len(<<a, b>>)) /\ ~(2 > Len(<<a, b>>))
      /\ <<a, b>>[1] = a /\ <<a, b>>[2] = b
  BY SMTT(60)
<1>2. /\ Result(c, << >>).core = c /\ Result(c, << >>).out = << >>
      /\ \A x, y : Result(x, y).core = x /\ Result(x, y).out = y
  BY SMTT(60) DEF Result
<1>. DEFINE o == <<a, b>>
            t == Translate(c, a)
            u == Translate(t.core, b)
            r0 == Result(c, << >>)
            t1 == Translate(r0.core, o[1])
            r1 == IF 1 > Len(o) THEN r0 ELSE Result(t1.core, r0.out \o t1.out)
            t2 == Translate(r1.core, o[2])
            r2 == IF 2 > Len(o) THEN r1 ELSE Result(t2.core, r1.out \o t2.out)
<1>3. PresentationEffects(c, o) = r2
  BY DEF PresentationEffects, Translated
<1>4. r1 = Result(t.core, << >> \o t.out)
  BY <1>1, <1>2
<1>. HIDE DEF r1
<1>5. t2 = u
  BY <1>1, <1>2, <1>4
<1>. HIDE DEF t2, u, t
<1>6. r2 = Result(u.core, (<< >> \o t.out) \o u.out)
  BY <1>1, <1>2, <1>4, <1>5
<1>. HIDE DEF r2
<1>. QED
  BY <1>3, <1>6 DEF t, u

(* and their effects are joined in order.                                  *)
LEMMA PresentationTwo ==
  ASSUME NEW c, NEW a, NEW b, NEW d, NEW e, NEW out, NEW more, Flat(out),
         Translate(c, a) = Result(d, out), Translate(d, b) = Result(e, more)
  PROVE  PresentationEffects(c, <<a, b>>) = Result(e, out \o more)
<1>1. /\ Translate(c, a).core = d /\ Translate(c, a).out = out
      /\ Translate(d, b).core = e /\ Translate(d, b).out = more
  BY SMTT(60) DEF Result
<1>2. << >> \o out = out
  BY DEF Flat
<1>. DEFINE t == Translate(c, a)
            u == Translate(t.core, b)
<1>3. PresentationEffects(c, <<a, b>>) = Result(u.core, (<< >> \o t.out) \o u.out)
  BY TwoOutputs
<1>. QED
  BY <1>1, <1>2, <1>3

(* The evidence for a presentation reads no more than this.                *)
SameEvidence(c, d) ==
    /\ d.session = c.session /\ d.clock = c.clock /\ d.trust = c.trust
    /\ d.held = c.held

(* Nor does the gate before a signature, which also reads the status       *)
(* lists.                                                                  *)
LEMMA EvidenceFrame ==
  ASSUME NEW c, NEW d, SameEvidence(c, d)
  PROVE  PresentationEvidence(d) = PresentationEvidence(c)
<1>1. RpTrusted(d) = RpTrusted(c)
  BY DEF SameEvidence, RpTrusted, TrustListValid, TrustList
<1>2. ASSUME NEW x PROVE CredentialIsCurrent(d, x) = CredentialIsCurrent(c, x)
  BY DEF SameEvidence, CredentialIsCurrent, IssuerTrusted, TrustListValid, TrustList
<1>. QED
  BY <1>1, <1>2 DEF SameEvidence, PresentationEvidence

(* The status gate.                                                        *)
LEMMA GateFrame ==
  ASSUME NEW c, NEW d, SameEvidence(c, d), d.status = c.status
  PROVE  PresentationStatusGate(d) = PresentationStatusGate(c)
<1>1. StatusProviderTrusted(d) = StatusProviderTrusted(c)
  BY DEF SameEvidence, StatusProviderTrusted, TrustListValid, TrustList
<1>2. ASSUME NEW u PROVE StatusListFresh(d, u) = StatusListFresh(c, u)
  BY <1>1 DEF SameEvidence, StatusListFresh
<1>3. StatusReferences(d) = StatusReferences(c)
  BY DEF SameEvidence, StatusReferences
<1>4. UrisToFetch(d) = UrisToFetch(c)
  BY <1>2, <1>3 DEF UrisToFetch
<1>. QED
  BY <1>3, <1>4 DEF SameEvidence, PresentationStatusGate

(* The gate before a signature or a delivery.                              *)
LEMMA ReasonFrame ==
  ASSUME NEW c, NEW d, SameEvidence(c, d), d.status = c.status
  PROVE  PresentationSensitiveAbortReason(d) = PresentationSensitiveAbortReason(c)
BY EvidenceFrame, GateFrame DEF PresentationSensitiveAbortReason

(* The gate passes only current evidence under lists that are ready.       *)
LEMMA Reasons ==
  ASSUME NEW c
  PROVE  /\ PresentationSensitiveAbortReason(c) = None <=>
               /\ PresentationEvidence(c) = "current"
               /\ PresentationStatusGate(c) = "Ready"
<1>1. None \notin Surfaced
  BY EvidenceAssumption
<1>2. PresentationEvidence(c) # "current" => PresentationEvidence(c) # None
  BY <1>1 DEF PresentationEvidence, Surfaced
<1>3. ASSUME NEW g PROVE StatusReason(g) # None
  BY <1>1 DEF StatusReason, Surfaced
<1>. QED
  BY <1>2, <1>3 DEF PresentationSensitiveAbortReason

(* The gate before a signature stands for the evidence it demands.         *)
LEMMA Evident ==
  ASSUME NEW c, CoreType(c), PresentationSensitiveAbortReason(c) = None
  PROVE  Covered(c)
<1>1. PresentationEvidence(c) = "current" /\ PresentationStatusGate(c) = "Ready"
  BY Reasons
<1>2. /\ c.session # None /\ RpTrusted(c) /\ c.session.plan # {}
      /\ \A x \in c.session.plan : CredentialIsCurrent(c, x)
  BY <1>1 DEF PresentationEvidence
<1>3. UrisToFetch(c) = {}
  BY <1>1, <1>2 DEF PresentationStatusGate
<1>4. ASSUME NEW x \in c.session.plan, StatusUri[x] # None
      PROVE  /\ TrustList(c).status
             /\ StatusUri[x] \in DOMAIN c.status
             /\ c.clock < c.status[StatusUri[x]].until
             /\ c.status[StatusUri[x]].says[x] = "Valid"
  <2>1. StatusUri[x] \in StatusReferences(c) \ UrisToFetch(c)
    BY <1>3, <1>4 DEF StatusReferences
  <2>2. StatusListFresh(c, StatusUri[x])
    BY <2>1 DEF UrisToFetch
  <2>3. c.status[StatusUri[x]].says[x] \notin {"Invalid", "Unknown"}
    BY <1>1, <1>2, <2>1 DEF PresentationStatusGate
  <2>4. x \in Credentials
    <3>1. c.session \in [plan : SUBSET Credentials]
      BY <1>2 DEF CoreType
    <3>. QED
      BY <3>1
  <2>5. StatusUri[x] \in DOMAIN c.status
    BY <2>2 DEF StatusListFresh
  <2>6. c.status[StatusUri[x]].says[x] \in {"Valid", "Invalid", "Unknown"}
    BY <2>4, <2>5 DEF CoreType
  <2>. QED
    BY <2>2, <2>3, <2>5, <2>6 DEF StatusListFresh, StatusProviderTrusted
<1>5. /\ TrustList(c).rp /\ TrustList(c).issuer /\ c.clock <= TrustList(c).until
      /\ \A x \in c.session.plan : x \in c.held /\ c.clock <= ExpiresAt[x]
  <2>1. PICK y \in c.session.plan : TRUE
    BY <1>2
  <2>. QED
    BY <1>2, <2>1 DEF RpTrusted, TrustListValid, CredentialIsCurrent, IssuerTrusted
<1>. QED
  BY <1>2, <1>4, <1>5 DEF Covered

-----------------------------------------------------------------------------
(* Aborting a presentation leaves no flow under way.                       *)
LEMMA AbortGood ==
  ASSUME NEW c, NEW g \in {"Presentation", None}, NEW gone, NEW ok,
         Base(c, g, gone), NEW why
  PROVE  LET r == AbortPresentation(c, why)
         IN  Good(r, ok, gone) /\ Keeps(c, r)
<1>. DEFINE f == "Presentation"
            b == ResetFlow(c, f)
            m == Aborted(why)
            d == [b EXCEPT !.machine[f] = m, !.active = None]
            out == PresentationErrorEffects(why)
<1>1. f \in AllFlows /\ out \in Seq(Quiet)
  BY ErrorAndCloseQuiet DEF AllFlows, PresentationErrorEffects
<1>2. Base(b, None, gone) /\ b.log = c.log /\ ~Proving(b)
  BY <1>1, ResetBase
<1>3. m.at = "Aborted" /\ IsMachine(m)
  BY SMTT(60) DEF Aborted, Idle, IsMachine, Shown
<1>. HIDE DEF b, m
<1>4. /\ DOMAIN d = CoreFields /\ d.active = None
      /\ \A j \in CoreFields \ {"machine", "active"} : d[j] = b[j]
  BY <1>2 DEF Base, CoreType, CoreFields
<1>5. DOMAIN d.machine = AllFlows /\ d.machine[f] = m
      /\ \A h \in AllFlows \ {f} : d.machine[h] = b.machine[h]
  BY <1>1, <1>2 DEF Base, CoreType, CoreFields
<1>. HIDE DEF d
<1>6. /\ d.pending = b.pending /\ d.hash = b.hash /\ d.session = b.session
      /\ d.doc = b.doc /\ d.secrets = b.secrets /\ d.auditOk = b.auditOk
      /\ d.log = b.log /\ d.clock = b.clock /\ d.status = b.status
      /\ d.held = b.held /\ d.seen = b.seen
  BY <1>4 DEF CoreFields
<1>7. CoreType(d)
  <2>1. ASSUME NEW h \in AllFlows
        PROVE  /\ DOMAIN d.machine[h] = {"at", "req", "left", "why"}
               /\ d.machine[h].req \in Shown
    <3>1. CASE h = f
      BY <1>3, <1>5, <3>1 DEF IsMachine
    <3>2. CASE h # f
      BY <1>2, <1>5, <3>2 DEF Base, CoreType
    <3>. QED
      BY <3>1, <3>2
  <2>2. CoreType(b)
    BY <1>2 DEF Base
  <2>. QED
    BY <1>4, <1>5, <1>6, <2>1, <2>2, SMTT(60) DEF CoreType
<1>8. OthersRest(d, None)
  <2>1. ASSUME NEW h \in AllFlows
        PROVE  d.machine[h].at \in AtRest /\ d.hash[h] = None
    <3>1. b.machine[h].at \in AtRest /\ b.hash[h] = None
      BY <1>2, NoneIsNoFlow DEF Base, OthersRest
    <3>2. CASE h = f
      BY <1>3, <1>5, <1>6, <3>1, <3>2 DEF AtRest
    <3>3. CASE h # f
      BY <1>5, <1>6, <3>1, <3>3
    <3>. QED
      BY <3>2, <3>3
  <2>. QED
    BY <1>2, <1>6, <2>1 DEF Base, OthersRest
<1>9. Base(d, None, gone)
  BY <1>2, <1>4, <1>6, <1>7, <1>8 DEF Base, Kept
<1>10. ~Proving(d)
  <2>1. d.machine["Issuance"] = b.machine["Issuance"]
    BY <1>5 DEF AllFlows
  <2>. QED
    BY <1>2, <2>1 DEF Proving
<1>11. Good(Result(d, out), ok, gone)
  BY <1>1, <1>9, EndGood
<1>12. Keeps(c, Result(d, out))
  <2>1. Result(d, out).core = d
    BY SMTT(60) DEF Result
  <2>. QED
    BY <1>2, <1>6, <1>10, <2>1 DEF Keeps
<1>13. AbortPresentation(c, why) = Result(d, out)
  BY DEF AbortPresentation, b, m, d
<1>. QED
  BY <1>11, <1>12, <1>13

(* Dropping what a presentation waits for.                                 *)
Waiting(c, refs) == [c EXCEPT !.refs = refs]

(* Waiting for other lists changes nothing else.                           *)
LEMMA Waits ==
  ASSUME NEW c, NEW f, NEW gone, Base(c, f, gone), NEW refs
  PROVE  LET d == Waiting(c, refs)
         IN  /\ Base(d, f, gone) /\ d.log = c.log /\ d.refs = refs
             /\ d.machine = c.machine /\ d.hash = c.hash /\ d.seen = c.seen
             /\ d.pending = c.pending /\ d.doc = c.doc /\ d.status = c.status
             /\ SameEvidence(c, d)
<1>. DEFINE d == Waiting(c, refs)
<1>1. DOMAIN d = CoreFields /\ d.refs = refs
      /\ \A j \in CoreFields \ {"refs"} : d[j] = c[j]
  BY DEF Base, CoreType, CoreFields, Waiting
<1>. HIDE DEF d
<1>2. /\ DOMAIN d = CoreFields
      /\ d.active = c.active /\ d.machine = c.machine /\ d.pending = c.pending
      /\ d.hash = c.hash /\ d.session = c.session /\ d.doc = c.doc
      /\ d.secrets = c.secrets /\ d.auditOk = c.auditOk /\ d.log = c.log
      /\ d.clock = c.clock /\ d.status = c.status /\ d.held = c.held
      /\ d.seen = c.seen /\ d.trust = c.trust
  BY <1>1 DEF CoreFields
<1>3. CoreType(d)
  <2>1. CoreType(c)
    BY DEF Base
  <2>. QED
    BY <1>2, <2>1 DEF CoreType
<1>4. Base(d, f, gone)
  BY <1>2, <1>3 DEF Base, OthersRest, Kept
<1>. QED
  BY <1>1, <1>2, <1>4 DEF d, SameEvidence

-----------------------------------------------------------------------------
(* Operations in flight that neither decide, sign nor deliver.             *)
Neutral(c) == \A id \in DOMAIN c.pending :
                  c.pending[id].result \notin {"Decision", "Signature", "Delivery"}

(* Such operations fit every phase.                                        *)
LEMMA NeutralFits ==
  ASSUME NEW c, NEW gone, NEW ok, Base(c, "Presentation", gone), Neutral(c)
  PROVE  \A id \in DOMAIN c.pending : Fits(c, ok, c.pending[id])
<1>1. "Presentation" # None
  BY NoneIsNoFlow DEF AllFlows
<1>. QED
  BY <1>1 DEF Base, Neutral, Fits

(* An aborted presentation promises nothing.                               *)
LEMMA AbortedPhase ==
  ASSUME NEW c, NEW gone, NEW ok, c.active = "Presentation",
         c.machine["Presentation"].at = "Aborted"
  PROVE  Phase(c, ok, gone)
<1>1. PresentationPhase(c, ok, gone)
  BY DEF PresentationPhase
<1>. QED
  BY <1>1 DEF Phase

(* The screen and the selection of a presentation are gone.                *)
Blank(c) == [c EXCEPT !.session = None, !.hash["Presentation"] = None]

(* Nothing else is.                                                        *)
LEMMA Blanks ==
  ASSUME NEW c, NEW gone, Base(c, "Presentation", gone)
  PROVE  LET d == Blank(c)
         IN  /\ Base(d, "Presentation", gone) /\ d.log = c.log
             /\ d.machine = c.machine /\ d.pending = c.pending
<1>. DEFINE f == "Presentation"
            d == Blank(c)
<1>1. f \in AllFlows /\ None \in Shown
  BY DEF AllFlows, Shown
<1>2. /\ DOMAIN d = CoreFields /\ d.session = None
      /\ d.hash = [c.hash EXCEPT ![f] = None]
      /\ \A j \in CoreFields \ {"session", "hash"} : d[j] = c[j]
  BY DEF Base, CoreType, CoreFields, Blank
<1>. HIDE DEF d
<1>3. /\ DOMAIN d = CoreFields /\ d.session = None
      /\ d.active = c.active /\ d.machine = c.machine /\ d.pending = c.pending
      /\ d.doc = c.doc /\ d.secrets = c.secrets /\ d.auditOk = c.auditOk
      /\ d.log = c.log /\ d.clock = c.clock /\ d.status = c.status
      /\ d.held = c.held /\ d.seen = c.seen
  BY <1>2 DEF CoreFields
<1>4. d.hash \in [AllFlows -> Shown] /\ \A g \in AllFlows \ {f} : d.hash[g] = c.hash[g]
  <2>1. c.hash \in [AllFlows -> Shown]
    BY DEF Base, CoreType
  <2>. QED
    BY <1>1, <1>2, <2>1
<1>5. CoreType(d)
  <2>1. CoreType(c)
    BY DEF Base
  <2>. QED
    BY <1>3, <1>4, <2>1, SMTT(60) DEF CoreType
<1>6. Base(d, f, gone)
  BY <1>3, <1>4, <1>5 DEF Base, OthersRest, Kept
<1>. QED
  BY <1>3, <1>6 DEF d

(* A request the machine refuses: the flow stays active until the next one.*)
LEMMA PresentationRefused ==
  ASSUME NEW c, NEW gone, NEW ok, Base(c, "Presentation", gone), Neutral(c),
         c.machine["Presentation"].at # "Aborted", NEW why, NEW in,
         PresentationStep(c, in) = To(Aborted(why), << >>)
  PROVE  Good(Drive(c, in), ok, gone) /\ Keeps(c, Drive(c, in))
<1>. DEFINE f == "Presentation"
            s == PresentationStep(c, in)
            d == Stepped(c, f, s)
            e == Blank(d)
<1>0. s.out = << >> /\ s.to = Aborted(why)
  BY SMTT(60) DEF To
<1>1. s.to.at = "Aborted" /\ s.to.why = why /\ IsMachine(s.to)
  <2>1. LET m == Aborted(why) IN m.at = "Aborted" /\ m.why = why /\ IsMachine(m)
    BY SMTT(60) DEF Aborted, Idle, IsMachine, Shown
  <2>. QED
    BY <1>0, <2>1
<1>2. f \in AllFlows /\ f # "Issuance"
  BY DEF AllFlows
<1>. HIDE DEF s
<1>3. /\ Base(d, f, gone) /\ Alike(c, d) /\ d.log = c.log /\ d.machine[f] = s.to
      /\ f # "Issuance" => (Proving(d) <=> Proving(c))
  BY <1>1, <1>2, Moves, SMTT(60)
<1>. HIDE DEF d
<1>4. PresentationEffects(d, << >>) = Result(d, << >>)
  BY PresentationNone
<1>5. Neutral(d)
  BY <1>3 DEF Neutral, Alike
<1>6. CASE why \notin Surfaced
  <2>1. Drive(c, in) = Result(d, << >>)
    BY <1>0, <1>1, <1>4, <1>6 DEF Drive, PresentationStep, Chosen, s, d, Stepped
  <2>2. Phase(d, ok, gone)
    BY <1>1, <1>3, AbortedPhase DEF Base
  <2>3. \A id \in DOMAIN d.pending : Fits(d, ok, d.pending[id])
    BY <1>3, <1>5, NeutralFits
  <2>4. << >> \in Seq(Allowed(d, ok, gone))
    BY Silent
  <2>5. Good(Result(d, << >>), ok, gone) /\ Keeps(c, Result(d, << >>))
    BY <1>2, <1>3, <2>2, <2>3, <2>4, Advances
  <2>. QED
    BY <2>1, <2>5
<1>7. CASE why \in Surfaced
  <2>1. Drive(c, in) = Result(e, ErrorAndClose)
    <3>1. /\ Result(d, << >>).core = d /\ Result(d, << >>).out = << >>
      BY SMTT(60) DEF Result
    <3>2. << >> \o ErrorAndClose = ErrorAndClose
      BY ErrorAndCloseQuiet, FlatSeq DEF Flat
    <3>. QED
      BY <1>0, <1>1, <1>4, <1>7, <3>1, <3>2
      DEF Drive, PresentationStep, Chosen, s, d, e, Stepped, Blank
  <2>2. /\ Base(e, f, gone) /\ e.log = d.log
        /\ e.machine = d.machine /\ e.pending = d.pending
    BY <1>3, Blanks
  <2>. HIDE DEF e
  <2>3. Phase(e, ok, gone)
    BY <1>1, <1>3, <2>2, AbortedPhase DEF Base
  <2>4. Neutral(e)
    BY <1>5, <2>2 DEF Neutral
  <2>5. \A id \in DOMAIN e.pending : Fits(e, ok, e.pending[id])
    BY <2>2, <2>4, NeutralFits
  <2>6. ErrorAndClose \in Seq(Allowed(e, ok, gone))
    <3>1. Quiet \subseteq Allowed(e, ok, gone)
      BY QuietAllowed
    <3>. QED
      BY <3>1, ErrorAndCloseQuiet, SMTT(60)
  <2>7. e.log = c.log /\ (Proving(e) => Proving(c))
    BY <1>2, <1>3, <2>2 DEF Proving
  <2>8. Good(Result(e, ErrorAndClose), ok, gone) /\ Keeps(c, Result(e, ErrorAndClose))
    BY <2>2, <2>3, <2>5, <2>6, <2>7, Advances
  <2>. QED
    BY <2>1, <2>8
<1>. QED
  BY <1>6, <1>7

(* A remote presentation begins.                                           *)
LEMMA PresentationStart ==
  ASSUME NEW c, NEW gone, NEW ok, Base(c, "Presentation", gone),
         c.machine["Presentation"] = IdleMachine, DOMAIN c.pending = {}, c.refs = {},
         NEW parsed \in BOOLEAN, NEW req \in Requests
  PROVE  LET r == Drive(c, [type |-> "AuthorizationRequest",
                            parsed |-> parsed, req |-> req])
         IN  Good(r, ok, gone) /\ Keeps(c, r)
<1>. DEFINE f == "Presentation"
            in == [type |-> "AuthorizationRequest", parsed |-> parsed, req |-> req]
            s == PresentationStep(c, in)
            m == [c.machine[f] EXCEPT !.at = "ResolvingTrust", !.req = req]
            d == Stepped(c, f, s)
            out == <<Eff("ResolveRpTrust", f, req)>>
<1>1. /\ c.machine[f].at = "Idle" /\ in.type = "AuthorizationRequest"
      /\ in.parsed = parsed /\ in.req = req
  BY SMTT(60) DEF IdleMachine
<1>2. f \in AllFlows /\ f # "Issuance" /\ req \in Shown /\ req \in Abouts
  BY DEF AllFlows, Shown, Abouts
<1>. HIDE DEF in
<1>3. CASE ~parsed
  <2>1. s = To(Aborted("MalformedRequest"), << >>)
    BY <1>1, <1>3 DEF PresentationStep, VpStep
  <2>2. Neutral(c)
    BY DEF Neutral
  <2>. QED
    BY <1>1, <2>1, <2>2, PresentationRefused DEF in
<1>4. CASE parsed
  <2>1. s = To(m, <<"ResolveRpTrust">>)
    BY <1>1, <1>4 DEF PresentationStep, VpStep
  <2>2. /\ s.to.at = "ResolvingTrust" /\ s.to.req = req /\ IsMachine(s.to)
        /\ s.out = <<"ResolveRpTrust">>
    <3>1. m.at = "ResolvingTrust" /\ m.req = req /\ IsMachine(m)
      BY <1>2, SMTT(60) DEF IdleMachine, IsMachine
    <3>2. s.to = m /\ s.out = <<"ResolveRpTrust">>
      BY <2>1, SMTT(60) DEF To
    <3>. HIDE DEF s, m
    <3>. QED
      BY <3>1, <3>2
  <2>. HIDE DEF s
  <2>3. /\ Base(d, f, gone) /\ Alike(c, d) /\ d.log = c.log /\ d.machine[f] = s.to
        /\ f # "Issuance" => (Proving(d) <=> Proving(c))
    BY <1>2, <2>2, Moves, SMTT(60)
  <2>. HIDE DEF d
  <2>4. Translate(d, "ResolveRpTrust") = Result(d, out)
    BY <2>2, <2>3 DEF Translate
  <2>5. d.active = f /\ d.refs = {} /\ DOMAIN d.pending = {}
    BY <2>3 DEF Base, Alike
  <2>6. Phase(d, ok, gone)
    <3>1. PresentationPhase(d, ok, gone)
      BY <2>2, <2>3, <2>5 DEF PresentationPhase
    <3>. QED
      BY <2>5, <3>1 DEF Phase
  <2>7. out \in Seq(Allowed(d, ok, gone))
    <3>1. Fits(d, ok, [flow |-> f, result |-> ResultOf["ResolveRpTrust"], about |-> req])
      <4>1. ResultOf["ResolveRpTrust"] = "RpCertChain"
        BY DEF ResultOf
      <4>2. f # None
        BY NoneIsNoFlow, <1>2
      <4>. QED
        BY <2>5, <4>1, <4>2 DEF Fits
    <3>2. "ResolveRpTrust" \in DOMAIN ResultOf
      BY DEF ResultOf
    <3>. QED
      BY <1>2, <2>5, <3>1, <3>2, EffAllowed DEF Consequential
  <2>8. Good(Result(d, out), ok, gone) /\ Keeps(c, Result(d, out))
    BY <1>2, <2>3, <2>5, <2>6, <2>7, Advances
  <2>. HIDE DEF out
  <2>9. Flat(out)
    BY <2>8, GoodFlat
  <2>10. PresentationEffects(d, <<"ResolveRpTrust">>) = Result(d, out)
    BY <2>4, <2>9, PresentationOne, SMTT(60)
  <2>11. Drive(c, in) = Result(d, out)
    BY <1>1, <2>2, <2>10 DEF Drive, PresentationStep, Chosen, s, d, Stepped
  <2>. QED
    BY <2>8, <2>11 DEF in
<1>. QED
  BY <1>3, <1>4

-----------------------------------------------------------------------------
(* The selection is frozen.                                                *)
Frozen(c, plan) == [c EXCEPT !.session = [plan |-> plan]]

(* Freezing a selection changes nothing else.                              *)
LEMMA Freezes ==
  ASSUME NEW c, NEW f, NEW gone, Base(c, f, gone), NEW plan \in SUBSET Credentials
  PROVE  LET d == Frozen(c, plan)
         IN  /\ Base(d, f, gone) /\ d.log = c.log /\ d.refs = c.refs
             /\ d.machine = c.machine /\ d.hash = c.hash /\ d.seen = c.seen
             /\ d.pending = c.pending /\ d.doc = c.doc
             /\ d.clock = c.clock /\ d.trust = c.trust /\ d.held = c.held
             /\ d.session = [plan |-> plan]
             /\ d.session # None
<1>. DEFINE d == Frozen(c, plan)
<1>1. DOMAIN d = CoreFields /\ d.session = [plan |-> plan]
      /\ \A j \in CoreFields \ {"session"} : d[j] = c[j]
  BY DEF Base, CoreType, CoreFields, Frozen
<1>2. [plan |-> plan] \in [plan : SUBSET Credentials]
  OBVIOUS
<1>3. [plan |-> plan] # None
  BY <1>2, EvidenceAssumption
<1>. HIDE DEF d
<1>4. /\ DOMAIN d = CoreFields
      /\ d.active = c.active /\ d.machine = c.machine /\ d.pending = c.pending
      /\ d.hash = c.hash /\ d.doc = c.doc /\ d.refs = c.refs
      /\ d.secrets = c.secrets /\ d.auditOk = c.auditOk /\ d.log = c.log
      /\ d.clock = c.clock /\ d.status = c.status /\ d.held = c.held
      /\ d.seen = c.seen /\ d.trust = c.trust
  BY <1>1 DEF CoreFields
<1>5. d.session \in {None} \cup [plan : SUBSET Credentials]
  BY <1>1, <1>2
<1>6. CoreType(d)
  <2>1. CoreType(c)
    BY DEF Base
  <2>. QED
    BY <1>4, <1>5, <2>1 DEF CoreType
<1>7. Base(d, f, gone)
  BY <1>4, <1>6 DEF Base, OthersRest, Kept
<1>. QED
  BY <1>1, <1>3, <1>4, <1>7 DEF d

(* A selection of current credentials for a trusted party is evidence.     *)
LEMMA EvidenceHolds ==
  ASSUME NEW c, NEW plan \in SUBSET Credentials, c.session = [plan |-> plan],
         c.session # None, RpTrusted(c), plan # {}, c.clock \in Nat,
         \A x \in plan : CredentialIsCurrent(c, x)
  PROVE  PresentationEvidence(c) = "current"
<1>1. c.session.plan = plan
  BY SMTT(60)
<1>2. ASSUME NEW x \in plan PROVE ~(c.clock > ExpiresAt[x])
  <2>1. ExpiresAt[x] \in Nat /\ c.clock <= ExpiresAt[x]
    BY EvidenceAssumption DEF CredentialIsCurrent
  <2>. QED
    BY <2>1, SMTT(60)
<1>. QED
  BY <1>1, <1>2 DEF PresentationEvidence

(* While the relying party's trust is resolved nothing can be decided,     *)
(* signed or delivered.                                                    *)
LEMMA NeutralWhileResolving ==
  ASSUME NEW c, NEW ok, NEW gone, Inv(c, ok, gone), c.active = "Presentation",
         c.machine["Presentation"].at = "ResolvingTrust"
  PROVE  Neutral(c)
BY DEF Inv, Fits, Neutral

(* An answer the presentation does not expect changes nothing.             *)
LEMMA PresentationStays ==
  ASSUME NEW c, NEW ok, NEW gone, Inv(c, ok, gone), c.active = "Presentation",
         NEW in, PresentationStep(c, in) = To(c.machine["Presentation"], << >>)
  PROVE  LET f == "Presentation"
             s == PresentationStep(c, in)
             d == Stepped(c, f, s)
         IN  /\ Inv(d, ok, gone) /\ Alike(c, d) /\ d.log = c.log /\ d.hash = c.hash
             /\ d.seen = c.seen /\ d.machine[f] = c.machine[f]
             /\ Proving(d) => Proving(c)
             /\ s.to = c.machine[f] /\ s.out = << >>
             /\ c.machine[f].at # "RequestValidated" => Drive(c, in) = Result(d, << >>)
<1>. DEFINE f == "Presentation"
            s == PresentationStep(c, in)
            m == c.machine[f]
            d == Stepped(c, f, s)
<1>1. s.to = m /\ s.out = << >>
  BY SMTT(60) DEF To
<1>2. f \in AllFlows /\ f # "Issuance" /\ Base(c, f, gone) /\ PresentationPhase(c, ok, gone)
  BY BaseOfInv DEF AllFlows, Inv, Phase
<1>3. m.at # "Done" /\ IsMachine(m)
  BY <1>2, MachineOfInv DEF PresentationPhase
<1>. HIDE DEF s, m
<1>4. /\ Base(d, f, gone) /\ Alike(c, d) /\ d.hash = c.hash /\ d.seen = c.seen
      /\ d.log = c.log /\ d.machine[f] = m
      /\ f # "Issuance" => (Proving(d) <=> Proving(c))
  BY <1>1, <1>2, <1>3, Moves, SMTT(60)
<1>. HIDE DEF d
<1>5. SeenMore(c, d)
  BY <1>4 DEF SeenMore
<1>6. Inv(d, ok, gone)
  BY <1>2, <1>4, <1>5, FrameInv DEF m
<1>7. PresentationEffects(d, << >>) = Result(d, << >>)
  BY PresentationNone
<1>8. ASSUME m.at # "RequestValidated" PROVE Drive(c, in) = Result(d, << >>)
  BY <1>1, <1>3, <1>7, <1>8 DEF Drive, PresentationStep, Chosen, s, d, m, Stepped
<1>. QED
  BY <1>1, <1>2, <1>4, <1>6, <1>8 DEF s, d, m

(* Nor is anything returned for it.                                        *)
LEMMA PresentationRests ==
  ASSUME NEW c, NEW ok, NEW gone, Inv(c, ok, gone), c.active = "Presentation",
         NEW in, PresentationStep(c, in) = To(c.machine["Presentation"], << >>),
         c.machine["Presentation"].at # "RequestValidated"
  PROVE  Good(Drive(c, in), ok, gone) /\ Keeps(c, Drive(c, in))
<1>. DEFINE d == Stepped(c, "Presentation", PresentationStep(c, in))
<1>1. /\ Inv(d, ok, gone) /\ d.log = c.log
      /\ Proving(d) => Proving(c)
      /\ Drive(c, in) = Result(d, << >>)
  BY PresentationStays, SMTT(60)
<1>. HIDE DEF d
<1>2. << >> \in Seq(Allowed(d, ok, gone))
  BY Silent
<1>3. Good(Result(d, << >>), ok, gone) /\ Keeps(c, Result(d, << >>))
  BY <1>1, <1>2, Returns
<1>. QED
  BY <1>1, <1>3

(* Two sequences joined are one.                                           *)
LEMMA Both ==
  ASSUME NEW S, NEW a \in Seq(S), NEW b \in Seq(S)
  PROVE  a \o b \in Seq(S)
BY SMTT(60)

(* The nonce is persisted and the consent screen raised.                   *)
LEMMA ConsentAsked ==
  ASSUME NEW c, NEW ok, NEW gone, Base(c, "Presentation", gone), Neutral(c),
         c.refs = {}, c.session # None, PresentationEvidence(c) = "current",
         c.machine["Presentation"].at = "RequestValidated",
         LogAccepts(c, c.machine["Presentation"].req),
         NonceOf[c.machine["Presentation"].req] \notin c.seen["Presentation"]
  PROVE  LET r == PresentationEffects(c, <<"PersistNonce", "RenderConsent">>)
         IN  Good(r, ok, gone) /\ Keeps(c, r)
<1>. DEFINE f == "Presentation"
            req == c.machine[f].req
            u == Used(c, f, NonceOf[req])
            h == Asking(u, f, req)
            one == <<Eff("PersistNonce", f, req)>>
            two == <<Eff("Consent", f, req)>>
<1>1. /\ f \in AllFlows /\ f \in Replayed /\ f # None /\ f # "WalletTransfer"
      /\ req \in Shown /\ req \in Abouts
  BY NoneIsNoFlow DEF AllFlows, Replayed, Base, CoreType, Abouts
<1>2. /\ Base(u, f, gone) /\ Alike(c, u) /\ u.machine = c.machine
      /\ u.hash = c.hash /\ u.log = c.log /\ NonceOf[req] \in u.seen[f]
  BY <1>1, Uses, SMTT(60)
<1>3. Translate(c, "PersistNonce") = Result(u, one)
  BY DEF Translate, Used
<1>. HIDE DEF u
<1>4. u.machine[f].req = req
  BY <1>2
<1>5. PresentationEvidence(u) = "current"
  BY <1>2, EvidenceFrame DEF Alike, SameEvidence
<1>6. Translate(u, "RenderConsent") = Result(h, two)
  BY <1>4, <1>5 DEF Translate, Asking
<1>7. /\ Base(h, f, gone) /\ Alike(u, h) /\ h.machine = u.machine
      /\ h.seen = u.seen /\ h.log = u.log /\ h.hash[f] = req
  BY <1>1, <1>2, Raises, SMTT(60)
<1>8. \A id \in DOMAIN u.pending : Fits(h, ok, u.pending[id])
  <2>1. Neutral(h) /\ h.pending = u.pending
    BY <1>2, <1>7 DEF Neutral, Alike
  <2>2. \A id \in DOMAIN h.pending : Fits(h, ok, h.pending[id])
    BY <1>7, <2>1, NeutralFits
  <2>. QED
    BY <2>1, <2>2
<1>9. Phase(h, ok, gone)
  <2>. HIDE DEF h
  <2>1. h.active = f /\ h.machine = c.machine /\ h.log = c.log /\ h.refs = {}
        /\ h.session # None /\ NonceOf[req] \in h.seen[f]
    BY <1>2, <1>7 DEF Base, Alike
  <2>2. Unspent(h, f, gone)
    BY <1>1, <2>1 DEF Unspent, Base, Kept
  <2>3. LogAccepts(h, req)
    BY <2>1 DEF LogAccepts
  <2>4. PresentationPhase(h, ok, gone)
    BY <1>7, <2>1, <2>2, <2>3 DEF PresentationPhase, OnScreen
  <2>. QED
    BY <2>1, <2>4 DEF Phase
<1>10. u.machine[f].at = "RequestValidated"
  BY <1>2
<1>11. Good(Result(h, two), ok, gone) /\ Keeps(u, Result(h, two))
  BY <1>1, <1>2, <1>8, <1>9, <1>10, AsksOver
<1>. HIDE DEF h
<1>12. one \in Seq(Allowed(h, ok, gone))
  <2>1. h.active = f
    BY <1>7 DEF Base
  <2>2. Fits(h, ok, [flow |-> f, result |-> ResultOf["PersistNonce"], about |-> req])
    <3>1. ResultOf["PersistNonce"] = "Succeeded"
      BY DEF ResultOf
    <3>. QED
      BY <1>1, <2>1, <3>1 DEF Fits
  <2>3. "PersistNonce" \in DOMAIN ResultOf
    BY DEF ResultOf
  <2>. QED
    BY <1>1, <2>1, <2>2, <2>3, EffAllowed DEF Consequential
<1>. HIDE DEF one, two
<1>13. Inv(h, ok, gone) /\ two \in Seq(Allowed(h, ok, gone))
  <2>1. Result(h, two).core = h /\ Result(h, two).out = two
    BY SMTT(60) DEF Result
  <2>. QED
    BY <1>11, <2>1 DEF Good
<1>14. one \o two \in Seq(Allowed(h, ok, gone))
  BY <1>12, <1>13, Both
<1>15. h.log = c.log /\ (Proving(h) => Proving(c))
  BY <1>2, <1>7 DEF Proving
<1>16. Good(Result(h, one \o two), ok, gone) /\ Keeps(c, Result(h, one \o two))
  BY <1>13, <1>14, <1>15, Returns
<1>17. Flat(one)
  BY <1>12, FlatSeq
<1>18. PresentationEffects(c, <<"PersistNonce", "RenderConsent">>) = Result(h, one \o two)
  BY <1>3, <1>6, <1>17, PresentationTwo, SMTT(60)
<1>. QED
  BY <1>16, <1>18

(* A selection frozen once more while its consent is asked for.            *)
LEMMA FrozenAgain ==
  ASSUME NEW c, NEW ok, NEW gone, Inv(c, ok, gone), c.active = "Presentation",
         NEW plan \in SUBSET Credentials
  PROVE  Inv(Frozen(c, plan), ok, gone)
<1>. DEFINE f == "Presentation"
            d == Frozen(c, plan)
<1>1. Base(c, f, gone) /\ PresentationPhase(c, ok, gone)
  BY BaseOfInv DEF Inv, Phase
<1>2. /\ Base(d, f, gone) /\ d.log = c.log /\ d.refs = c.refs
      /\ d.machine = c.machine /\ d.hash = c.hash /\ d.seen = c.seen
      /\ d.pending = c.pending /\ d.doc = c.doc
      /\ d.clock = c.clock /\ d.trust = c.trust /\ d.held = c.held
      /\ d.session = [plan |-> plan]
      /\ d.session # None
  BY <1>1, Freezes
<1>. HIDE DEF d
<1>3. d.active = f
  BY <1>2 DEF Base
<1>4. ASSUME NEW op, Fits(c, ok, op) PROVE Fits(d, ok, op)
  BY <1>2, <1>3, <1>4 DEF Fits
<1>5. \A id \in DOMAIN d.pending : Fits(d, ok, d.pending[id])
  BY <1>2, <1>4 DEF Inv
<1>6. PresentationPhase(d, ok, gone)
  BY <1>1, <1>2 DEF PresentationPhase, OnScreen, LogAccepts, Approved, Unspent
<1>7. Phase(d, ok, gone)
  BY <1>3, <1>6 DEF Phase
<1>8. Inv(d, ok, gone)
  BY <1>2, <1>5, <1>7, InvOfBase
<1>. QED
  BY <1>8 DEF d

(* A selection that cannot be frozen ends the presentation.                *)
LEMMA FreezeRefused ==
  ASSUME NEW c, NEW ok, NEW gone, Base(c, "Presentation", gone),
         NEW plan \in SUBSET Credentials, NEW outputs,
         ~RpTrusted(c) \/ plan = {} \/ ~CheckAuditEntry(c, c.machine["Presentation"].req)
  PROVE  LET r == FreezeSelection(c, plan, outputs)
         IN  Good(r, ok, gone) /\ Keeps(c, r)
<1>. DEFINE f == "Presentation"
            d == Frozen(c, plan)
            r1 == AbortPresentation(d, "PresentationTrustInvalid")
            r2 == AbortPresentation(d, "NoCredential")
            r3 == TerminateAuditedFlow(d, f)
<1>1. /\ Base(d, f, gone) /\ d.log = c.log /\ d.refs = c.refs
      /\ d.machine = c.machine /\ d.hash = c.hash /\ d.seen = c.seen
      /\ d.pending = c.pending /\ d.doc = c.doc
      /\ d.clock = c.clock /\ d.trust = c.trust /\ d.held = c.held
      /\ d.session = [plan |-> plan]
      /\ d.session # None
  BY Freezes
<1>2. FreezeSelection(c, plan, outputs) \in {r1, r2, r3}
  BY DEF FreezeSelection, Frozen
<1>. HIDE DEF d
<1>3. f \in AllFlows
  BY DEF AllFlows
<1>4. Good(r1, ok, gone) /\ Keeps(d, r1)
  BY <1>1, AbortGood
<1>5. Good(r2, ok, gone) /\ Keeps(d, r2)
  BY <1>1, AbortGood
<1>6. Good(r3, ok, gone) /\ Keeps(d, r3)
  BY <1>1, <1>3, TerminateGood
<1>. HIDE DEF r1, r2, r3
<1>. QED
  BY <1>1, <1>2, <1>4, <1>5, <1>6 DEF Keeps, Proving

(* The relying party's certificate chain is resolved: the request is       *)
(* refused, or its consent screen is raised.                               *)
LEMMA ChainResolved ==
  ASSUME NEW c, NEW ok, NEW gone, Inv(c, ok, gone), c.active = "Presentation",
         NEW verdict, NEW plan \in SUBSET Credentials,
         \A x \in plan : CredentialIsCurrent(c, x)
  PROVE  LET r == RpCertChainResolved(c, verdict, plan)
         IN  Good(r, ok, gone) /\ Keeps(c, r)
<1>. DEFINE f == "Presentation"
            said == IF RpTrusted(c) THEN verdict ELSE "RelyingPartyNotRegistered"
            in == [type |-> "RpTrustResolved", plan |-> plan, verdict |-> said]
            s == PresentationStep(c, in)
            d == Stepped(c, f, s)
            x == Frozen(d, plan)
            m == c.machine[f]
            failure == FirstFailure(said, NonceOf[m.req], c.seen[f])
<1>1. in.type = "RpTrustResolved" /\ in.plan = plan /\ in.verdict = said
  OBVIOUS
<1>2. /\ f \in AllFlows /\ f # "Issuance" /\ Base(c, f, gone)
      /\ PresentationPhase(c, ok, gone)
  BY BaseOfInv DEF AllFlows, Inv, Phase
<1>3. IsMachine(m)
  BY <1>2, MachineOfInv
<1>4. RpCertChainResolved(c, verdict, plan) = Drive(c, in)
  BY DEF RpCertChainResolved
<1>. HIDE DEF in
<1>5. CASE m.at = "ResolvingTrust" /\ failure # "pass"
  <2>1. s = To(Aborted(failure), << >>)
    BY <1>1, <1>5 DEF PresentationStep, VpStep
  <2>2. Neutral(c)
    BY <1>5, NeutralWhileResolving
  <2>3. m.at # "Aborted"
    BY <1>5
  <2>. QED
    BY <1>2, <1>4, <2>1, <2>2, <2>3, PresentationRefused
<1>6. CASE m.at = "ResolvingTrust" /\ failure = "pass"
  <2>. DEFINE n == At(m, "RequestValidated")
              o == <<"PersistNonce", "RenderConsent">>
  <2>1. s = To(n, o)
    BY <1>1, <1>6 DEF PresentationStep, VpStep, At
  <2>2. n.at = "RequestValidated" /\ n.req = m.req /\ IsMachine(n)
    BY <1>3, PhaseOnly, SMTT(60)
  <2>3. NonceOf[m.req] \notin c.seen[f]
    BY <1>6 DEF FirstFailure, GuardsBeforeNonce
  <2>4. RpTrusted(c)
    BY <1>6 DEF FirstFailure, GuardsBeforeNonce
  <2>5. Neutral(c) /\ c.refs = {}
    BY <1>2, <1>6, NeutralWhileResolving DEF PresentationPhase
  <2>. HIDE DEF m, n, said
  <2>6. s.to = n /\ s.out = o
    <3>. HIDE DEF s, o
    <3>. QED
      BY <2>1, SMTT(60) DEF To
  <2>. HIDE DEF s
  <2>7. /\ Base(d, f, gone) /\ Alike(c, d) /\ d.hash = c.hash /\ d.seen = c.seen
        /\ d.log = c.log /\ d.machine[f] = s.to
        /\ f # "Issuance" => (Proving(d) <=> Proving(c))
    BY <1>2, <2>2, <2>6, Moves, SMTT(60)
  <2>8. Drive(c, in) = FreezeSelection(d, plan, o)
    BY <1>1, <2>2, <2>6 DEF Drive, PresentationStep, Chosen, s, Stepped
  <2>. HIDE DEF d
  <2>9. CASE ~RpTrusted(d) \/ plan = {} \/ ~CheckAuditEntry(d, d.machine[f].req)
    <3>. DEFINE r == FreezeSelection(d, plan, o)
    <3>1. Good(r, ok, gone) /\ Keeps(d, r)
      BY <2>7, <2>9, FreezeRefused
    <3>. HIDE DEF r
    <3>. QED
      BY <1>2, <1>4, <2>7, <2>8, <3>1 DEF Keeps, r
  <2>10. CASE RpTrusted(d) /\ plan # {} /\ CheckAuditEntry(d, d.machine[f].req)
    <3>. DEFINE r == PresentationEffects(x, o)
    <3>1. FreezeSelection(d, plan, o) = r
      BY <2>10 DEF FreezeSelection, Frozen
    <3>2. /\ Base(x, f, gone) /\ x.log = d.log /\ x.refs = d.refs
          /\ x.machine = d.machine /\ x.hash = d.hash /\ x.seen = d.seen
          /\ x.pending = d.pending /\ x.doc = d.doc
          /\ x.clock = d.clock /\ x.trust = d.trust /\ x.held = d.held
          /\ x.session = [plan |-> plan]
          /\ x.session # None
      BY <2>7, Freezes
    <3>. HIDE DEF x
    <3>3. PresentationEvidence(x) = "current"
      <4>1. /\ x.clock = c.clock /\ x.trust = c.trust /\ x.held = c.held
        BY <2>7, <3>2 DEF Alike
      <4>2. RpTrusted(x)
        BY <2>4, <4>1 DEF RpTrusted, TrustListValid, TrustList
      <4>3. \A y \in plan : CredentialIsCurrent(x, y)
        BY <4>1 DEF CredentialIsCurrent, IssuerTrusted, TrustListValid, TrustList
      <4>4. x.clock \in Nat
        BY <3>2 DEF Base, CoreType
      <4>. QED
        BY <2>10, <3>2, <4>2, <4>3, <4>4, EvidenceHolds
    <3>4. Neutral(x) /\ x.refs = {}
      BY <2>5, <2>7, <3>2 DEF Neutral, Alike
    <3>5. LogAccepts(x, x.machine[f].req)
      BY <2>10, <3>2 DEF CheckAuditEntry, LogAccepts
    <3>6. x.machine[f].at = "RequestValidated" /\ NonceOf[x.machine[f].req] \notin x.seen[f]
      BY <2>2, <2>3, <2>6, <2>7, <3>2
    <3>7. Good(r, ok, gone) /\ Keeps(x, r)
      BY <3>2, <3>3, <3>4, <3>5, <3>6, ConsentAsked
    <3>. HIDE DEF r
    <3>. QED
      BY <1>2, <1>4, <2>7, <2>8, <3>1, <3>2, <3>7 DEF Keeps, Proving, r
  <2>. QED
    BY <2>9, <2>10
<1>7. CASE m.at # "ResolvingTrust"
  <2>1. s = To(m, << >>)
    BY <1>1, <1>7 DEF PresentationStep, VpStep
  <2>2. CASE m.at # "RequestValidated"
    BY <1>4, <2>1, <2>2, PresentationRests
  <2>3. CASE m.at = "RequestValidated"
    <3>1. /\ Inv(d, ok, gone) /\ Alike(c, d) /\ d.log = c.log
          /\ Proving(d) => Proving(c)
          /\ s.to = m /\ s.out = << >>
      BY <2>1, PresentationStays, SMTT(60)
    <3>. DEFINE r == FreezeSelection(d, plan, << >>)
    <3>2. Drive(c, in) = r
      <4>. HIDE DEF r, s, m
      <4>. QED
        BY <1>1, <2>3, <3>1 DEF Drive, PresentationStep, Chosen, s, d, Stepped, m, r
    <3>. HIDE DEF d
    <3>3. d.active = f /\ Base(d, f, gone)
      BY <3>1, BaseOfInv DEF Alike
    <3>4. CASE ~RpTrusted(d) \/ plan = {} \/ ~CheckAuditEntry(d, d.machine[f].req)
      <4>1. Good(r, ok, gone) /\ Keeps(d, r)
        BY <3>3, <3>4, FreezeRefused
      <4>. HIDE DEF r
      <4>. QED
        BY <1>4, <3>1, <3>2, <4>1 DEF Keeps
    <3>5. CASE RpTrusted(d) /\ plan # {} /\ CheckAuditEntry(d, d.machine[f].req)
      <4>1. PresentationEffects(x, << >>) = Result(x, << >>)
        BY PresentationNone
      <4>2. r = Result(x, << >>)
        BY <3>5, <4>1 DEF FreezeSelection, Frozen
      <4>3. /\ Base(x, f, gone) /\ x.log = d.log /\ x.refs = d.refs
            /\ x.machine = d.machine /\ x.hash = d.hash /\ x.seen = d.seen
            /\ x.pending = d.pending /\ x.doc = d.doc
            /\ x.clock = d.clock /\ x.trust = d.trust /\ x.held = d.held
            /\ x.session = [plan |-> plan]
            /\ x.session # None
        BY <3>3, Freezes
      <4>4. Inv(x, ok, gone)
        BY <3>1, <3>3, FrozenAgain
      <4>5. x.log = c.log /\ (Proving(x) => Proving(c))
        BY <3>1, <4>3 DEF Proving
      <4>. HIDE DEF x
      <4>6. << >> \in Seq(Allowed(x, ok, gone))
        BY Silent
      <4>7. Good(Result(x, << >>), ok, gone) /\ Keeps(c, Result(x, << >>))
        BY <4>4, <4>5, <4>6, Returns
      <4>. QED
        BY <1>4, <3>2, <4>2, <4>7
    <3>. QED
      BY <3>4, <3>5
  <2>. QED
    BY <2>2, <2>3
<1>. QED
  BY <1>5, <1>6, <1>7

-----------------------------------------------------------------------------
(* Plans can be counted, and the lists they refer to fetched in turn.      *)
PlansCount == \A plan \in SUBSET Credentials : plan # {} => Cardinality(plan) # 0
ListsCount == \A uris \in SUBSET {StatusUri[x] : x \in Credentials} :
                  /\ Cardinality(uris) \in Nat
                  /\ \E s \in Bijection(1 .. Cardinality(uris), uris) : TRUE

(* Status lists may be fetched at any time.                                *)
LEMMA FetchAllowed ==
  ASSUME NEW d, NEW ok, NEW gone, d.active = "Presentation", ListsCount,
         NEW uris \in SUBSET {StatusUri[x] : x \in Credentials}
  PROVE  FetchEffects(uris) \in Seq(Allowed(d, ok, gone))
<1>. DEFINE f == "Presentation"
            n == Cardinality(uris)
            order == CHOOSE s \in Bijection(1 .. n, uris) : TRUE
            eff(u) == Eff("FetchStatusList", f, u)
<1>1. n \in Nat /\ \E s \in Bijection(1 .. n, uris) : TRUE
  BY DEF ListsCount
<1>2. order \in Bijection(1 .. n, uris)
  BY <1>1
<1>. HIDE DEF n, order
<1>3. \A i \in 1 .. n : order[i] \in uris
  BY <1>2 DEF Bijection, Injection, IsInjective
<1>4. ASSUME NEW u \in uris PROVE eff(u) \in Allowed(d, ok, gone)
  <2>1. f \in AllFlows /\ f # None /\ u \in Abouts
    BY NoneIsNoFlow DEF AllFlows, Abouts
  <2>2. Fits(d, ok, [flow |-> f, result |-> ResultOf["FetchStatusList"], about |-> u])
    <3>1. ResultOf["FetchStatusList"] = "StatusList"
      BY DEF ResultOf
    <3>. QED
      BY <2>1, <3>1 DEF Fits
  <2>3. "FetchStatusList" \in DOMAIN ResultOf
    BY DEF ResultOf
  <2>4. <<eff(u)>> \in Seq(Allowed(d, ok, gone))
    BY <2>1, <2>2, <2>3, EffAllowed DEF Consequential
  <2>. HIDE DEF eff
  <2>. QED
    BY <2>4, SMTT(60)
<1>. HIDE DEF eff
<1>5. FetchEffects(uris) = [i \in 1 .. n |-> eff(order[i])]
  BY DEF FetchEffects, n, order, eff
<1>6. \A i \in 1 .. n : eff(order[i]) \in Allowed(d, ok, gone)
  BY <1>3, <1>4
<1>. QED
  BY <1>1, <1>5, <1>6, SMTT(60)

(* A presentation that no longer waits for a status list.                  *)
LEMMA WaitsNoLonger ==
  ASSUME NEW c, NEW ok, NEW gone, Inv(c, ok, gone), c.active = "Presentation",
         NEW refs, refs = {} \/ /\ c.machine["Presentation"].at # "ResolvingTrust"
                                /\ Approved(c, "Presentation", ok)
  PROVE  Inv(Waiting(c, refs), ok, gone)
<1>. DEFINE f == "Presentation"
            d == Waiting(c, refs)
<1>1. Base(c, f, gone) /\ PresentationPhase(c, ok, gone)
  BY BaseOfInv DEF Inv, Phase
<1>2. /\ Base(d, f, gone) /\ d.log = c.log /\ d.refs = refs
      /\ d.machine = c.machine /\ d.hash = c.hash /\ d.seen = c.seen
      /\ d.pending = c.pending /\ d.doc = c.doc /\ d.status = c.status
      /\ SameEvidence(c, d)
  BY <1>1, Waits
<1>. HIDE DEF d
<1>3. d.active = f /\ d.session = c.session
  BY <1>2 DEF Base, SameEvidence
<1>4. ASSUME NEW op, Fits(c, ok, op) PROVE Fits(d, ok, op)
  BY <1>2, <1>3, <1>4 DEF Fits
<1>5. \A id \in DOMAIN d.pending : Fits(d, ok, d.pending[id])
  BY <1>2, <1>4 DEF Inv
<1>6. PresentationPhase(d, ok, gone)
  BY <1>1, <1>2, <1>3 DEF PresentationPhase, OnScreen, LogAccepts, Approved, Unspent
<1>7. Phase(d, ok, gone)
  BY <1>3, <1>6 DEF Phase
<1>8. Inv(d, ok, gone)
  BY <1>2, <1>5, <1>7, InvOfBase
<1>. QED
  BY <1>8 DEF d

(* The device key is asked to sign for a presentation.                     *)
LEMMA SignAsked ==
  ASSUME NEW c, NEW ok, NEW gone, NEW m, NEW in,
         Inv(c, ok, gone), c.active = "Presentation",
         c.machine["Presentation"].at \in {"RequestValidated", "AwaitingDeviceSignature"},
         Approved(c, "Presentation", ok), PresentationSensitiveAbortReason(c) = None,
         PresentationStep(c, in) = To(m, <<"SignKeyBinding">>),
         m.at = "AwaitingDeviceSignature", m.req = c.machine["Presentation"].req,
         IsMachine(m)
  PROVE  Good(Drive(c, in), ok, gone) /\ Keeps(c, Drive(c, in))
<1>. DEFINE f == "Presentation"
            s == PresentationStep(c, in)
            d == Stepped(c, f, s)
            req == c.machine[f].req
            out == <<Eff("Sign", f, req)>>
<1>1. s.to = m /\ s.out = <<"SignKeyBinding">>
  <2>. HIDE DEF s
  <2>. QED
    BY SMTT(60) DEF To, s
<1>2. /\ f \in AllFlows /\ f # "Issuance" /\ f # None /\ Base(c, f, gone)
      /\ PresentationPhase(c, ok, gone)
  BY BaseOfInv, NoneIsNoFlow DEF AllFlows, Inv, Phase
<1>3. req \in Abouts /\ req \in ok
  <2>1. IsMachine(c.machine[f])
    BY <1>2, MachineOfInv
  <2>. QED
    BY <2>1 DEF IsMachine, Abouts, Approved
<1>. HIDE DEF s
<1>4. /\ Base(d, f, gone) /\ Alike(c, d) /\ d.hash = c.hash /\ d.seen = c.seen
      /\ d.log = c.log /\ d.machine[f] = s.to
      /\ f # "Issuance" => (Proving(d) <=> Proving(c))
  BY <1>1, <1>2, Moves, SMTT(60)
<1>. HIDE DEF d
<1>5. /\ d.machine[f].at = "AwaitingDeviceSignature" /\ d.machine[f].req = req
      /\ d.active = f /\ d.session = c.session /\ d.refs = c.refs
      /\ d.pending = c.pending /\ d.doc = c.doc
  BY <1>1, <1>4 DEF Alike
<1>6. PresentationSensitiveAbortReason(d) = None
  BY <1>4, ReasonFrame DEF Alike, SameEvidence
<1>7. Covered(d)
  BY <1>4, <1>6, Evident DEF Base
<1>8. Phase(d, ok, gone)
  <2>1. PresentationPhase(d, ok, gone)
    BY <1>2, <1>4, <1>5
    DEF PresentationPhase, OnScreen, LogAccepts, Approved, Unspent
  <2>. QED
    BY <1>5, <2>1 DEF Phase
<1>9. ASSUME NEW op, Fits(c, ok, op) PROVE Fits(d, ok, op)
  BY <1>2, <1>4, <1>5, <1>9 DEF Fits
<1>10. \A id \in DOMAIN d.pending : Fits(d, ok, d.pending[id])
  BY <1>5, <1>9 DEF Inv
<1>11. out \in Seq(Allowed(d, ok, gone))
  <2>1. Fits(d, ok, [flow |-> f, result |-> ResultOf["Sign"], about |-> req])
    <3>1. ResultOf["Sign"] = "Signature"
      BY DEF ResultOf
    <3>. QED
      BY <1>2, <1>5, <3>1 DEF Fits
  <2>2. "Sign" \in DOMAIN ResultOf
    BY DEF ResultOf
  <2>. QED
    BY <1>2, <1>3, <1>5, <1>7, <2>1, <2>2, EffAllowed
<1>12. Good(Result(d, out), ok, gone) /\ Keeps(c, Result(d, out))
  BY <1>2, <1>4, <1>8, <1>10, <1>11, Advances
<1>13. Translate(d, "SignKeyBinding") = Result(d, out)
  BY <1>5, <1>6 DEF Translate
<1>. HIDE DEF out
<1>14. Flat(out)
  BY <1>12, GoodFlat
<1>15. PresentationEffects(d, <<"SignKeyBinding">>) = Result(d, out)
  BY <1>13, <1>14, PresentationOne, SMTT(60)
<1>16. Drive(c, in) = Result(d, out)
  BY <1>1, <1>15 DEF Drive, PresentationStep, Chosen, s, d, Stepped
<1>. QED
  BY <1>12, <1>16

(* Every gate is passed: the signatures begin.                             *)
LEMMA ProceedGood ==
  ASSUME NEW c, NEW ok, NEW gone, Inv(c, ok, gone), c.active = "Presentation",
         c.machine["Presentation"].at = "RequestValidated" =>
            Approved(c, "Presentation", ok),
         PresentationSensitiveAbortReason(c) = None, PlansCount
  PROVE  Good(Proceed(c), ok, gone) /\ Keeps(c, Proceed(c))
<1>. DEFINE f == "Presentation"
            b == Waiting(c, {})
            in == [type |-> "ConsentGranted"]
            s == PresentationStep(b, in)
            m == b.machine[f]
            r == Drive(b, in)
<1>1. in.type = "ConsentGranted"
  OBVIOUS
<1>2. Base(c, f, gone)
  BY BaseOfInv
<1>3. /\ Base(b, f, gone) /\ b.log = c.log /\ b.refs = {}
      /\ b.machine = c.machine /\ b.hash = c.hash /\ b.seen = c.seen
      /\ b.pending = c.pending /\ b.doc = c.doc /\ b.status = c.status
      /\ SameEvidence(c, b)
  BY <1>2, Waits
<1>4. Inv(b, ok, gone)
  BY WaitsNoLonger
<1>5. Proceed(c) = r
  BY DEF Proceed, Waiting
<1>6. b.active = f /\ PresentationSensitiveAbortReason(b) = None
  BY <1>3, ReasonFrame DEF Base
<1>. HIDE DEF b, in
<1>7. Good(r, ok, gone) /\ Keeps(b, r)
  <2>1. CASE m.at # "RequestValidated"
    <3>1. s = To(m, << >>)
      BY <1>1, <2>1 DEF PresentationStep, VpStep
    <3>. QED
      BY <1>4, <1>6, <2>1, <3>1, PresentationRests
  <2>2. CASE m.at = "RequestValidated"
    <3>. DEFINE k == Cardinality(b.session.plan)
                n == [m EXCEPT !.at = "AwaitingDeviceSignature", !.left = k]
    <3>1. PresentationEvidence(b) = "current"
      BY <1>6, Reasons
    <3>2. b.session # None /\ b.session.plan # {}
      BY <3>1 DEF PresentationEvidence
    <3>3. b.session.plan \in SUBSET Credentials
      <4>1. b.session \in [plan : SUBSET Credentials]
        BY <1>3, <3>2 DEF Base, CoreType
      <4>. QED
        BY <4>1
    <3>4. k # 0
      BY <3>2, <3>3 DEF PlansCount
    <3>. HIDE DEF k
    <3>5. Chosen(b, in) = k
      BY <1>1, <3>2 DEF Chosen, k
    <3>6. s = To(n, <<"SignKeyBinding">>)
      <4>1. LET env == [seen |-> b.seen[f], selected |-> k] IN env.selected = k
        BY SMTT(60)
      <4>. QED
        BY <1>1, <2>2, <3>4, <3>5, <4>1 DEF PresentationStep, VpStep
    <3>7. IsMachine(m)
      BY <1>4, MachineOfInv DEF AllFlows
    <3>. HIDE DEF m
    <3>8. n.at = "AwaitingDeviceSignature" /\ n.req = m.req /\ IsMachine(n)
      BY <3>7, SMTT(60) DEF IsMachine
    <3>. HIDE DEF n
    <3>9. Approved(b, f, ok)
      BY <1>3, <2>2 DEF Approved, m
    <3>10. b.machine[f].at \in {"RequestValidated", "AwaitingDeviceSignature"}
           /\ n.req = b.machine[f].req
      BY <2>2, <3>8 DEF m
    <3>. QED
      BY <1>3, <1>4, <1>6, <3>6, <3>8, <3>9, <3>10, SignAsked
  <2>. QED
    BY <2>1, <2>2
<1>. HIDE DEF r
<1>. QED
  BY <1>3, <1>5, <1>7 DEF Keeps, Proving

(* The holder consents: the status lists are fetched, or signing begins.   *)
LEMMA PresentationConsents ==
  ASSUME NEW c, NEW ok, NEW gone, Inv(c, ok, gone), c.active = "Presentation",
         c.hash["Presentation"] \in ok, PlansCount, ListsCount,
         c.machine["Presentation"].at \in {"RequestValidated",
                                           "AwaitingDeviceSignature", "Presenting"}
  PROVE  LET r == PresentationConsented(c)
         IN  Good(r, ok, gone) /\ Keeps(c, r)
<1>. DEFINE f == "Presentation"
            gate == PresentationStatusGate(c)
            r == PresentationConsented(c)
            d == Waiting(c, StatusReferences(c))
            out == FetchEffects(UrisToFetch(c))
<1>1. Base(c, f, gone) /\ PresentationPhase(c, ok, gone)
  BY BaseOfInv DEF Inv, Phase
<1>2. Approved(c, f, ok)
  BY <1>1 DEF PresentationPhase, Approved, OnScreen
<1>3. CASE PresentationEvidence(c) # "current"
  <2>1. r = AbortPresentation(c, PresentationEvidence(c))
    BY <1>3 DEF PresentationConsented
  <2>. QED
    BY <1>1, <2>1, AbortGood
<1>4. CASE PresentationEvidence(c) = "current" /\ gate = "Ready"
  <2>1. r = Proceed(c)
    BY <1>4 DEF PresentationConsented
  <2>2. PresentationSensitiveAbortReason(c) = None
    BY <1>4, Reasons
  <2>. QED
    BY <1>2, <2>1, <2>2, ProceedGood
<1>5. CASE PresentationEvidence(c) = "current" /\ gate = "Fetch"
  <2>1. r = Result(d, out)
    BY <1>5 DEF PresentationConsented, Waiting
  <2>2. Inv(d, ok, gone)
    BY <1>2, WaitsNoLonger
  <2>3. /\ Base(d, f, gone) /\ d.log = c.log /\ d.refs = StatusReferences(c)
        /\ d.machine = c.machine /\ d.hash = c.hash /\ d.seen = c.seen
        /\ d.pending = c.pending /\ d.doc = c.doc /\ d.status = c.status
        /\ SameEvidence(c, d)
    BY <1>1, Waits
  <2>. HIDE DEF d
  <2>4. UrisToFetch(c) \in SUBSET {StatusUri[x] : x \in Credentials}
    <3>1. c.session # None
      BY <1>5 DEF PresentationEvidence
    <3>2. c.session \in [plan : SUBSET Credentials]
      BY <1>1, <3>1 DEF Base, CoreType
    <3>3. c.session.plan \in SUBSET Credentials
      BY <3>2
    <3>. QED
      BY <3>3 DEF UrisToFetch, StatusReferences
  <2>5. out \in Seq(Allowed(d, ok, gone))
    BY <2>3, <2>4, FetchAllowed DEF Base
  <2>6. d.log = c.log /\ (Proving(d) => Proving(c))
    BY <2>3 DEF Proving
  <2>. QED
    BY <2>1, <2>2, <2>5, <2>6, Returns
<1>6. CASE PresentationEvidence(c) = "current" /\ gate \notin {"Ready", "Fetch"}
  <2>1. r = AbortPresentation(c, StatusReason(gate))
    BY <1>6 DEF PresentationConsented
  <2>. QED
    BY <1>1, <2>1, AbortGood
<1>. QED
  BY <1>3, <1>4, <1>5, <1>6

(* The holder declines.                                                    *)
LEMMA PresentationDeclines ==
  ASSUME NEW c, NEW ok, NEW gone, Inv(c, ok, gone), c.active = "Presentation",
         c.machine["Presentation"].at \in {"RequestValidated",
                                           "AwaitingDeviceSignature", "Presenting"}
  PROVE  LET r == PresentationDeclined(c)
         IN  Good(r, ok, gone) /\ Keeps(c, r)
<1>. DEFINE f == "Presentation"
            b == Waiting(c, {})
            in == [type |-> "ConsentDeclined"]
            s == PresentationStep(b, in)
            m == b.machine[f]
            r == Drive(b, in)
            gaveUp == Aborted("UserDeclined")
<1>1. in.type = "ConsentDeclined"
  OBVIOUS
<1>2. Base(c, f, gone) /\ f \in AllFlows /\ f # "Issuance"
  BY BaseOfInv DEF AllFlows
<1>3. /\ Base(b, f, gone) /\ b.log = c.log /\ b.refs = {}
      /\ b.machine = c.machine /\ b.hash = c.hash /\ b.seen = c.seen
      /\ b.pending = c.pending /\ b.doc = c.doc /\ b.status = c.status
      /\ SameEvidence(c, b)
  BY <1>2, Waits
<1>4. Inv(b, ok, gone) /\ b.active = f
  BY <1>3, WaitsNoLonger DEF Base
<1>5. PresentationDeclined(c) = ResetWhenDeclined(r)
  BY DEF PresentationDeclined, Waiting
<1>6. gaveUp.at = "Aborted" /\ gaveUp.why = "UserDeclined" /\ IsMachine(gaveUp)
  BY SMTT(60) DEF Aborted, Idle, IsMachine, Shown
<1>7. Proving(b) <=> Proving(c)
  BY <1>3 DEF Proving
<1>. HIDE DEF b, in
<1>8. CASE m.at # "RequestValidated"
  <2>. DEFINE d == Stepped(b, f, s)
  <2>1. s = To(m, << >>)
    BY <1>1, <1>8 DEF PresentationStep, VpStep
  <2>2. Good(r, ok, gone) /\ Keeps(b, r)
    BY <1>4, <1>8, <2>1, PresentationRests
  <2>3. d.machine[f] = m /\ r = Result(d, << >>)
    BY <1>4, <1>8, <2>1, PresentationStays, SMTT(60)
  <2>4. r.core = d
    <3>. HIDE DEF d, r
    <3>. QED
      BY <2>3, SMTT(60) DEF Result
  <2>5. m # gaveUp
    <3>1. m.at # "Aborted"
      BY <1>3, <1>8
    <3>. HIDE DEF m, gaveUp
    <3>. QED
      BY <1>6, <3>1
  <2>6. ResetWhenDeclined(r) = r
    <3>. HIDE DEF d, r, m, gaveUp
    <3>. QED
      BY <2>3, <2>4, <2>5 DEF ResetWhenDeclined, gaveUp
  <2>. HIDE DEF r
  <2>. QED
    BY <1>3, <1>5, <1>7, <2>2, <2>6 DEF Keeps
<1>9. CASE m.at = "RequestValidated"
  <2>. DEFINE d == Stepped(b, f, s)
              e == Result(ResetFlow(d, f), <<Close>>)
  <2>1. s = To(gaveUp, <<"Close">>)
    BY <1>1, <1>9 DEF PresentationStep, VpStep
  <2>. HIDE DEF gaveUp
  <2>2. s.to = gaveUp /\ s.out = <<"Close">>
    <3>. HIDE DEF s
    <3>. QED
      BY <2>1, SMTT(60) DEF To
  <2>. HIDE DEF s
  <2>3. /\ Base(d, f, gone) /\ d.log = b.log /\ d.machine[f] = s.to
        /\ f # "Issuance" => (Proving(d) <=> Proving(b))
    BY <1>2, <1>3, <1>6, <2>2, Moves, SMTT(60)
  <2>. HIDE DEF d
  <2>4. PresentationEffects(d, <<"Close">>) = Result(d, <<Close>>)
    <3>1. Translate(d, "Close") = Result(d, <<Close>>)
      BY DEF Translate
    <3>2. Flat(<<Close>>)
      BY ErrorAndCloseQuiet, FlatSeq
    <3>. QED
      BY <3>1, <3>2, PresentationOne, SMTT(60)
  <2>5. r = Result(d, <<Close>>)
    <3>1. "UserDeclined" \notin Surfaced
      BY DEF Surfaced
    <3>. QED
      BY <1>6, <2>2, <2>4, <3>1 DEF Drive, PresentationStep, Chosen, s, d, Stepped
  <2>6. r.core = d /\ r.out = <<Close>>
    <3>. HIDE DEF r
    <3>. QED
      BY <2>5, SMTT(60) DEF Result
  <2>. HIDE DEF r
  <2>7. ResetWhenDeclined(r) = e
    BY <2>2, <2>3, <2>6 DEF ResetWhenDeclined, gaveUp
  <2>8. Good(e, ok, gone) /\ Keeps(d, e)
    BY <1>2, <2>3, ErrorAndCloseQuiet, ResetGood
  <2>. HIDE DEF e
  <2>. QED
    BY <1>2, <1>3, <1>5, <1>7, <2>3, <2>7, <2>8 DEF Keeps
<1>. QED
  BY <1>8, <1>9

(* A status list is kept.                                                  *)
LEMMA Loads ==
  ASSUME NEW c, NEW ok, NEW gone, Inv(c, ok, gone), c.active = "Presentation",
         NEW uri, NEW list,
         \A x \in Credentials : list.says[x] \in {"Valid", "Invalid", "Unknown"}
  PROVE  LET d == LoadStatusList(c, uri, list)
         IN  /\ Inv(d, ok, gone) /\ d.log = c.log /\ d.machine = c.machine
             /\ d.refs = c.refs /\ d.active = c.active /\ SameEvidence(c, d)
<1>. DEFINE f == "Presentation"
            d == LoadStatusList(c, uri, list)
            fresh == {u \in DOMAIN c.status : c.clock < c.status[u].until}
            kept == [u \in fresh \cup {uri} |-> IF u = uri THEN list ELSE c.status[u]]
<1>1. Base(c, f, gone) /\ PresentationPhase(c, ok, gone)
  BY BaseOfInv DEF Inv, Phase
<1>2. DOMAIN d = CoreFields /\ d.status = kept
      /\ \A j \in CoreFields \ {"status"} : d[j] = c[j]
  BY DEF Inv, CoreType, CoreFields, LoadStatusList
<1>3. ASSUME NEW u \in DOMAIN kept, NEW x \in Credentials
      PROVE  kept[u].says[x] \in {"Valid", "Invalid", "Unknown"}
  <2>1. kept[u] = IF u = uri THEN list ELSE c.status[u]
    OBVIOUS
  <2>2. u # uri => u \in DOMAIN c.status
    OBVIOUS
  <2>. HIDE DEF kept
  <2>. QED
    BY <2>1, <2>2 DEF Inv, CoreType
<1>. HIDE DEF d, kept
<1>4. /\ DOMAIN d = CoreFields /\ d.status = kept
      /\ d.active = c.active /\ d.machine = c.machine /\ d.pending = c.pending
      /\ d.hash = c.hash /\ d.doc = c.doc /\ d.refs = c.refs /\ d.session = c.session
      /\ d.secrets = c.secrets /\ d.auditOk = c.auditOk /\ d.log = c.log
      /\ d.clock = c.clock /\ d.held = c.held
      /\ d.seen = c.seen /\ d.trust = c.trust
  BY <1>2 DEF CoreFields
<1>5. CoreType(d)
  <2>1. CoreType(c)
    BY DEF Inv
  <2>. QED
    BY <1>3, <1>4, <2>1 DEF CoreType
<1>6. Base(d, f, gone)
  BY <1>1, <1>4, <1>5 DEF Base, OthersRest, Kept
<1>7. ASSUME NEW op, Fits(c, ok, op) PROVE Fits(d, ok, op)
  BY <1>4, <1>7 DEF Fits
<1>8. \A id \in DOMAIN d.pending : Fits(d, ok, d.pending[id])
  BY <1>4, <1>7 DEF Inv
<1>9. PresentationPhase(d, ok, gone)
  BY <1>1, <1>4 DEF PresentationPhase, OnScreen, LogAccepts, Approved, Unspent
<1>10. Phase(d, ok, gone)
  BY <1>4, <1>9 DEF Phase
<1>11. Inv(d, ok, gone)
  BY <1>6, <1>8, <1>10, InvOfBase
<1>. QED
  BY <1>4, <1>11 DEF d, SameEvidence

(* A presentation abandoned leaves no flow under way.                      *)
LEMMA AbandonGood ==
  ASSUME NEW c, NEW ok, NEW gone, Base(c, "Presentation", gone), NEW why
  PROVE  Good(Abandoned(c, why), ok, gone) /\ Keeps(c, Abandoned(c, why))
<1>. DEFINE f == "Presentation"
            b == Waiting(c, {})
            r == AbortPresentation(b, why)
<1>1. /\ Base(b, f, gone) /\ b.log = c.log /\ b.refs = {}
      /\ b.machine = c.machine /\ b.hash = c.hash /\ b.seen = c.seen
      /\ b.pending = c.pending /\ b.doc = c.doc /\ b.status = c.status
      /\ SameEvidence(c, b)
  BY Waits
<1>2. Abandoned(c, why) = r
  BY DEF Abandoned, Waiting
<1>. HIDE DEF b
<1>3. Good(r, ok, gone) /\ Keeps(b, r)
  BY <1>1, AbortGood
<1>. HIDE DEF r
<1>. QED
  BY <1>1, <1>2, <1>3 DEF Keeps, Proving

(* A status list arrives.                                                  *)
LEMMA StatusArrives ==
  ASSUME NEW c, NEW ok, NEW gone, Inv(c, ok, gone), c.active = "Presentation",
         NEW uri, NEW answered, NEW list, PlansCount,
         \A x \in Credentials : list.says[x] \in {"Valid", "Invalid", "Unknown"}
  PROVE  LET r == StatusListReceived(c, uri, answered, list)
         IN  Good(r, ok, gone) /\ Keeps(c, r)
<1>. DEFINE f == "Presentation"
            r == StatusListReceived(c, uri, answered, list)
            d == LoadStatusList(c, uri, list)
            gate == PresentationStatusGate(d)
            refuses == uri \notin c.refs \/ ~answered \/ ~StatusListLoads(c, list)
            e == Waiting(d, StatusReferences(d))
<1>1. Base(c, f, gone) /\ PresentationPhase(c, ok, gone)
  BY BaseOfInv DEF Inv, Phase
<1>2. /\ Inv(d, ok, gone) /\ d.log = c.log /\ d.machine = c.machine
      /\ d.refs = c.refs /\ d.active = c.active /\ SameEvidence(c, d)
  BY Loads
<1>3. CASE PresentationEvidence(c) # "current"
  <2>1. r = AbortPresentation(c, PresentationEvidence(c))
    BY <1>3 DEF StatusListReceived
  <2>. QED
    BY <1>1, <2>1, AbortGood
<1>4. CASE PresentationEvidence(c) = "current" /\ refuses
  <2>1. r = Abandoned(c, StatusReason("Indeterminate"))
    BY <1>4 DEF StatusListReceived
  <2>. QED
    BY <1>1, <2>1, AbandonGood
<1>5. CASE PresentationEvidence(c) = "current" /\ ~refuses
  <2>1. r = IF gate = "Ready" THEN Proceed(d)
            ELSE IF gate = "Fetch" THEN Result(e, << >>)
            ELSE Abandoned(d, StatusReason(gate))
    BY <1>5 DEF StatusListReceived, Waiting
  <2>. HIDE DEF d, r, gate
  <2>2. d.active = f /\ d.refs # {} /\ Base(d, f, gone) /\ PresentationPhase(d, ok, gone)
    BY <1>2, <1>5, BaseOfInv DEF Inv, Phase
  <2>3. /\ d.machine[f].at # "ResolvingTrust"
        /\ d.machine[f].at = "RequestValidated" => Approved(d, f, ok)
    BY <2>2 DEF PresentationPhase
  <2>4. CASE gate = "Ready"
    <3>1. PresentationEvidence(d) = "current"
      BY <1>2, <1>5, EvidenceFrame
    <3>2. PresentationSensitiveAbortReason(d) = None
      BY <2>4, <3>1, Reasons DEF gate
    <3>3. Good(Proceed(d), ok, gone) /\ Keeps(d, Proceed(d))
      BY <1>2, <2>2, <2>3, <3>2, ProceedGood
    <3>. QED
      BY <1>2, <2>1, <2>4, <3>3 DEF Keeps, Proving, r
  <2>5. CASE gate # "Ready" /\ gate # "Fetch"
    <3>1. /\ Good(Abandoned(d, StatusReason(gate)), ok, gone)
          /\ Keeps(d, Abandoned(d, StatusReason(gate)))
      BY <2>2, AbandonGood
    <3>. QED
      BY <1>2, <2>1, <2>5, <3>1 DEF Keeps, Proving, r
  <2>6. CASE gate = "Fetch"
    <3>1. /\ Base(e, f, gone) /\ e.log = d.log /\ e.refs = StatusReferences(d)
          /\ e.machine = d.machine /\ e.hash = d.hash /\ e.seen = d.seen
          /\ e.pending = d.pending /\ e.doc = d.doc /\ e.status = d.status
          /\ SameEvidence(d, e)
      BY <2>2, Waits
    <3>2. e.active = f /\ e.session = d.session
      BY <3>1 DEF Base, SameEvidence
    <3>. HIDE DEF e
    <3>3. ASSUME NEW op, Fits(d, ok, op) PROVE Fits(e, ok, op)
      BY <2>2, <3>1, <3>2, <3>3 DEF Fits
    <3>4. \A id \in DOMAIN e.pending : Fits(e, ok, e.pending[id])
      BY <1>2, <3>1, <3>3 DEF Inv
    <3>5. PresentationPhase(e, ok, gone)
      BY <2>2, <2>3, <3>1, <3>2
      DEF PresentationPhase, OnScreen, LogAccepts, Approved, Unspent
    <3>6. Phase(e, ok, gone)
      BY <3>2, <3>5 DEF Phase
    <3>7. << >> \in Seq(Allowed(e, ok, gone))
      BY Silent
    <3>8. e.log = c.log /\ (Proving(e) => Proving(c))
      BY <1>2, <3>1 DEF Proving
    <3>9. Good(Result(e, << >>), ok, gone) /\ Keeps(c, Result(e, << >>))
      BY <3>1, <3>4, <3>6, <3>7, <3>8, Advances
    <3>10. r = Result(e, << >>)
      BY <2>1, <2>6
    <3>. QED
      BY <3>9, <3>10 DEF r
  <2>. QED
    BY <2>4, <2>5, <2>6
<1>. QED
  BY <1>3, <1>4, <1>5

(* The token goes out.                                                     *)
LEMMA TokenSent ==
  ASSUME NEW c, NEW ok, NEW gone, NEW m, NEW in,
         Inv(c, ok, gone), c.active = "Presentation",
         c.machine["Presentation"].at = "AwaitingDeviceSignature",
         PresentationSensitiveAbortReason(c) = None,
         PresentationStep(c, in) = To(m, <<"SendVpToken">>),
         m.at = "Presenting", m.req = c.machine["Presentation"].req, IsMachine(m)
  PROVE  Good(Drive(c, in), ok, gone) /\ Keeps(c, Drive(c, in))
<1>. DEFINE f == "Presentation"
            s == PresentationStep(c, in)
            d == Stepped(c, f, s)
            req == c.machine[f].req
            out == <<Eff("Http", f, req)>>
<1>1. s.to = m /\ s.out = <<"SendVpToken">>
  <2>. HIDE DEF s
  <2>. QED
    BY SMTT(60) DEF To, s
<1>2. /\ f \in AllFlows /\ f # "Issuance" /\ f # None /\ Base(c, f, gone)
      /\ PresentationPhase(c, ok, gone)
  BY BaseOfInv, NoneIsNoFlow DEF AllFlows, Inv, Phase
<1>3. req \in Abouts /\ req \in ok /\ c.hash[f] = req
  <2>1. IsMachine(c.machine[f])
    BY <1>2, MachineOfInv
  <2>. QED
    BY <1>2, <2>1 DEF IsMachine, Abouts, Approved, PresentationPhase, OnScreen
<1>. HIDE DEF s
<1>4. /\ Base(d, f, gone) /\ Alike(c, d) /\ d.hash = c.hash /\ d.seen = c.seen
      /\ d.log = c.log /\ d.machine[f] = s.to
      /\ f # "Issuance" => (Proving(d) <=> Proving(c))
  BY <1>1, <1>2, Moves, SMTT(60)
<1>. HIDE DEF d
<1>5. /\ d.machine[f].at = "Presenting" /\ d.machine[f].req = req
      /\ d.active = f /\ d.session = c.session /\ d.refs = c.refs
      /\ d.pending = c.pending /\ d.doc = c.doc /\ d.hash[f] = req
  BY <1>1, <1>3, <1>4 DEF Alike
<1>6. PresentationSensitiveAbortReason(d) = None
  BY <1>4, ReasonFrame DEF Alike, SameEvidence
<1>7. ASSUME NEW e, NEW o, Flat(o), Translate(d, "SendVpToken") = Result(e, o)
      PROVE  Drive(c, in) = Result(e, o)
  <2>1. PresentationEffects(d, <<"SendVpToken">>) = Result(e, o)
    BY <1>7, PresentationOne, SMTT(60)
  <2>. QED
    BY <1>1, <2>1 DEF Drive, PresentationStep, Chosen, s, d, Stepped
<1>8. CASE req \in Unencryptable
  <2>. DEFINE r == AbortPresentation(d, "ResponseEncryptionFailed")
  <2>1. Translate(d, "SendVpToken") = r
    BY <1>5, <1>6, <1>8 DEF Translate
  <2>2. Good(r, ok, gone) /\ Keeps(d, r)
    BY <1>4, AbortGood
  <2>3. r = Result(r.core, r.out)
    BY SMTT(60) DEF AbortPresentation, Result
  <2>. HIDE DEF r
  <2>4. Flat(r.out)
    BY <2>2, FlatSeq DEF Good
  <2>5. Drive(c, in) = r
    BY <1>7, <2>1, <2>3, <2>4
  <2>. QED
    BY <1>2, <1>4, <2>2, <2>5 DEF Keeps
<1>9. CASE req \notin Unencryptable
  <2>1. Translate(d, "SendVpToken") = Result(d, out)
    BY <1>5, <1>6, <1>9 DEF Translate
  <2>2. Covered(d)
    BY <1>4, <1>6, Evident DEF Base
  <2>3. Phase(d, ok, gone)
    <3>1. PresentationPhase(d, ok, gone)
      BY <1>2, <1>4, <1>5 DEF PresentationPhase, OnScreen, LogAccepts, Approved
    <3>. QED
      BY <1>5, <3>1 DEF Phase
  <2>4. ASSUME NEW op, Fits(c, ok, op) PROVE Fits(d, ok, op)
    BY <1>2, <1>4, <1>5, <2>4 DEF Fits
  <2>5. \A id \in DOMAIN d.pending : Fits(d, ok, d.pending[id])
    BY <1>5, <2>4 DEF Inv
  <2>6. Sendable(d, gone, Eff("Http", f, req))
    <3>1. NonceOf[req] \in d.seen[f] /\ <<f, NonceOf[req]>> \notin gone
      BY <1>2, <1>4 DEF PresentationPhase, Unspent
    <3>2. Eff("Http", f, req).flow = f /\ Eff("Http", f, req).about = req
      BY DEF Eff
    <3>. QED
      BY <1>5, <3>1, <3>2 DEF Sendable
  <2>7. Fits(d, ok, [flow |-> f, result |-> ResultOf["Http"], about |-> req])
    <3>1. ResultOf["Http"] = "Delivery"
      BY DEF ResultOf
    <3>. QED
      BY <1>2, <1>5, <3>1 DEF Fits
  <2>8. out \in Seq(Allowed(d, ok, gone))
    <3>1. "Http" \in DOMAIN ResultOf
      BY DEF ResultOf
    <3>. QED
      BY <1>2, <1>3, <1>5, <2>2, <2>6, <2>7, <3>1, EffAllowed
  <2>9. Good(Result(d, out), ok, gone) /\ Keeps(c, Result(d, out))
    BY <1>2, <1>4, <2>3, <2>5, <2>8, Advances
  <2>. HIDE DEF out
  <2>10. Flat(out)
    BY <2>9, GoodFlat
  <2>11. Drive(c, in) = Result(d, out)
    BY <1>7, <2>1, <2>10
  <2>. QED
    BY <2>9, <2>11
<1>. QED
  BY <1>8, <1>9

(* A signature of the device key comes back.                               *)
LEMMA PresentationSigns ==
  ASSUME NEW c, NEW ok, NEW gone, Inv(c, ok, gone), c.active = "Presentation",
         c.machine["Presentation"].at \in {"AwaitingDeviceSignature", "Presenting"}
  PROVE  LET r == PresentationSigned(c)
         IN  Good(r, ok, gone) /\ Keeps(c, r)
<1>. DEFINE f == "Presentation"
            r == PresentationSigned(c)
            reason == PresentationSensitiveAbortReason(c)
            in == [type |-> "DeviceSignatureProduced"]
            s == PresentationStep(c, in)
            m == c.machine[f]
<1>1. in.type = "DeviceSignatureProduced"
  OBVIOUS
<1>2. Base(c, f, gone) /\ PresentationPhase(c, ok, gone) /\ IsMachine(m)
  BY BaseOfInv, MachineOfInv DEF Inv, Phase, AllFlows
<1>3. CASE reason # None
  <2>1. r = AbortPresentation(c, reason)
    BY <1>3 DEF PresentationSigned
  <2>. QED
    BY <1>2, <2>1, AbortGood
<1>4. CASE reason = None
  <2>1. r = Drive(c, in)
    BY <1>4 DEF PresentationSigned
  <2>. HIDE DEF in
  <2>2. CASE m.at = "Presenting"
    <3>1. s = To(m, << >>)
      BY <1>1, <2>2 DEF PresentationStep, VpStep
    <3>2. m.at # "RequestValidated"
      BY <2>2
    <3>. QED
      BY <2>1, <3>1, <3>2, PresentationRests
  <2>3. CASE m.at = "AwaitingDeviceSignature" /\ m.left > 1
    <3>. DEFINE n == [m EXCEPT !.left = @ - 1]
    <3>1. s = To(n, <<"SignKeyBinding">>)
      BY <1>1, <2>3 DEF PresentationStep, VpStep
    <3>2. Approved(c, f, ok)
      BY <1>2, <2>3 DEF PresentationPhase
    <3>. HIDE DEF m
    <3>3. n.at = "AwaitingDeviceSignature" /\ n.req = m.req /\ IsMachine(n)
      BY <1>2, <2>3, SMTT(60) DEF IsMachine
    <3>. HIDE DEF n
    <3>4. n.req = c.machine[f].req
          /\ c.machine[f].at \in {"RequestValidated", "AwaitingDeviceSignature"}
      BY <2>3, <3>3 DEF m
    <3>. QED
      BY <1>4, <2>1, <3>1, <3>2, <3>3, <3>4, SignAsked
  <2>4. CASE m.at = "AwaitingDeviceSignature" /\ ~(m.left > 1)
    <3>. DEFINE n == [m EXCEPT !.at = "Presenting", !.left = 0]
    <3>1. s = To(n, <<"SendVpToken">>)
      BY <1>1, <2>4 DEF PresentationStep, VpStep
    <3>. HIDE DEF m
    <3>2. n.at = "Presenting" /\ n.req = m.req /\ IsMachine(n)
      BY <1>2, <2>4, SMTT(60) DEF IsMachine
    <3>. HIDE DEF n
    <3>3. n.req = c.machine[f].req /\ c.machine[f].at = "AwaitingDeviceSignature"
      BY <2>4, <3>2 DEF m
    <3>. QED
      BY <1>4, <2>1, <3>1, <3>2, <3>3, TokenSent
  <2>. QED
    BY <2>2, <2>3, <2>4
<1>. QED
  BY <1>3, <1>4

(* The delivery of a presentation is recorded.                             *)
LEMMA PresentationCompletes ==
  ASSUME NEW c, NEW ok, NEW gone, Inv(c, ok, gone), c.active = "Presentation",
         c.machine["Presentation"].at = "Presenting"
  PROVE  LET r == PresentationDelivered(c)
         IN  /\ Good(r, ok, gone)
             /\ Completes(c, r, "Presentation", c.hash["Presentation"])
<1>. DEFINE f == "Presentation"
            in == [type |-> "PresentationDelivered"]
            s == PresentationStep(c, in)
            m == c.machine[f]
            n == At(m, "Done")
            d == Stepped(c, f, s)
            x == c.hash[f]
            e == AppendAuditEntry(d, f, x)
            r == Result(FinishFlow(e, f), <<Close>>)
<1>1. in.type = "PresentationDelivered"
  OBVIOUS
<1>2. /\ f \in AllFlows /\ f # "Issuance" /\ Base(c, f, gone)
      /\ PresentationPhase(c, ok, gone) /\ IsMachine(m)
  BY BaseOfInv, MachineOfInv DEF Inv, Phase, AllFlows
<1>. HIDE DEF in
<1>3. s = To(n, <<"Close">>)
  BY <1>1 DEF PresentationStep, VpStep, At
<1>4. n.at = "Done" /\ IsMachine(n)
  BY <1>2, PhaseOnly, SMTT(60)
<1>. HIDE DEF n
<1>5. s.to = n /\ s.out = <<"Close">>
  <2>. HIDE DEF s
  <2>. QED
    BY <1>3, SMTT(60) DEF To
<1>. HIDE DEF s
<1>6. /\ Base(d, f, gone) /\ Alike(c, d) /\ d.hash = c.hash
      /\ d.log = c.log /\ d.machine[f] = s.to
      /\ f # "Issuance" => (Proving(d) <=> Proving(c))
  BY <1>2, <1>4, <1>5, Moves, SMTT(60)
<1>. HIDE DEF d
<1>7. PresentationEffects(d, <<"Close">>) = Result(d, <<Close>>)
  <2>1. Translate(d, "Close") = Result(d, <<Close>>)
    BY DEF Translate
  <2>2. Flat(<<Close>>)
    BY ErrorAndCloseQuiet, FlatSeq
  <2>. QED
    BY <2>1, <2>2, PresentationOne, SMTT(60)
<1>8. LogAccepts(d, x) /\ d.session # None /\ x \in Shown /\ d.hash[f] = x
  BY <1>2, <1>6
  DEF PresentationPhase, OnScreen, LogAccepts, Alike, IsMachine
<1>9. RecordPresentation(Result(d, <<Close>>)) = Result(e, <<Close>>)
  <2>1. Result(d, <<Close>>).core = d /\ Result(d, <<Close>>).out = <<Close>>
    BY SMTT(60) DEF Result
  <2>. QED
    BY <1>8, <2>1 DEF RecordPresentation, Recorded
<1>10. Drive(c, in) = Result(e, <<Close>>)
  BY <1>4, <1>5, <1>7, <1>9 DEF Drive, PresentationStep, Chosen, s, d, Stepped
<1>11. /\ Base(e, f, gone) /\ e.machine = d.machine
       /\ Adds(d, e, f, x)
  BY <1>2, <1>6, <1>8, Records
<1>12. PresentationDelivered(c) = r
  <2>1. Result(e, <<Close>>).core = e /\ Result(e, <<Close>>).out = <<Close>>
    BY SMTT(60) DEF Result
  <2>2. e.machine[f].at = "Done"
    BY <1>4, <1>5, <1>6, <1>11
  <2>. HIDE DEF e
  <2>. QED
    BY <1>10, <2>1, <2>2 DEF PresentationDelivered, in
<1>13. d.machine[f].at \in AtRest
  BY <1>4, <1>5, <1>6 DEF AtRest
<1>14. Good(r, ok, gone) /\ Completes(d, r, f, x)
  BY <1>2, <1>6, <1>8, <1>13, ErrorAndCloseQuiet, CompleteGood
<1>. HIDE DEF r
<1>15. Completes(c, r, f, x)
  BY <1>2, <1>6, <1>14 DEF Completes, Adds
<1>. QED
  BY <1>12, <1>14, <1>15

-----------------------------------------------------------------------------
(* The trusted clock advances, or a step back ends a presentation.         *)
LEMMA SetClockStep ==
  ASSUME Inv(core, approved, spent), SetClock
  PROVE  Turn /\ LogTurn
<1>1. PICK epoch \in 1 .. MaxClock :
        IF epoch >= core.clock
        THEN Event(Result([core EXCEPT !.clock = epoch], << >>))
        ELSE Event(IF core.active = "Presentation"
                   THEN AbortPresentation(core, "ClockRollback")
                   ELSE Result(core, ErrorAndClose))
  BY DEF SetClock
<1>2. CASE Event(Result([core EXCEPT !.clock = epoch], << >>))
  <2>. DEFINE d == [core EXCEPT !.clock = epoch]
  <2>1. /\ Settles(core, d) /\ d.log = core.log /\ d.clock = epoch
        /\ d.held = core.held /\ d.auditOk = core.auditOk
    BY DEF Settles, Inv, CoreType, CoreFields
  <2>2. epoch \in Nat
    BY WalletAssumption, SMTT(60)
  <2>. HIDE DEF d
  <2>3. d.clock \in Nat /\ d.held \in SUBSET Credentials
    BY <2>1, <2>2 DEF Inv, CoreType
  <2>. QED
    BY <1>2, <2>1, <2>3, SettingTurn DEF d
<1>3. CASE core.active = "Presentation" /\ Event(AbortPresentation(core, "ClockRollback"))
  <2>. DEFINE r == AbortPresentation(core, "ClockRollback")
  <2>1. Base(core, "Presentation", spent)
    BY <1>3, BaseOfInv
  <2>2. Good(r, approved, spent) /\ Keeps(core, r)
    BY <2>1, AbortGood
  <2>. QED
    BY <1>3, <2>2, EventTurn
<1>4. CASE Event(Result(core, ErrorAndClose))
  <2>1. ErrorAndClose \in Seq(Quiet)
    BY ErrorAndCloseQuiet
  <2>2. /\ Good(Result(core, ErrorAndClose), approved, spent)
        /\ Keeps(core, Result(core, ErrorAndClose))
    BY <2>1, Quietly
  <2>. QED
    BY <1>4, <2>2, EventTurn
<1>. QED
  BY <1>1, <1>2, <1>3, <1>4

(* An authorization request starts a presentation.                         *)
LEMMA AuthorizationRequestReceivedStep ==
  ASSUME Inv(core, approved, spent), AuthorizationRequestReceived
  PROVE  Turn /\ LogTurn
<1>1. PICK req \in Requests, parsed \in BOOLEAN :
         Start("Presentation",
               Admit(core, "Presentation",
                     Drive(BeginFlow(core, "Presentation"),
                           [type |-> "AuthorizationRequest", parsed |-> parsed,
                            req |-> req])))
  BY DEF AuthorizationRequestReceived
<1>. DEFINE b == BeginFlow(core, "Presentation")
            r == Drive(b, [type |-> "AuthorizationRequest", parsed |-> parsed,
                           req |-> req])
<1>2. "Presentation" \in AllFlows
  BY DEF AllFlows
<1>3. /\ Base(b, "Presentation", spent) /\ b.machine["Presentation"] = IdleMachine
      /\ DOMAIN b.pending = {} /\ b.refs = {}
  BY <1>2, Begins, SMTT(60)
<1>. HIDE DEF b
<1>4. Good(r, {}, spent) /\ Keeps(b, r)
  BY <1>3, PresentationStart
<1>. QED
  BY <1>1, <1>2, <1>4, BegunTurn DEF b

(* The trust of the relying party is resolved over credentials that are    *)
(* current.                                                                *)
LEMMA ResolveRpTrustStep ==
  ASSUME Inv(core, approved, spent), ResolveRpTrust
  PROVE  Turn /\ LogTurn
<1>1. core.active = "Presentation"
  BY DEF ResolveRpTrust, Answer
<1>2. PICK verdict \in Verdict,
           plan \in SUBSET {x \in core.held : CredentialIsCurrent(core, x)},
           id \in Answerable("RpCertChain") :
         Event(RpCertChainResolved(Consume(id), verdict, plan))
  BY DEF ResolveRpTrust, Answer
<1>. DEFINE c == Consume(id)
            r == RpCertChainResolved(c, verdict, plan)
<1>3. id \in DOMAIN core.pending /\ Inv(c, approved, spent) /\ c.active = "Presentation"
  BY <1>1, Answering, SMTT(60)
<1>4. c.held = core.held /\ c.clock = core.clock /\ c.trust = core.trust
  BY <1>3, Consumed, SMTT(60)
<1>. HIDE DEF c
<1>5. \A x \in plan : CredentialIsCurrent(c, x)
  BY <1>4 DEF CredentialIsCurrent, IssuerTrusted, TrustListValid, TrustList
<1>6. plan \in SUBSET Credentials
  BY DEF Inv, CoreType
<1>7. Good(r, approved, spent) /\ Keeps(c, r)
  BY <1>3, <1>5, <1>6, ChainResolved
<1>. QED
  BY <1>2, <1>3, <1>7, AnswerTurn DEF c

(* A status list is received, or its fetch fails.                          *)
LEMMA ReceiveStatusListStep ==
  ASSUME Inv(core, approved, spent), ReceiveStatusList, PlansCount
  PROVE  Turn /\ LogTurn
<1>1. core.active = "Presentation"
  BY DEF ReceiveStatusList
<1>2. PICK list \in StatusLists, answered \in BOOLEAN, id \in Answerable("StatusList") :
         Event(StatusListReceived(Consume(id), core.pending[id].about, answered, list))
  BY DEF ReceiveStatusList
<1>. DEFINE c == Consume(id)
            uri == core.pending[id].about
            r == StatusListReceived(c, uri, answered, list)
<1>3. id \in DOMAIN core.pending /\ Inv(c, approved, spent) /\ c.active = "Presentation"
  BY <1>1, Answering, SMTT(60)
<1>4. \A x \in Credentials : list.says[x] \in {"Valid", "Invalid", "Unknown"}
  BY WalletAssumption
<1>. HIDE DEF c, uri
<1>5. Good(r, approved, spent) /\ Keeps(c, r)
  BY <1>3, <1>4, StatusArrives
<1>. QED
  BY <1>2, <1>3, <1>5, AnswerTurn DEF c, uri

(* The delivery of a presentation completes it.                            *)
LEMMA DeliverPresentationStep ==
  ASSUME Inv(core, approved, spent), DeliverPresentation
  PROVE  Turn /\ LogTurn
<1>. DEFINE f == "Presentation"
<1>1. core.active = f /\ approved' = approved
  BY DEF DeliverPresentation, Complete
<1>2. PICK id \in Answerable("Delivery") :
         /\ Released(PresentationDelivered(Consume(id)))
         /\ history' = Append(history, [kind |-> f, shown |-> core.pending[id].about])
  BY DEF DeliverPresentation, Complete
<1>. DEFINE c == Consume(id)
            op == core.pending[id]
            r == PresentationDelivered(c)
<1>3. /\ Inv(c, approved, spent) /\ c.active = f /\ c.log = core.log
      /\ (Proving(c) <=> Proving(core))
      /\ Fits(c, approved, op) /\ op.result = "Delivery" /\ op.flow = c.active
  BY <1>1, Answering, SMTT(60)
<1>. HIDE DEF c
<1>4. c.machine[f].at = "Presenting" /\ op.about = c.hash[f]
  BY <1>3 DEF Fits
<1>5. Good(r, approved, spent) /\ Completes(c, r, f, c.hash[f])
  BY <1>3, <1>4, PresentationCompletes
<1>6. Completes(core, r, f, op.about)
  BY <1>3, <1>4, <1>5 DEF Completes, Adds
<1>7. f \in AllFlows /\ op.about \in Shown \cup Credentials
  BY <1>3, <1>4 DEF Inv, CoreType, AllFlows
<1>. QED
  BY <1>1, <1>2, <1>5, <1>6, <1>7, EntryTurn DEF c

-----------------------------------------------------------------------------
(* The session keys are derived, and the step of the in-person machine as  *)
(* the core drives it.                                                     *)
Derived(c, in) == /\ in.type = "ReaderEstablishment" /\ in.agrees
                  /\ c.machine["Proximity"].at = "Engaged" /\ c.secrets
ProximityStep(c, in) == IsoStep(c.machine["Proximity"], in, [derived |-> Derived(c, in)])

(* No output has no effect;                                                *)
LEMMA ProximityNone ==
  ASSUME NEW c
  PROVE  ProximityEffects(c, << >>) = Result(c, << >>)
BY SMTT(60) DEF ProximityEffects, Translated, Result

(* one output has the effects it translates to.                            *)
LEMMA ProximityOne ==
  ASSUME NEW c, NEW a, NEW d, NEW out, Flat(out),
         TranslateProximity(c, a) = Result(d, out)
  PROVE  ProximityEffects(c, <<a>>) = Result(d, out)
BY SMTT(60) DEF ProximityEffects, Translated, Result, Flat

(* An in-person session that fails is over.                                *)
LEMMA ProximityAborts ==
  ASSUME NEW c, NEW gone, NEW ok, Base(c, "Proximity", gone), NEW why, NEW in,
         ~Derived(c, in), NEW out \in {<< >>, <<"EmitTermination">>},
         ProximityStep(c, in) = To(Aborted(why), out)
  PROVE  LET r == DriveProximity(c, in)
         IN  Good(r, ok, gone) /\ Keeps(c, r)
<1>. DEFINE f == "Proximity"
            s == ProximityStep(c, in)
            d == Stepped(c, f, s)
            r == Result(ResetFlow(d, f), <<Close>>)
<1>1. f \in AllFlows
  BY DEF AllFlows
<1>. HIDE DEF s
<1>2. s.out = out /\ s.to = Aborted(why)
  BY SMTT(60) DEF To, s
<1>3. s.to.at = "Aborted" /\ IsMachine(s.to)
  <2>1. LET m == Aborted(why) IN m.at = "Aborted" /\ IsMachine(m)
    BY SMTT(60) DEF Aborted, Idle, IsMachine, Shown
  <2>. QED
    BY <1>2, <2>1
<1>4. /\ Base(d, f, gone) /\ d.log = c.log
      /\ f # "Issuance" => (Proving(d) <=> Proving(c))
  BY <1>1, <1>3, Moves, SMTT(60)
<1>. HIDE DEF d
<1>5. ProximityEffects(d, out).core = d
  <2>1. CASE out = << >>
    <3>1. ProximityEffects(d, << >>) = Result(d, << >>)
      BY ProximityNone
    <3>. QED
      BY <2>1, <3>1, SMTT(60) DEF Result
  <2>2. CASE out = <<"EmitTermination">>
    <3>1. TranslateProximity(d, "EmitTermination") = Result(d, <<Close>>)
      BY DEF TranslateProximity
    <3>2. Flat(<<Close>>)
      BY ErrorAndCloseQuiet, FlatSeq
    <3>3. ProximityEffects(d, <<"EmitTermination">>) = Result(d, <<Close>>)
      BY <3>1, <3>2, ProximityOne, SMTT(60)
    <3>. QED
      BY <2>2, <3>3, SMTT(60) DEF Result
  <2>. QED
    BY <2>1, <2>2
<1>6. DriveProximity(c, in) = r
  BY <1>2, <1>3, <1>5 DEF DriveProximity, s, d, ProximityStep, Derived
<1>7. Good(r, ok, gone) /\ Keeps(d, r)
  BY <1>1, <1>4, ErrorAndCloseQuiet, ResetGood
<1>. HIDE DEF r
<1>. QED
  BY <1>4, <1>6, <1>7 DEF Keeps

(* What the session does not expect changes nothing.                       *)
LEMMA ProximityStays ==
  ASSUME NEW c, NEW ok, NEW gone, Inv(c, ok, gone), c.active = "Proximity", NEW in,
         ~Derived(c, in),
         ProximityStep(c, in) = To(c.machine["Proximity"], << >>)
  PROVE  LET r == DriveProximity(c, in)
         IN  Good(r, ok, gone) /\ Keeps(c, r)
<1>. DEFINE f == "Proximity"
            s == ProximityStep(c, in)
            m == c.machine[f]
            d == Stepped(c, f, s)
<1>1. f \in AllFlows /\ Base(c, f, gone)
  BY BaseOfInv DEF AllFlows
<1>2. IsMachine(m)
  BY <1>1, MachineOfInv
<1>3. m.at # "Aborted"
  BY DEF Inv, Phase, ProximityPhase
<1>. HIDE DEF s
<1>4. s.to = m /\ s.out = << >>
  BY SMTT(60) DEF To, s
<1>. HIDE DEF m
<1>5. /\ Base(d, f, gone) /\ Alike(c, d) /\ d.hash = c.hash /\ d.seen = c.seen
      /\ d.log = c.log /\ d.machine[f] = m
      /\ f # "Issuance" => (Proving(d) <=> Proving(c))
  BY <1>1, <1>2, <1>4, Moves, SMTT(60)
<1>. HIDE DEF d
<1>6. SeenMore(c, d)
  BY <1>5 DEF SeenMore
<1>7. Inv(d, ok, gone)
  BY <1>1, <1>5, <1>6, FrameInv DEF m
<1>8. Good(Result(d, << >>), ok, gone) /\ Keeps(c, Result(d, << >>))
  BY <1>5, <1>7, Silent, Returns
<1>9. ProximityEffects(d, << >>) = Result(d, << >>)
  BY ProximityNone
<1>10. DriveProximity(c, in) = Result(d, << >>)
  BY <1>3, <1>4, <1>9 DEF DriveProximity, s, d, ProximityStep, Derived
<1>. QED
  BY <1>8, <1>10

(* The session goes on over the document chosen for it.                    *)
LEMMA ProximityMoves ==
  ASSUME NEW c, NEW ok, NEW gone, Inv(c, ok, gone), c.active = "Proximity", NEW s,
         IsMachine(s.to), s.to.at \in IsoPhases \ {"Idle", "Engaged", "Aborted"},
         s.to.at \in {"SigningResponse", "Responded"} => c.doc["Proximity"] \in ok \cup {None}
  PROVE  LET d == Stepped(c, "Proximity", s)
         IN  /\ Inv(d, ok, gone) /\ d.log = c.log /\ (Proving(d) => Proving(c))
             /\ d.active = "Proximity" /\ d.doc = c.doc
<1>. DEFINE f == "Proximity"
            d == Stepped(c, f, s)
<1>1. f \in AllFlows /\ Base(c, f, gone) /\ f # None
  BY BaseOfInv, NoneIsNoFlow DEF AllFlows
<1>2. /\ Base(d, f, gone) /\ Alike(c, d) /\ d.hash = c.hash /\ d.log = c.log
      /\ d.machine[f] = s.to
      /\ f # "Issuance" => (Proving(d) <=> Proving(c))
  BY <1>1, Moves, SMTT(60)
<1>. HIDE DEF d
<1>3. d.active = f /\ d.pending = c.pending /\ d.doc = c.doc
  BY <1>2 DEF Alike
<1>4. ProximityPhase(c, ok)
  BY DEF Inv, Phase
<1>5. ProximityPhase(d, ok)
  BY <1>2, <1>3, <1>4 DEF ProximityPhase
<1>6. Phase(d, ok, gone)
  BY <1>3, <1>5 DEF Phase
<1>7. \A id \in DOMAIN d.pending : Fits(d, ok, d.pending[id])
  <2>1. ASSUME NEW op, Fits(c, ok, op) PROVE Fits(d, ok, op)
    BY <1>1, <1>2, <1>3, <2>1 DEF Fits
  <2>. QED
    BY <1>3, <2>1 DEF Inv
<1>8. Inv(d, ok, gone)
  BY <1>2, <1>6, <1>7, InvOfBase
<1>. QED
  BY <1>2, <1>3, <1>8 DEF d

(* One output over the document of the session: nothing if there is none.  *)
LEMMA ProximityEmits ==
  ASSUME NEW c, NEW ok, NEW gone, Inv(c, ok, gone), c.active = "Proximity", NEW in,
         ~Derived(c, in), NEW n, NEW o, NEW out,
         ProximityStep(c, in) = To(n, <<o>>),
         IsMachine(n), n.at \in IsoPhases \ {"Idle", "Engaged", "Aborted"},
         n.at \in {"SigningResponse", "Responded"} => c.doc["Proximity"] \in ok \cup {None},
         \A d : /\ d.active = "Proximity" /\ d.doc = c.doc
                => /\ TranslateProximity(d, o) = Result(d, out)
                   /\ out \in Seq(Allowed(d, ok, gone))
  PROVE  LET r == DriveProximity(c, in)
         IN  Good(r, ok, gone) /\ Keeps(c, r)
<1>. DEFINE f == "Proximity"
            s == ProximityStep(c, in)
            d == Stepped(c, f, s)
<1>. HIDE DEF s
<1>1. s.to = n /\ s.out = <<o>>
  BY SMTT(60) DEF To, s
<1>2. /\ Inv(d, ok, gone) /\ d.log = c.log /\ (Proving(d) => Proving(c))
      /\ d.active = "Proximity" /\ d.doc = c.doc
  BY <1>1, ProximityMoves
<1>. HIDE DEF d
<1>3. TranslateProximity(d, o) = Result(d, out) /\ out \in Seq(Allowed(d, ok, gone))
  BY <1>2
<1>4. Good(Result(d, out), ok, gone) /\ Keeps(c, Result(d, out))
  BY <1>2, <1>3, Returns
<1>5. Flat(out)
  BY <1>3, FlatSeq
<1>6. ProximityEffects(d, <<o>>) = Result(d, out)
  BY <1>3, <1>5, ProximityOne, SMTT(60)
<1>7. DriveProximity(c, in) = Result(d, out)
  BY <1>1, <1>6 DEF DriveProximity, s, d, ProximityStep, Derived
<1>. QED
  BY <1>4, <1>7

(* The holder consents to the document on the screen.                      *)
LEMMA ProximityConsented ==
  ASSUME NEW c, NEW ok, NEW gone, Inv(c, ok, gone), c.active = "Proximity",
         c.hash["Proximity"] \in ok
  PROVE  LET r == DriveProximity(c, [type |-> "ConsentGranted"])
         IN  Good(r, ok, gone) /\ Keeps(c, r)
<1>. DEFINE f == "Proximity"
            in == [type |-> "ConsentGranted"]
            m == c.machine[f]
            n == At(m, "SigningResponse")
            doc == c.doc[f]
            out == <<IF doc = None THEN Close ELSE Eff("Sign", f, doc)>>
            s == ProximityStep(c, in)
<1>1. in.type = "ConsentGranted"
  BY SMTT(60)
<1>. HIDE DEF in
<1>2. ~Derived(c, in)
  BY <1>1 DEF Derived
<1>3. f \in AllFlows /\ Base(c, f, gone) /\ doc \in ok /\ doc \in Abouts /\ f # None
  <2>1. doc = c.hash[f]
    BY DEF Inv, Phase, ProximityPhase
  <2>2. doc \in Shown
    BY DEF Inv, CoreType, Documented
  <2>. QED
    BY <2>1, <2>2, BaseOfInv, NoneIsNoFlow DEF AllFlows, Abouts
<1>4. CASE m.at = "SessionEstablished"
  <2>1. s = To(n, <<"SignDeviceAuth">>)
    BY <1>1, <1>4 DEF ProximityStep, IsoStep, At
  <2>2. IsMachine(m)
    BY <1>3, MachineOfInv
  <2>3. n.at = "SigningResponse" /\ n.req = m.req /\ IsMachine(n)
    BY <2>2, PhaseOnly, SMTT(60)
  <2>. HIDE DEF n
  <2>4. ASSUME NEW d, d.active = f, d.doc = c.doc
        PROVE  /\ TranslateProximity(d, "SignDeviceAuth") = Result(d, out)
               /\ out \in Seq(Allowed(d, ok, gone))
    <3>1. TranslateProximity(d, "SignDeviceAuth") = Result(d, out)
      BY <2>4 DEF TranslateProximity
    <3>2. CASE doc = None
      <4>1. <<Close>> \in Seq(Quiet) /\ Quiet \subseteq Allowed(d, ok, gone)
        BY ErrorAndCloseQuiet, QuietAllowed
      <4>2. out = <<Close>>
        BY <3>2
      <4>. HIDE DEF out
      <4>3. out \in Seq(Allowed(d, ok, gone))
        BY <4>1, <4>2, SMTT(60)
      <4>. QED
        BY <3>1, <4>3 DEF out
    <3>3. CASE doc # None
      <4>1. ResultOf["Sign"] = "Signature" /\ "Sign" \in DOMAIN ResultOf
        BY DEF ResultOf
      <4>2. Fits(d, ok, [flow |-> f, result |-> ResultOf["Sign"], about |-> doc])
        BY <1>3, <2>4, <4>1 DEF Fits
      <4>3. <<Eff("Sign", f, doc)>> \in Seq(Allowed(d, ok, gone))
        BY <1>3, <2>4, <4>1, <4>2, EffAllowed
      <4>. QED
        BY <3>1, <3>3, <4>3
    <3>. QED
      BY <3>2, <3>3
  <2>5. "SigningResponse" \in IsoPhases
    BY DEF IsoPhases
  <2>. HIDE DEF s, out
  <2>. QED
    BY <1>2, <1>3, <2>1, <2>3, <2>4, <2>5, ProximityEmits DEF s, in
<1>5. CASE m.at = "Engaged"
  <2>1. s = To(Aborted("RequestOutOfOrder"), << >>)
    BY <1>1, <1>5 DEF ProximityStep, IsoStep
  <2>. QED
    BY <1>2, <1>3, <2>1, ProximityAborts DEF in
<1>6. CASE m.at \notin {"SessionEstablished", "Engaged"}
  <2>1. s = To(m, << >>)
    BY <1>1, <1>6 DEF ProximityStep, IsoStep
  <2>. QED
    BY <1>2, <2>1, ProximityStays DEF in
<1>. QED
  BY <1>4, <1>5, <1>6

(* The holder declines.                                                    *)
LEMMA ProximityDeclined ==
  ASSUME NEW c, NEW ok, NEW gone, Inv(c, ok, gone), c.active = "Proximity"
  PROVE  LET r == DriveProximity(c, [type |-> "ConsentDeclined"])
         IN  Good(r, ok, gone) /\ Keeps(c, r)
<1>. DEFINE in == [type |-> "ConsentDeclined"]
            m == c.machine["Proximity"]
            s == ProximityStep(c, in)
<1>1. in.type = "ConsentDeclined"
  BY SMTT(60)
<1>. HIDE DEF in
<1>2. ~Derived(c, in) /\ Base(c, "Proximity", gone)
  BY <1>1, BaseOfInv DEF Derived
<1>3. CASE m.at = "SessionEstablished"
  <2>1. s = To(Aborted("NoConsent"), <<"EmitTermination">>)
    BY <1>1, <1>3 DEF ProximityStep, IsoStep
  <2>. QED
    BY <1>2, <2>1, ProximityAborts DEF in
<1>4. CASE m.at # "SessionEstablished"
  <2>1. s = To(m, << >>)
    BY <1>1, <1>4 DEF ProximityStep, IsoStep
  <2>. QED
    BY <1>2, <2>1, ProximityStays DEF in
<1>. QED
  BY <1>3, <1>4

(* The device signature is made: the response goes to the reader.          *)
LEMMA ProximitySigned ==
  ASSUME NEW c, NEW ok, NEW gone, Inv(c, ok, gone), c.active = "Proximity"
  PROVE  LET r == DriveProximity(c, [type |-> "DeviceSignatureProduced"])
         IN  Good(r, ok, gone) /\ Keeps(c, r)
<1>. DEFINE f == "Proximity"
            in == [type |-> "DeviceSignatureProduced"]
            m == c.machine[f]
            n == At(m, "Responded")
            doc == c.doc[f]
            k == "EmitDeviceResponse"
            out == <<IF doc = None THEN Close ELSE Eff(k, f, doc)>>
            s == ProximityStep(c, in)
<1>1. in.type = "DeviceSignatureProduced"
  BY SMTT(60)
<1>. HIDE DEF in
<1>2. ~Derived(c, in) /\ f \in AllFlows /\ doc \in Abouts
  BY <1>1 DEF Derived, AllFlows, Abouts, Inv, CoreType, Documented
<1>3. CASE m.at = "SigningResponse"
  <2>1. s = To(n, <<k>>)
    BY <1>1, <1>3 DEF ProximityStep, IsoStep, At
  <2>2. IsMachine(m)
    BY <1>2, MachineOfInv
  <2>3. n.at = "Responded" /\ n.req = m.req /\ IsMachine(n)
    BY <2>2, PhaseOnly, SMTT(60)
  <2>4. doc \in ok \cup {None}
    BY <1>3 DEF Inv, Phase, ProximityPhase
  <2>. HIDE DEF n
  <2>5. ASSUME NEW d, d.active = f, d.doc = c.doc
        PROVE  /\ TranslateProximity(d, k) = Result(d, out)
               /\ out \in Seq(Allowed(d, ok, gone))
    <3>1. TranslateProximity(d, k) = Result(d, out)
      BY <2>5 DEF TranslateProximity
    <3>2. CASE doc = None
      <4>1. <<Close>> \in Seq(Quiet) /\ Quiet \subseteq Allowed(d, ok, gone)
        BY ErrorAndCloseQuiet, QuietAllowed
      <4>2. out = <<Close>>
        BY <3>2
      <4>. HIDE DEF out
      <4>3. out \in Seq(Allowed(d, ok, gone))
        BY <4>1, <4>2, SMTT(60)
      <4>. QED
        BY <3>1, <4>3 DEF out
    <3>3. CASE doc # None
      <4>1. <<Eff(k, f, doc)>> \in Seq(Allowed(d, ok, gone))
        BY <1>2, <2>4, <3>3, EmitAllowed
      <4>. QED
        BY <3>1, <3>3, <4>1
    <3>. QED
      BY <3>2, <3>3
  <2>6. "Responded" \in IsoPhases
    BY DEF IsoPhases
  <2>. HIDE DEF s, out
  <2>. QED
    BY <1>2, <2>1, <2>3, <2>4, <2>5, <2>6, ProximityEmits DEF s, in
<1>4. CASE m.at # "SigningResponse"
  <2>1. s = To(m, << >>)
    BY <1>1, <1>4 DEF ProximityStep, IsoStep
  <2>. QED
    BY <1>2, <2>1, ProximityStays DEF in
<1>. QED
  BY <1>3, <1>4

(* What an in-person session that is not under way does disturbs no flow.  *)
Bystander(c, d) ==
    /\ DOMAIN d = CoreFields /\ DOMAIN d.machine = AllFlows
    /\ \A g \in AllFlows \ {"Proximity"} : d.machine[g] = c.machine[g]
    /\ IsMachine(d.machine["Proximity"]) /\ d.machine["Proximity"].at \in AtRest
    /\ d.doc \in [Documented -> Shown] /\ d.doc["DcApi"] = c.doc["DcApi"]
    /\ DOMAIN d.pending = DOMAIN c.pending
    /\ \A id \in DOMAIN c.pending : d.pending[id] = c.pending[id]
    /\ d.active = c.active /\ d.hash = c.hash
    /\ d.session = c.session /\ d.refs = c.refs /\ d.secrets = c.secrets
    /\ d.auditOk = c.auditOk /\ d.log = c.log /\ d.clock = c.clock
    /\ d.status = c.status /\ d.held = c.held /\ d.seen = c.seen

(* The other flow stays in order.                                          *)
LEMMA BystanderInv ==
  ASSUME NEW c, NEW ok, NEW gone, Inv(c, ok, gone), c.active # "Proximity",
         NEW d, Bystander(c, d)
  PROVE  Inv(d, ok, gone) /\ d.log = c.log /\ (Proving(d) => Proving(c))
<1>1. ASSUME NEW g \in AllFlows
      PROVE  /\ DOMAIN d.machine[g] = {"at", "req", "left", "why"}
             /\ d.machine[g].req \in Shown
  <2>1. CASE g = "Proximity"
    BY <2>1 DEF Bystander, IsMachine
  <2>2. CASE g # "Proximity"
    <3>1. d.machine[g] = c.machine[g]
      BY <2>2 DEF Bystander
    <3>. QED
      BY <3>1 DEF Inv, CoreType
  <2>. QED
    BY <2>1, <2>2
<1>2. CoreType(d)
  BY <1>1 DEF Bystander, Inv, CoreType
<1>3. OthersRest(d, d.active)
  <2>1. ASSUME NEW g \in AllFlows \ {d.active}
        PROVE  d.machine[g].at \in AtRest /\ d.hash[g] = None
    BY DEF Bystander, Inv, OthersRest
  <2>2. d.secrets => d.active = "Proximity"
    BY DEF Bystander, Inv, OthersRest
  <2>. QED
    BY <2>1, <2>2 DEF OthersRest
<1>4. ASSUME NEW g \in AllFlows, c.active = g
      PROVE  d.machine[g] = c.machine[g]
  BY <1>4 DEF Bystander
<1>5. \A id \in DOMAIN d.pending : Fits(d, ok, d.pending[id])
  <2>1. ASSUME NEW op, Fits(c, ok, op) PROVE Fits(d, ok, op)
    <3>1. c.active \in AllFlows
      BY <2>1 DEF Fits, Inv, CoreType
    <3>2. d.machine[c.active] = c.machine[c.active]
      BY <1>4, <3>1
    <3>. QED
      BY <2>1, <3>2 DEF Fits, Bystander
  <2>. QED
    BY <2>1 DEF Bystander, Inv
<1>6. Phase(d, ok, gone)
  <2>1. ASSUME c.active = "Presentation" PROVE PresentationPhase(d, ok, gone)
    BY <1>4, <2>1 DEF Inv, Phase, PresentationPhase, OnScreen, Approved, Unspent, LogAccepts,
                      Bystander, AllFlows
  <2>2. ASSUME c.active = "Payment" PROVE PaymentPhase(d, ok, gone)
    BY <1>4, <2>2 DEF Inv, Phase, PaymentPhase, OnScreen, Approved, Unspent, LogAccepts,
                      Bystander, AllFlows
  <2>3. ASSUME c.active = "Qes" PROVE QesPhase(d, ok, gone)
    BY <1>4, <2>3 DEF Inv, Phase, QesPhase, OnScreen, Approved, Unspent, Bystander, AllFlows
  <2>4. ASSUME c.active = "Issuance" PROVE IssuancePhase(d, ok)
    BY <1>4, <2>4 DEF Inv, Phase, IssuancePhase, OnScreen, Approved, LogAccepts,
                      Bystander, AllFlows
  <2>5. ASSUME c.active = "WalletTransfer" PROVE TransferPhase(d)
    BY <1>4, <2>5 DEF Inv, Phase, TransferPhase, CanGuaranteeMaxEntry, Bystander, AllFlows
  <2>6. ASSUME c.active = "DcApi" PROVE DcApiPhase(d)
    BY <1>4, <2>6 DEF Inv, Phase, DcApiPhase, Bystander, AllFlows
  <2>7. d.active = c.active
    BY DEF Bystander
  <2>. QED
    BY <2>1, <2>2, <2>3, <2>4, <2>5, <2>6, <2>7 DEF Phase
<1>7. d.auditOk /\ \A f \in Replayed : Kept(d, f, gone)
  BY DEF Bystander, Inv, Kept
<1>8. d.log = c.log /\ (Proving(d) => Proving(c))
  BY DEF Bystander, Proving, AllFlows
<1>. QED
  BY <1>2, <1>3, <1>5, <1>6, <1>7, <1>8 DEF Inv

(* The screen may always be closed.                                        *)
LEMMA Closes ==
  ASSUME NEW d, NEW ok, NEW gone
  PROVE  <<Close>> \in Seq(Allowed(d, ok, gone))
<1>1. <<Close>> \in Seq(Quiet) /\ Quiet \subseteq Allowed(d, ok, gone)
  BY ErrorAndCloseQuiet, QuietAllowed
<1>. HIDE DEF Close
<1>. QED
  BY <1>1, SMTT(60)

(* A reader that ends a session ends it whatever the machine does; one     *)
(* that ends a session already over closes nothing else.                   *)
LEMMA ReaderEnds ==
  ASSUME NEW c, NEW ok, NEW gone, Inv(c, ok, gone)
  PROVE  LET r == DriveProximity(c, [type |-> "ReaderTermination"])
         IN  Good(r, ok, gone) /\ Keeps(c, r)
<1>. DEFINE f == "Proximity"
            in == [type |-> "ReaderTermination"]
            n == [Idle EXCEPT !.at = "Terminated"]
            s == ProximityStep(c, in)
            d == Stepped(c, f, s)
            out == <<Close>>
<1>1. in.type = "ReaderTermination"
  BY SMTT(60)
<1>. HIDE DEF in
<1>2. ~Derived(c, in) /\ f \in AllFlows
  BY <1>1 DEF Derived, AllFlows
<1>3. s = To(n, <<"EmitTermination">>)
  BY <1>1 DEF ProximityStep, IsoStep
<1>4. n.at = "Terminated" /\ IsMachine(n)
  BY SMTT(60) DEF Idle, IsMachine, Shown
<1>. HIDE DEF n
<1>5. ASSUME NEW x
      PROVE  /\ TranslateProximity(x, "EmitTermination") = Result(x, out)
             /\ out \in Seq(Allowed(x, ok, gone))
  BY Closes DEF TranslateProximity
<1>6. CASE c.active = f
  <2>1. "Terminated" \in IsoPhases
    BY DEF IsoPhases
  <2>. HIDE DEF s, out
  <2>. QED
    BY <1>2, <1>3, <1>4, <1>5, <1>6, <2>1, ProximityEmits DEF s, in
<1>7. CASE c.active # f
  <2>. HIDE DEF s
  <2>1. s.to = n /\ s.out = <<"EmitTermination">>
    BY <1>3, SMTT(60) DEF To
  <2>2. Only(c, d, "machine") /\ d.machine = [c.machine EXCEPT ![f] = n]
    BY <2>1 DEF Stepped, Inv, CoreType, Only, CoreFields
  <2>. HIDE DEF d
  <2>3. Bystander(c, d)
    <3>1. /\ DOMAIN d = CoreFields /\ d.doc = c.doc
          /\ d.active = c.active /\ d.pending = c.pending /\ d.hash = c.hash
          /\ d.session = c.session /\ d.refs = c.refs /\ d.secrets = c.secrets
          /\ d.auditOk = c.auditOk /\ d.log = c.log /\ d.clock = c.clock
          /\ d.status = c.status /\ d.held = c.held /\ d.seen = c.seen
      BY <2>2 DEF Only, CoreFields
    <3>2. DOMAIN c.machine = AllFlows /\ c.doc \in [Documented -> Shown]
      BY DEF Inv, CoreType
    <3>3. /\ DOMAIN d.machine = AllFlows /\ d.machine[f] = n
          /\ \A g \in AllFlows \ {f} : d.machine[g] = c.machine[g]
      BY <1>2, <2>2, <3>2
    <3>4. n.at \in AtRest
      BY <1>4 DEF AtRest
    <3>. QED
      BY <1>4, <3>1, <3>2, <3>3, <3>4 DEF Bystander
  <2>4. Inv(d, ok, gone) /\ d.log = c.log /\ (Proving(d) => Proving(c))
    BY <1>7, <2>3, BystanderInv
  <2>5. Good(Result(d, out), ok, gone) /\ Keeps(c, Result(d, out))
    BY <1>5, <2>4, Returns
  <2>6. Flat(out)
    BY ErrorAndCloseQuiet, FlatSeq
  <2>. HIDE DEF out
  <2>7. ProximityEffects(d, <<"EmitTermination">>) = Result(d, out)
    BY <1>5, <2>6, ProximityOne, SMTT(60)
  <2>8. DriveProximity(c, in) = Result(d, out)
    BY <1>2, <1>4, <2>1, <2>7 DEF DriveProximity, s, d, ProximityStep, Derived
  <2>. QED
    BY <2>5, <2>8 DEF in
<1>. QED
  BY <1>6, <1>7

(* A document chosen for a session, or a key held for it.                  *)
Choosing(c, x) == [c EXCEPT !.doc["Proximity"] = x]

(* Choosing a document changes nothing else.                               *)
LEMMA Chooses ==
  ASSUME NEW c, NEW f, NEW gone, Base(c, f, gone), NEW x \in Shown
  PROVE  LET d == Choosing(c, x)
         IN  /\ Base(d, f, gone) /\ d.machine = c.machine /\ d.log = c.log
             /\ d.hash = c.hash /\ d.pending = c.pending /\ d.doc["Proximity"] = x
<1>. DEFINE d == Choosing(c, x)
<1>1. Only(c, d, "doc") /\ d.doc = [c.doc EXCEPT !["Proximity"] = x]
  BY DEF Choosing, Base, CoreType, Only, CoreFields
<1>. HIDE DEF d
<1>2. /\ DOMAIN d = CoreFields /\ d.active = c.active /\ d.machine = c.machine
      /\ d.session = c.session /\ d.secrets = c.secrets /\ d.log = c.log
      /\ d.clock = c.clock /\ d.status = c.status /\ d.held = c.held
      /\ d.hash = c.hash /\ d.seen = c.seen /\ d.pending = c.pending
      /\ d.auditOk = c.auditOk
  BY <1>1 DEF Only, CoreFields
<1>3. d.doc \in [Documented -> Shown] /\ d.doc["Proximity"] = x
  <2>1. c.doc \in [Documented -> Shown] /\ "Proximity" \in Documented
    BY DEF Base, CoreType, Documented
  <2>. QED
    BY <1>1, <2>1
<1>4. CoreType(d)
  BY <1>2, <1>3 DEF Base, CoreType
<1>5. Base(d, f, gone)
  BY <1>2, <1>4 DEF Base, OthersRest, Kept
<1>. QED
  BY <1>2, <1>3, <1>5 DEF d

(* What is chosen is the request, or nothing.                              *)
LEMMA SelectedShown ==
  ASSUME NEW c, NEW req \in Requests, NEW matches
  PROVE  Selected(c, req, matches) \in Shown
BY DEF Selected, Shown

(* The reader's request is shown for consent.                              *)
LEMMA ProximityDerived ==
  ASSUME NEW c, NEW ok, NEW gone, Inv(c, ok, gone), c.active = "Proximity", NEW in,
         Derived(c, in), in.req \in Requests
  PROVE  LET r == DriveProximity(c, in)
         IN  Good(r, ok, gone) /\ Keeps(c, r)
<1>. DEFINE f == "Proximity"
            m == c.machine[f]
            n == At(m, "SessionEstablished")
            x == Selected(c, in.req, in.matches)
            k == Choosing(c, x)
            s == ProximityStep(c, in)
            d == Stepped(k, f, s)
            h == Asking(d, f, x)
            out == <<Eff("Consent", f, x)>>
<1>1. f \in AllFlows /\ Base(c, f, gone) /\ f # None /\ x \in Shown /\ m.at = "Engaged"
  BY BaseOfInv, NoneIsNoFlow, SelectedShown DEF AllFlows, Derived
<1>2. IsMachine(m)
  BY <1>1, MachineOfInv
<1>3. s = To(n, <<"RenderConsent">>)
  BY <1>1 DEF ProximityStep, IsoStep, At, Derived
<1>4. n.at = "SessionEstablished" /\ n.req = m.req /\ IsMachine(n)
  BY <1>2, PhaseOnly, SMTT(60)
<1>. HIDE DEF n, s, x
<1>5. s.to = n /\ s.out = <<"RenderConsent">>
  BY <1>3, SMTT(60) DEF To
<1>6. /\ Base(k, f, gone) /\ k.machine = c.machine /\ k.log = c.log
      /\ k.hash = c.hash /\ k.pending = c.pending /\ k.doc[f] = x
  BY <1>1, Chooses
<1>. HIDE DEF k
<1>7. /\ Base(d, f, gone) /\ Alike(k, d) /\ d.hash = k.hash /\ d.seen = k.seen
      /\ d.log = k.log /\ d.machine[f] = s.to
      /\ f # "Issuance" => (Proving(d) <=> Proving(k))
  BY <1>1, <1>4, <1>5, <1>6, Moves, SMTT(60)
<1>. HIDE DEF d
<1>8. d.doc[f] = x /\ d.pending = c.pending /\ d.active = f
  BY <1>6, <1>7 DEF Alike, Base
<1>9. /\ Base(h, f, gone) /\ Alike(d, h)
      /\ h.machine = d.machine /\ h.seen = d.seen /\ h.log = d.log
      /\ h.hash[f] = x
  BY <1>1, <1>7, Raises
<1>10. h.active = f /\ h.doc[f] = x
  BY <1>8, <1>9 DEF Alike
<1>11. Phase(h, ok, gone)
  <2>. HIDE DEF h
  <2>1. ProximityPhase(h, ok)
    BY <1>4, <1>5, <1>7, <1>9, <1>10 DEF ProximityPhase, IsoPhases
  <2>. QED
    BY <1>10, <2>1 DEF Phase
<1>12. \A id \in DOMAIN d.pending : Fits(h, ok, d.pending[id])
  <2>. HIDE DEF h
  <2>1. ASSUME NEW op, Fits(c, ok, op) PROVE Fits(h, ok, op)
    BY <1>1, <1>10, <2>1 DEF Fits
  <2>. QED
    BY <1>8, <2>1 DEF Inv
<1>13. d.machine[f].at # "Engaged"
  BY <1>4, <1>5, <1>7
<1>14. Good(Result(h, out), ok, gone) /\ Keeps(d, Result(h, out))
  BY <1>1, <1>7, <1>11, <1>12, <1>13, AsksOver
<1>15. TranslateProximity(d, "RenderConsent") = Result(h, out)
  BY <1>8 DEF TranslateProximity, Asking
<1>. HIDE DEF h, out
<1>16. Flat(out)
  BY <1>14, GoodFlat
<1>17. ProximityEffects(d, <<"RenderConsent">>) = Result(h, out)
  BY <1>15, <1>16, ProximityOne, SMTT(60)
<1>18. DriveProximity(c, in) = Result(h, out)
  BY <1>4, <1>5, <1>17 DEF DriveProximity, s, d, k, x, ProximityStep, Derived, Choosing
<1>19. Proving(d) => Proving(c)
  BY <1>6, <1>7 DEF Proving
<1>. QED
  BY <1>6, <1>7, <1>14, <1>18, <1>19 DEF Keeps

(* A reader establishes a session: with the keys derived its request is    *)
(* shown, without them the session is over.                                *)
LEMMA ReaderEstablishes ==
  ASSUME NEW c, NEW ok, NEW gone, Inv(c, ok, gone), NEW req \in Requests,
         NEW agrees \in BOOLEAN, NEW matches \in BOOLEAN
  PROVE  LET r == DriveProximity(c, [type |-> "ReaderEstablishment", req |-> req,
                                     agrees |-> agrees, matches |-> matches])
         IN  Good(r, ok, gone) /\ Keeps(c, r)
<1>. DEFINE f == "Proximity"
            in == [type |-> "ReaderEstablishment", req |-> req,
                   agrees |-> agrees, matches |-> matches]
            m == c.machine[f]
            s == ProximityStep(c, in)
            d == Stepped(c, f, s)
            b == ResetFlow(d, f)
<1>1. in.type = "ReaderEstablishment" /\ in.req \in Requests
  BY SMTT(60)
<1>. HIDE DEF in
<1>2. f \in AllFlows /\ CoreType(c)
  BY DEF AllFlows, Inv
<1>3. CASE c.active = f /\ Derived(c, in)
  BY <1>1, <1>3, ProximityDerived DEF in
<1>4. CASE c.active = f /\ ~Derived(c, in) /\ m.at = "Engaged"
  <2>1. s = To(Aborted("ReaderKeyInvalid"), << >>)
    BY <1>1, <1>4 DEF ProximityStep, IsoStep
  <2>2. Base(c, f, gone)
    BY <1>4, BaseOfInv
  <2>. QED
    BY <1>4, <2>1, <2>2, ProximityAborts DEF in
<1>5. CASE c.active = f /\ m.at # "Engaged"
  <2>1. s = To(m, << >>) /\ ~Derived(c, in)
    BY <1>1, <1>5 DEF ProximityStep, IsoStep, Derived
  <2>. QED
    BY <1>5, <2>1, ProximityStays DEF in
<1>6. CASE c.active # f
  <2>1. m.at \in AtRest /\ c.hash[f] = None /\ ~c.secrets /\ IsMachine(m)
    BY <1>2, <1>6, MachineOfInv DEF Inv, OthersRest
  <2>2. s = To(m, << >>) /\ ~Derived(c, in)
    BY <1>1, <2>1 DEF ProximityStep, IsoStep, Derived, AtRest
  <2>. HIDE DEF s, m
  <2>3. s.to = m /\ s.out = << >>
    BY <2>2, SMTT(60) DEF To
  <2>4. Only(c, d, "machine") /\ d.machine = [c.machine EXCEPT ![f] = m]
    BY <1>2, <2>3 DEF Stepped, CoreType, Only, CoreFields
  <2>5. /\ DOMAIN d.machine = AllFlows /\ d.machine[f] = m
        /\ \A g \in AllFlows \ {f} : d.machine[g] = c.machine[g]
    BY <1>2, <2>4 DEF CoreType
  <2>. HIDE DEF d
  <2>6. /\ DOMAIN d = CoreFields /\ d.doc = c.doc
        /\ d.active = c.active /\ d.pending = c.pending /\ d.hash = c.hash
        /\ d.session = c.session /\ d.refs = c.refs /\ d.secrets = c.secrets
        /\ d.auditOk = c.auditOk /\ d.log = c.log /\ d.clock = c.clock
        /\ d.status = c.status /\ d.held = c.held /\ d.seen = c.seen
    BY <2>4 DEF Only, CoreFields
  <2>7. Bystander(c, d)
    BY <1>2, <2>1, <2>5, <2>6 DEF Bystander, CoreType
  <2>8. Inv(d, ok, gone) /\ d.log = c.log /\ (Proving(d) => Proving(c))
    BY <1>6, <2>7, BystanderInv
  <2>9. ProximityEffects(d, << >>) = Result(d, << >>)
    BY ProximityNone
  <2>10. CASE m.at # "Aborted"
    <3>1. DriveProximity(c, in) = Result(d, << >>)
      BY <2>2, <2>3, <2>9, <2>10 DEF DriveProximity, s, d, ProximityStep, Derived
    <3>2. Good(Result(d, << >>), ok, gone) /\ Keeps(c, Result(d, << >>))
      BY <2>8, Silent, Returns
    <3>. QED
      BY <3>1, <3>2 DEF in
  <2>11. CASE m.at = "Aborted"
    <3>1. Result(d, << >>).core = d
      BY SMTT(60) DEF Result
    <3>2. DriveProximity(c, in) = Result(b, <<Close>>)
      BY <2>2, <2>3, <2>9, <2>11, <3>1 DEF DriveProximity, s, d, ProximityStep, Derived
    <3>3. CoreType(d) /\ d.active # f
      BY <1>6, <2>6, <2>8 DEF Inv
    <3>4. Reset(d, f, b) /\ DOMAIN b = CoreFields
      BY <1>2, <3>3, ResetFields
    <3>5. CoreType(b)
      BY <1>2, <3>3, ResetType
    <3>. HIDE DEF b
    <3>6. Bystander(d, b)
      <4>1. /\ b.active = d.active /\ b.session = d.session /\ b.refs = d.refs
            /\ b.machine = [d.machine EXCEPT ![f] = IdleMachine]
            /\ b.hash = [d.hash EXCEPT ![f] = None]
            /\ b.doc = [d.doc EXCEPT ![f] = None] /\ ~b.secrets
        BY <3>3, <3>4 DEF Reset, Documented
      <4>2. /\ b.auditOk = d.auditOk /\ b.log = d.log /\ b.clock = d.clock
            /\ b.status = d.status /\ b.held = d.held /\ b.seen = d.seen
        BY <3>4 DEF Reset
      <4>3. b.hash = d.hash
        <5>1. d.hash \in [AllFlows -> Shown] /\ d.hash[f] = None
          BY <2>1, <2>6, <3>3 DEF CoreType
        <5>. QED
          BY <4>1, <5>1, SMTT(60)
      <4>4. b.secrets = d.secrets
        <5>1. /\ b.secrets \in BOOLEAN /\ d.secrets \in BOOLEAN
              /\ ~b.secrets /\ ~d.secrets
          BY <2>1, <2>6, <3>3, <3>5, <4>1 DEF CoreType
        <5>. QED
          BY <5>1
      <4>5. /\ DOMAIN b.pending = DOMAIN d.pending
            /\ \A id \in DOMAIN d.pending : b.pending[id] = d.pending[id]
        <5>1. ASSUME NEW id \in DOMAIN d.pending PROVE d.pending[id].flow # f
          BY <3>3, <2>8 DEF Inv, Fits
        <5>2. b.pending = [id \in {i \in DOMAIN d.pending : d.pending[i].flow # f} |->
                              d.pending[id]]
          BY <3>4 DEF Reset, ClearPendingOperations
        <5>. QED
          BY <5>1, <5>2
      <4>6. IdleMachine.at = "Idle" /\ IsMachine(IdleMachine)
        BY SMTT(60) DEF IdleMachine, IsMachine, Shown
      <4>7. /\ DOMAIN b.machine = AllFlows /\ b.machine[f] = IdleMachine
            /\ \A g \in AllFlows \ {f} : b.machine[g] = d.machine[g]
        BY <1>2, <3>3, <4>1 DEF CoreType
      <4>8. b.doc \in [Documented -> Shown] /\ b.doc["DcApi"] = d.doc["DcApi"]
        BY <3>3, <3>5, <4>1 DEF CoreType, Documented
      <4>. QED
        BY <3>4, <4>1, <4>2, <4>3, <4>4, <4>5, <4>6, <4>7, <4>8 DEF Bystander, AtRest
    <3>7. Inv(b, ok, gone) /\ b.log = d.log /\ (Proving(b) => Proving(d))
      BY <2>8, <3>3, <3>6, BystanderInv
    <3>8. b.log = c.log /\ (Proving(b) => Proving(c))
      BY <2>8, <3>7
    <3>9. Good(Result(b, <<Close>>), ok, gone) /\ Keeps(c, Result(b, <<Close>>))
      BY <3>7, <3>8, Closes, Returns
    <3>. QED
      BY <3>2, <3>9 DEF in
  <2>. QED
    BY <2>10, <2>11
<1>. QED
  BY <1>3, <1>4, <1>5, <1>6

(* The ephemeral key belongs to the session alone.                         *)
LEMMA Keys ==
  ASSUME NEW c, NEW gone, Base(c, "Proximity", gone)
  PROVE  LET d == [c EXCEPT !.secrets = TRUE]
         IN  /\ Base(d, "Proximity", gone) /\ d.machine = c.machine /\ d.log = c.log
             /\ d.hash = c.hash /\ d.pending = c.pending /\ d.doc = c.doc
<1>. DEFINE d == [c EXCEPT !.secrets = TRUE]
<1>1. Only(c, d, "secrets") /\ d.secrets = TRUE
  BY DEF Base, CoreType, Only, CoreFields
<1>. HIDE DEF d
<1>2. /\ DOMAIN d = CoreFields /\ d.active = c.active /\ d.machine = c.machine
      /\ d.session = c.session /\ d.doc = c.doc /\ d.log = c.log
      /\ d.clock = c.clock /\ d.status = c.status /\ d.held = c.held
      /\ d.hash = c.hash /\ d.seen = c.seen /\ d.pending = c.pending
      /\ d.auditOk = c.auditOk
  BY <1>1 DEF Only, CoreFields
<1>3. CoreType(d)
  <2>1. d.secrets \in BOOLEAN
    BY <1>1
  <2>. QED
    BY <1>2, <2>1, SMTT(60) DEF Base, CoreType
<1>4. Base(d, "Proximity", gone)
  BY <1>2, <1>3 DEF Base, OthersRest, Kept
<1>. QED
  BY <1>2, <1>4 DEF d

(* A session begins.                                                       *)
LEMMA ProximityStart ==
  ASSUME NEW c, NEW ok, NEW gone, Base(c, "Proximity", gone),
         c.machine["Proximity"] = IdleMachine, DOMAIN c.pending = {},
         c.hash["Proximity"] = None, c.doc["Proximity"] = None
  PROVE  LET r == DriveProximity(c, [type |-> "StartEngagement"])
         IN  Good(r, ok, gone) /\ Keeps(c, r)
<1>. DEFINE f == "Proximity"
            in == [type |-> "StartEngagement"]
            m == c.machine[f]
            n == At(m, "Engaged")
            s == ProximityStep(c, in)
            d == Stepped(c, f, s)
            o == "EmitDeviceEngagement"
            out == <<Eff(o, f, None)>>
<1>1. in.type = "StartEngagement" /\ m.at = "Idle" /\ IsMachine(m)
  BY SMTT(60) DEF IdleMachine, IsMachine, Shown
<1>. HIDE DEF in
<1>2. ~Derived(c, in) /\ f \in AllFlows /\ None \in Abouts
  BY <1>1 DEF Derived, AllFlows, Abouts, Shown
<1>3. s = To(n, <<o>>)
  BY <1>1 DEF ProximityStep, IsoStep, At
<1>. HIDE DEF m
<1>4. n.at = "Engaged" /\ n.req = m.req /\ IsMachine(n)
  BY <1>1, PhaseOnly, SMTT(60)
<1>. HIDE DEF n, s
<1>5. s.to = n /\ s.out = <<o>>
  BY <1>3, SMTT(60) DEF To
<1>6. /\ Base(d, f, gone) /\ Alike(c, d) /\ d.hash = c.hash /\ d.seen = c.seen
      /\ d.log = c.log /\ d.machine[f] = s.to
      /\ f # "Issuance" => (Proving(d) <=> Proving(c))
  BY <1>2, <1>4, <1>5, Moves, SMTT(60)
<1>. HIDE DEF d
<1>7. d.doc = c.doc /\ d.pending = c.pending /\ d.active = f
  BY <1>6 DEF Alike, Base
<1>8. Phase(d, ok, gone)
  <2>1. ProximityPhase(d, ok)
    BY <1>4, <1>5, <1>6, <1>7 DEF ProximityPhase, IsoPhases
  <2>. QED
    BY <1>7, <2>1 DEF Phase
<1>9. \A id \in DOMAIN d.pending : Fits(d, ok, d.pending[id])
  BY <1>7
<1>10. out \in Seq(Allowed(d, ok, gone))
  BY <1>2, EmitAllowed
<1>11. TranslateProximity(d, o) = Result(d, out)
  BY DEF TranslateProximity
<1>. HIDE DEF out
<1>12. Good(Result(d, out), ok, gone) /\ Keeps(c, Result(d, out))
  BY <1>6, <1>8, <1>9, <1>10, Advances
<1>13. Flat(out)
  BY <1>12, GoodFlat
<1>14. ProximityEffects(d, <<o>>) = Result(d, out)
  BY <1>11, <1>13, ProximityOne, SMTT(60)
<1>15. DriveProximity(c, in) = Result(d, out)
  BY <1>2, <1>4, <1>5, <1>14 DEF DriveProximity, s, d, ProximityStep, Derived
<1>. QED
  BY <1>12, <1>15 DEF in

(* The holder asks for an engagement.                                      *)
LEMMA Engages ==
  ASSUME NEW c, NEW ok, NEW gone, NEW g \in AllFlows \cup {None}, Base(c, g, gone)
  PROVE  LET r == EngagementRequested(c, TRUE)
         IN  Good(r, ok, gone) /\ Keeps(c, r)
<1>. DEFINE f == "Proximity"
            b == BeginFlow(c, f)
            k == [b EXCEPT !.secrets = TRUE]
            in == [type |-> "StartEngagement"]
<1>1. f \in AllFlows
  BY DEF AllFlows
<1>2. /\ Base(b, f, gone) /\ b.machine[f] = IdleMachine /\ b.hash[f] = None
      /\ DOMAIN b.pending = {} /\ b.log = c.log /\ b.seen = c.seen
      /\ ~Proving(b)
      /\ f = "Presentation" => b.refs = {}
      /\ f \in Documented => b.doc[f] = None
  BY <1>1, BeginBase
<1>. HIDE DEF b
<1>3. /\ Base(k, f, gone) /\ k.machine = b.machine /\ k.log = b.log
      /\ k.hash = b.hash /\ k.pending = b.pending /\ k.doc = b.doc
  BY <1>2, Keys
<1>. HIDE DEF k
<1>4. k.doc[f] = None /\ k.hash[f] = None /\ DOMAIN k.pending = {}
      /\ k.machine[f] = IdleMachine
  BY <1>2, <1>3 DEF Documented
<1>5. Good(DriveProximity(k, in), ok, gone) /\ Keeps(k, DriveProximity(k, in))
  BY <1>3, <1>4, ProximityStart
<1>6. EngagementRequested(c, TRUE) = DriveProximity(k, in)
  BY DEF EngagementRequested, k, b
<1>. QED
  BY <1>2, <1>3, <1>5, <1>6 DEF Keeps, Proving

-----------------------------------------------------------------------------
(* The Digital Credentials API.                                            *)

(* A document offered over the Digital Credentials API.                    *)
Offering(c, x) == [c EXCEPT !.doc["DcApi"] = x, !.hash["DcApi"] = x]

(* Offering it changes nothing else.                                       *)
LEMMA Offers ==
  ASSUME NEW c, NEW gone, Base(c, "DcApi", gone), NEW x \in Shown
  PROVE  LET d == Offering(c, x)
         IN  /\ Base(d, "DcApi", gone) /\ d.machine = c.machine /\ d.log = c.log
             /\ d.pending = c.pending
             /\ d.hash["DcApi"] = x /\ d.doc["DcApi"] = x
<1>. DEFINE f == "DcApi"
            d == Offering(c, x)
<1>1. /\ DOMAIN d = CoreFields /\ \A j \in CoreFields \ {"doc", "hash"} : d[j] = c[j]
      /\ d.doc = [c.doc EXCEPT ![f] = x] /\ d.hash = [c.hash EXCEPT ![f] = x]
  BY DEF Offering, Base, CoreType, CoreFields
<1>. HIDE DEF d
<1>2. /\ DOMAIN d = CoreFields /\ d.active = c.active /\ d.machine = c.machine
      /\ d.session = c.session /\ d.secrets = c.secrets /\ d.log = c.log
      /\ d.clock = c.clock /\ d.status = c.status /\ d.held = c.held
      /\ d.seen = c.seen /\ d.pending = c.pending /\ d.auditOk = c.auditOk
  BY <1>1 DEF CoreFields
<1>3. /\ c.doc \in [Documented -> Shown] /\ f \in Documented
      /\ c.hash \in [AllFlows -> Shown] /\ f \in AllFlows
  BY DEF Base, CoreType, Documented, AllFlows
<1>4. /\ d.doc \in [Documented -> Shown] /\ d.doc[f] = x
      /\ d.hash \in [AllFlows -> Shown] /\ d.hash[f] = x
      /\ \A g \in AllFlows \ {f} : d.hash[g] = c.hash[g]
  BY <1>1, <1>3
<1>5. CoreType(d)
  BY <1>2, <1>4, SMTT(60) DEF Base, CoreType
<1>6. Base(d, f, gone)
  BY <1>2, <1>4, <1>5 DEF Base, OthersRest, Kept
<1>. QED
  BY <1>2, <1>4, <1>6 DEF d

(* A request arrives over the Digital Credentials API.                     *)
LEMMA DcApiRequested ==
  ASSUME NEW c, NEW ok, NEW gone, NEW g \in AllFlows \cup {None}, Base(c, g, gone),
         NEW req \in Requests, NEW matches \in BOOLEAN
  PROVE  LET r == DcApiRequestReceived(c, req, matches)
         IN  Good(r, ok, gone) /\ Keeps(c, r)
<1>. DEFINE f == "DcApi"
            b == BeginFlow(c, f)
            x == Selected(c, req, matches)
            d == Offering(b, x)
            k == "Consent"
            out == <<Eff(k, f, x)>>
<1>1. f \in AllFlows
  BY DEF AllFlows
<1>2. x \in Shown
  BY SelectedShown
<1>. HIDE DEF x
<1>3. /\ Base(b, f, gone) /\ b.machine[f] = IdleMachine /\ b.hash[f] = None
      /\ DOMAIN b.pending = {} /\ b.log = c.log /\ b.seen = c.seen
      /\ ~Proving(b)
      /\ f = "Presentation" => b.refs = {}
      /\ f \in Documented => b.doc[f] = None
  BY <1>1, BeginBase
<1>. HIDE DEF b
<1>4. CASE x = None
  <2>. DEFINE r == Result(ResetFlow(b, f), <<Close>>)
  <2>1. Good(r, ok, gone) /\ Keeps(b, r)
    BY <1>1, <1>3, ErrorAndCloseQuiet, ResetGood
  <2>2. DcApiRequestReceived(c, req, matches) = r
    BY <1>4 DEF DcApiRequestReceived, x, b
  <2>. HIDE DEF r
  <2>. QED
    BY <1>3, <2>1, <2>2 DEF Keeps
<1>5. CASE x # None
  <2>1. /\ Base(d, f, gone) /\ d.machine = b.machine /\ d.log = b.log
        /\ d.pending = b.pending /\ d.hash[f] = x /\ d.doc[f] = x
    BY <1>2, <1>3, Offers
  <2>2. DcApiRequestReceived(c, req, matches) = Result(d, out)
    BY <1>5 DEF DcApiRequestReceived, x, b, Offering
  <2>. HIDE DEF d
  <2>3. d.active = f /\ x \in Abouts /\ f # None
    BY <1>1, <1>2, <2>1, NoneIsNoFlow DEF Base, Abouts
  <2>4. Phase(d, ok, gone)
    <3>1. IdleMachine.at \in AtRest
      BY DEF IdleMachine, AtRest
    <3>. QED
      BY <1>3, <2>1, <2>3, <3>1 DEF Phase, DcApiPhase
  <2>5. ResultOf[k] = "Decision" /\ k \in DOMAIN ResultOf /\ k \notin Consequential
    BY DEF ResultOf, Consequential
  <2>6. Fits(d, ok, [flow |-> f, result |-> ResultOf[k], about |-> x])
    BY <2>1, <2>3, <2>5 DEF Fits
  <2>7. out \in Seq(Allowed(d, ok, gone))
    BY <1>1, <2>3, <2>5, <2>6, EffAllowed
  <2>8. \A id \in DOMAIN d.pending : Fits(d, ok, d.pending[id])
    BY <1>3, <2>1
  <2>9. Proving(d) => Proving(c)
    BY <1>3, <2>1 DEF Proving
  <2>10. d.log = c.log
    BY <1>3, <2>1
  <2>. HIDE DEF out
  <2>11. Good(Result(d, out), ok, gone) /\ Keeps(c, Result(d, out))
    BY <2>1, <2>4, <2>7, <2>8, <2>9, <2>10, Advances
  <2>. QED
    BY <2>2, <2>11
<1>. QED
  BY <1>4, <1>5

(* The holder consents: the document on the screen is to be signed.        *)
LEMMA DcApiConsented ==
  ASSUME NEW c, NEW ok, NEW gone, Inv(c, ok, gone), c.active = "DcApi",
         c.hash["DcApi"] \in ok
  PROVE  LET r == DcApiConsentGranted(c)
         IN  Good(r, ok, gone) /\ Keeps(c, r)
<1>. DEFINE f == "DcApi"
            x == c.doc[f]
            k == "Sign"
            out == <<Eff(k, f, x)>>
<1>1. f \in AllFlows /\ Base(c, f, gone) /\ f # None
  BY BaseOfInv, NoneIsNoFlow DEF AllFlows
<1>2. x \in ok /\ x \in Abouts
  BY DEF Inv, Phase, DcApiPhase, CoreType, Documented, Abouts
<1>3. CASE x = None
  <2>1. LET r == Result(ResetFlow(c, f), <<Close>>) IN Good(r, ok, gone) /\ Keeps(c, r)
    BY <1>1, ErrorAndCloseQuiet, ResetGood
  <2>. QED
    BY <1>3, <2>1 DEF DcApiConsentGranted
<1>4. CASE x # None
  <2>1. ResultOf[k] = "Signature" /\ k \in DOMAIN ResultOf
    BY DEF ResultOf
  <2>2. Fits(c, ok, [flow |-> f, result |-> ResultOf[k], about |-> x])
    BY <1>1, <1>2, <2>1 DEF Fits
  <2>3. out \in Seq(Allowed(c, ok, gone))
    BY <1>1, <1>2, <2>1, <2>2, EffAllowed
  <2>4. DcApiConsentGranted(c) = Result(c, out)
    BY <1>4 DEF DcApiConsentGranted
  <2>. HIDE DEF out
  <2>5. Good(Result(c, out), ok, gone) /\ Keeps(c, Result(c, out))
    BY <2>3, Returns
  <2>. QED
    BY <2>4, <2>5
<1>. QED
  BY <1>3, <1>4

(* A signature is made only over the document approved.                    *)
LEMMA DcApiSigned ==
  ASSUME NEW c, NEW ok, NEW gone, Inv(c, ok, gone), c.active = "DcApi",
         c.doc["DcApi"] \in ok
  PROVE  LET r == DcApiSignatureProduced(c)
         IN  Good(r, ok, gone) /\ Keeps(c, r)
<1>. DEFINE f == "DcApi"
            x == c.doc[f]
            k == "EmitDcApiResponse"
            b == FinishFlow(c, f)
            out == <<IF x = None THEN Close ELSE Eff(k, f, x)>>
<1>1. /\ f \in AllFlows /\ Base(c, f, gone) /\ x \in Abouts
      /\ c.machine[f].at \in AtRest
  <2>1. CoreType(c) /\ Phase(c, ok, gone)
    BY DEF Inv
  <2>2. x \in Shown
    BY <2>1 DEF CoreType, Documented
  <2>. QED
    BY <2>1, <2>2, BaseOfInv DEF AllFlows, Phase, DcApiPhase, Abouts
<1>2. /\ Base(b, None, gone) /\ b.log = c.log
      /\ \A g \in AllFlows : b.machine[g] = c.machine[g]
  BY <1>1, FinishBase
<1>3. DcApiSignatureProduced(c) = Result(b, out)
  BY DEF DcApiSignatureProduced
<1>. HIDE DEF b
<1>4. Inv(b, ok, gone)
  BY <1>2, Rest
<1>5. out \in Seq(Allowed(b, ok, gone))
  <2>1. <<Eff(k, f, x)>> \in Seq(Allowed(b, ok, gone))
    BY <1>1, EmitAllowed
  <2>. QED
    BY <2>1, Closes
<1>6. Proving(b) => Proving(c)
  BY <1>2 DEF Proving, AllFlows
<1>. HIDE DEF out
<1>7. Good(Result(b, out), ok, gone) /\ Keeps(c, Result(b, out))
  BY <1>2, <1>4, <1>5, <1>6, Returns
<1>. QED
  BY <1>3, <1>7

-----------------------------------------------------------------------------
(* The events of an in-person presentation.                                *)
LEMMA RequestEngagementStep ==
  ASSUME Inv(core, approved, spent), RequestEngagement
  PROVE  Turn /\ LogTurn
<1>1. CASE Start("Proximity", EngagementRequested(core, TRUE))
  <2>. DEFINE r == EngagementRequested(core, TRUE)
  <2>1. Base(core, core.active, spent) /\ core.active \in AllFlows \cup {None}
    BY BaseOfInv DEF Inv, CoreType
  <2>2. Good(r, {}, spent) /\ Keeps(core, r)
    BY <2>1, Engages
  <2>. QED
    BY <1>1, <2>2, StartTurn
<1>2. CASE Event(EngagementRequested(core, FALSE))
  <2>. DEFINE r == Result(core, <<Close>>)
  <2>1. EngagementRequested(core, FALSE) = r
    BY DEF EngagementRequested
  <2>2. Good(r, approved, spent) /\ Keeps(core, r)
    BY Closes, Returns
  <2>. QED
    BY <1>2, <2>1, <2>2, EventTurn
<1>. QED
  BY <1>1, <1>2 DEF RequestEngagement

(* A reader answers the engagement.                                        *)
LEMMA ReaderEstablishmentStep ==
  ASSUME Inv(core, approved, spent), ReaderEstablishment
  PROVE  Turn /\ LogTurn
<1>1. PICK req \in Requests, agrees \in BOOLEAN, matches \in BOOLEAN :
        Event(DriveProximity(core, [type |-> "ReaderEstablishment", req |-> req,
                                    agrees |-> agrees, matches |-> matches]))
  BY DEF ReaderEstablishment
<1>. DEFINE r == DriveProximity(core, [type |-> "ReaderEstablishment", req |-> req,
                                       agrees |-> agrees, matches |-> matches])
<1>2. Good(r, approved, spent) /\ Keeps(core, r)
  BY ReaderEstablishes
<1>. QED
  BY <1>1, <1>2, EventTurn

(* A reader ends the session.                                              *)
LEMMA ReaderTerminationStep ==
  ASSUME Inv(core, approved, spent), ReaderTermination
  PROVE  Turn /\ LogTurn
<1>. DEFINE r == DriveProximity(core, [type |-> "ReaderTermination"])
<1>1. Event(r)
  BY DEF ReaderTermination
<1>2. Good(r, approved, spent) /\ Keeps(core, r)
  BY ReaderEnds
<1>. QED
  BY <1>1, <1>2, EventTurn

(* A request arrives over the Digital Credentials API.                     *)
LEMMA ReceiveDcApiRequestStep ==
  ASSUME Inv(core, approved, spent), ReceiveDcApiRequest
  PROVE  Turn /\ LogTurn
<1>1. PICK req \in Requests, matches \in BOOLEAN :
        Start("DcApi", DcApiRequestReceived(core, req, matches))
  BY DEF ReceiveDcApiRequest
<1>. DEFINE r == DcApiRequestReceived(core, req, matches)
<1>2. Base(core, core.active, spent) /\ core.active \in AllFlows \cup {None}
  BY BaseOfInv DEF Inv, CoreType
<1>3. Good(r, {}, spent) /\ Keeps(core, r)
  BY <1>2, DcApiRequested
<1>. QED
  BY <1>1, <1>3, StartTurn

=============================================================================
