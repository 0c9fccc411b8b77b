------------------------- MODULE TransactionProofs --------------------------
(***************************************************************************)
(* Payment, issuance, qualified signature and wallet-to-wallet transfer    *)
(* keep the wallet core in order: what each result of the four machines    *)
(* leads to, and each of their events.                                     *)
(***************************************************************************)
EXTENDS WalletInvariant

(* Zenon proves a leaf unless the leaf cites SMT.                          *)
USE ZenonT(60)

(* No output has no effect;                                                *)
LEMMA PaymentNone ==
  ASSUME NEW c
  PROVE  PaymentEffects(c, << >>) = Result(c, << >>)
BY SMTT(60) DEF PaymentEffects, Translated, Result

(* one output has the effects it translates to;                            *)
LEMMA PaymentOne ==
  ASSUME NEW c, NEW a, NEW d, NEW out, Flat(out),
         TranslatePayment(c, a) = Result(d, out)
  PROVE  PaymentEffects(c, <<a>>) = Result(d, out)
BY SMTT(60) DEF PaymentEffects, Translated, Result, Flat

(* the Close that follows the output of an authorized payment adds none.   *)
LEMMA PaymentTwo ==
  ASSUME NEW c, NEW a, NEW b, NEW d, NEW out, Flat(out),
         TranslatePayment(c, a) = Result(d, out),
         TranslatePayment(d, b) = Result(d, << >>)
  PROVE  PaymentEffects(c, <<a, b>>) = Result(d, out)
<1>1. /\ TranslatePayment(c, a).core = d /\ TranslatePayment(c, a).out = out
      /\ TranslatePayment(d, b).core = d /\ TranslatePayment(d, b).out = << >>
  BY SMTT(60) DEF Result
<1>2. (<< >> \o out) \o << >> = out
  BY DEF Flat
<1>. DEFINE t == TranslatePayment(c, a)
            u == TranslatePayment(t.core, b)
<1>3. PaymentEffects(c, <<a, b>>) = Result(u.core, (<< >> \o t.out) \o u.out)
  BY SMTT(60) DEF PaymentEffects, Translated, Result
<1>. QED
  BY <1>1, <1>2, <1>3

(* A payment the machine aborts is reset.                                  *)
LEMMA PaymentAborts ==
  ASSUME NEW c, NEW gone, NEW ok, Base(c, "Payment", gone), NEW why,
         NEW in, NEW out \in {<< >>, <<"Close">>},
         PayStep(c.machine["Payment"], in, [seen |-> c.seen["Payment"]])
         = To(Aborted(why), out)
  PROVE  Good(DrivePayment(c, in), ok, gone) /\ Keeps(c, DrivePayment(c, in))
<1>. DEFINE f == "Payment"
            s == PayStep(c.machine[f], in, [seen |-> c.seen[f]])
            d == Stepped(c, f, s)
<1>0. s.out = out /\ s.to = Aborted(why)
  BY SMTT(60) DEF To
<1>1. s.out = out /\ s.to.at = "Aborted" /\ s.to.why = why /\ IsMachine(s.to)
  <2>1. LET m == Aborted(why) IN m.at = "Aborted" /\ m.why = why /\ IsMachine(m)
    BY SMTT(60) DEF Aborted, Idle, IsMachine, Shown
  <2>. QED
    BY <1>0, <2>1
<1>2. f \in AllFlows
  BY DEF AllFlows
<1>. HIDE DEF s
<1>3. /\ Base(d, f, gone) /\ d.log = c.log /\ d.machine[f] = s.to
      /\ f # "Issuance" => (Proving(d) <=> Proving(c))
  BY <1>1, <1>2, Moves, SMTT(60)
<1>. HIDE DEF d
<1>4. SpendPaymentNonce(d) = d
  BY <1>1, <1>3 DEF SpendPaymentNonce
<1>5. PaymentEffects(d, out).core = d
  <2>1. CASE out = << >>
    <3>1. PaymentEffects(d, << >>) = Result(d, << >>)
      BY PaymentNone
    <3>. QED
      BY <2>1, <3>1, SMTT(60) DEF Result
  <2>2. CASE out = <<"Close">>
    <3>1. TranslatePayment(d, "Close") = Result(d, <<Close>>)
      BY <1>1, <1>3 DEF TranslatePayment
    <3>2. Flat(<<Close>>)
      BY ErrorAndCloseQuiet, FlatSeq
    <3>3. PaymentEffects(d, <<"Close">>) = Result(d, <<Close>>)
      BY <3>1, <3>2, PaymentOne, SMTT(60)
    <3>. QED
      BY <2>2, <3>3, SMTT(60) DEF Result
  <2>. QED
    BY <2>1, <2>2
<1>6. DrivePayment(c, in) = Result(ResetFlow(d, f), Ends(why))
  BY <1>1, <1>4, <1>5 DEF DrivePayment, s, d
<1>7. Ends(why) \in Seq(Quiet)
  BY ErrorAndCloseQuiet DEF Ends
<1>8. /\ Good(Result(ResetFlow(d, f), Ends(why)), ok, gone)
      /\ Keeps(d, Result(ResetFlow(d, f), Ends(why)))
  BY <1>2, <1>3, <1>7, ResetGood
<1>. QED
  BY <1>3, <1>6, <1>8 DEF Keeps

(* A payment request arrives: it is refused, or its confirmation is shown  *)
(* once the log has room for its entry.                                    *)
LEMMA PaymentStart ==
  ASSUME NEW c, NEW gone, NEW ok, Base(c, "Payment", gone),
         c.machine["Payment"] = IdleMachine, DOMAIN c.pending = {},
         NEW parsed \in BOOLEAN, NEW req \in Requests
  PROVE  LET r == DrivePayment(c, [type |-> "PaymentAuthorizationRequest",
                                   parsed |-> parsed, req |-> req])
         IN  Good(r, ok, gone) /\ Keeps(c, r)
<1>. DEFINE f == "Payment"
            in == [type |-> "PaymentAuthorizationRequest", parsed |-> parsed, req |-> req]
            s == PayStep(c.machine[f], in, [seen |-> c.seen[f]])
            m == [c.machine[f] EXCEPT !.at = "AwaitingConfirmation", !.req = req]
            d == Stepped(c, f, s)
            h == Asking(d, f, req)
            out == <<Eff("Consent", f, req)>>
<1>1. /\ c.machine[f].at = "Idle" /\ in.type = "PaymentAuthorizationRequest"
      /\ in.parsed = parsed /\ in.req = req
  BY SMTT(60) DEF IdleMachine
<1>2. f \in AllFlows /\ f \in Replayed /\ req \in Shown
  BY DEF AllFlows, Replayed, Shown
<1>. HIDE DEF in
<1>3. CASE ~parsed
  <2>1. s = To(Aborted("MalformedRequest"), << >>)
    BY <1>1, <1>3 DEF PayStep
  <2>. QED
    BY <2>1, PaymentAborts DEF in
<1>4. CASE parsed /\ NonceOf[req] \in c.seen[f]
  <2>1. s = To(Aborted("NonceReplayed"), << >>)
    BY <1>1, <1>4 DEF PayStep
  <2>. QED
    BY <2>1, PaymentAborts DEF in
<1>5. CASE parsed /\ NonceOf[req] \notin c.seen[f]
  <2>1. s = To(m, <<"RenderPaymentConfirmation">>)
    BY <1>1, <1>5 DEF PayStep
  <2>2. /\ s.to.at = "AwaitingConfirmation" /\ s.to.req = req /\ IsMachine(s.to)
        /\ s.out = <<"RenderPaymentConfirmation">>
    <3>1. m.at = "AwaitingConfirmation" /\ m.req = req /\ IsMachine(m)
      BY <1>2, SMTT(60) DEF IdleMachine, IsMachine
    <3>2. s.to = m /\ s.out = <<"RenderPaymentConfirmation">>
      BY <2>1, SMTT(60) DEF To
    <3>. HIDE DEF s, m
    <3>. QED
      BY <3>1, <3>2
  <2>. HIDE DEF s
  <2>3. /\ Base(d, f, gone) /\ Alike(c, d) /\ d.log = c.log /\ d.machine[f] = s.to
        /\ f # "Issuance" => (Proving(d) <=> Proving(c))
    BY <1>2, <2>2, Moves, SMTT(60)
  <2>. HIDE DEF d
  <2>4. SpendPaymentNonce(d) = d
    BY <2>2, <2>3 DEF SpendPaymentNonce
  <2>5. ASSUME NEW e, NEW o, Flat(o),
               TranslatePayment(d, "RenderPaymentConfirmation") = Result(e, o)
        PROVE  DrivePayment(c, in) = Result(e, o)
    <3>1. PaymentEffects(d, <<"RenderPaymentConfirmation">>) = Result(e, o)
      BY <2>5, PaymentOne, SMTT(60)
    <3>. QED
      BY <2>2, <2>4, <3>1 DEF DrivePayment, s, d
  <2>6. CASE ~CheckAuditEntry(d, req)
    <3>. DEFINE r == TerminateAuditedFlow(d, f)
    <3>1. TranslatePayment(d, "RenderPaymentConfirmation") = r
      BY <2>2, <2>3, <2>6 DEF TranslatePayment
    <3>2. Good(r, ok, gone) /\ Keeps(d, r)
      BY <1>2, <2>3, TerminateGood
    <3>3. r = Result(r.core, r.out)
      BY SMTT(60) DEF TerminateAuditedFlow, Result
    <3>. HIDE DEF r
    <3>4. Flat(r.out)
      BY <3>2, FlatSeq DEF Good
    <3>5. DrivePayment(c, in) = r
      BY <2>5, <3>1, <3>3, <3>4
    <3>. QED
      BY <2>3, <3>2, <3>5 DEF Keeps, in
  <2>7. CASE CheckAuditEntry(d, req)
    <3>1. TranslatePayment(d, "RenderPaymentConfirmation") = Result(h, out)
      BY <2>2, <2>3, <2>7 DEF TranslatePayment, Asking
    <3>2. Base(h, f, gone) /\ Alike(d, h) /\ h.machine = d.machine /\ h.log = d.log
          /\ h.hash[f] = req
      BY <1>2, <2>3, Raises, SMTT(60)
    <3>3. Phase(h, ok, gone)
      <4>. HIDE DEF h
      <4>1. h.active = f /\ h.machine = d.machine /\ h.log = d.log
        BY <3>2 DEF Base
      <4>2. Unspent(h, f, gone)
        BY <1>2, <1>5, <2>2, <2>3, <4>1 DEF Unspent, Base, Kept
      <4>3. LogAccepts(h, req)
        BY <2>7, <4>1 DEF CheckAuditEntry, LogAccepts
      <4>4. PaymentPhase(h, ok, gone)
        BY <2>2, <2>3, <3>2, <4>1, <4>2, <4>3 DEF PaymentPhase, OnScreen
      <4>. QED
        BY <4>1, <4>4 DEF Phase
    <3>4. DOMAIN d.pending = {}
      BY <2>3 DEF Alike
    <3>5. Good(Result(h, out), ok, gone) /\ Keeps(d, Result(h, out))
      BY <1>2, <2>3, <3>3, <3>4, Asks
    <3>. HIDE DEF h, out
    <3>6. Flat(out)
      BY <3>5, GoodFlat
    <3>7. DrivePayment(c, in) = Result(h, out)
      BY <2>5, <3>1, <3>6
    <3>. QED
      BY <2>3, <3>5, <3>7 DEF Keeps, in
  <2>. QED
    BY <2>6, <2>7
<1>. QED
  BY <1>3, <1>4, <1>5

(* A result the payment machine does not expect changes nothing but the    *)
(* replay set.                                                             *)
LEMMA PaymentStays ==
  ASSUME NEW c, NEW ok, NEW gone, Inv(c, ok, gone), c.active = "Payment", NEW in,
         PayStep(c.machine["Payment"], in, [seen |-> c.seen["Payment"]])
         = To(c.machine["Payment"], << >>)
  PROVE  Good(DrivePayment(c, in), ok, gone) /\ Keeps(c, DrivePayment(c, in))
<1>. DEFINE f == "Payment"
            s == PayStep(c.machine[f], in, [seen |-> c.seen[f]])
            m == c.machine[f]
            d == Stepped(c, f, s)
            g == Used(d, f, NonceOf[m.req])
            e == SpendPaymentNonce(d)
<1>1. s.to = m /\ s.out = << >>
  BY SMTT(60) DEF To
<1>2. /\ f \in AllFlows /\ f \in Replayed /\ Base(c, f, gone)
      /\ PaymentPhase(c, ok, gone)
  BY BaseOfInv DEF AllFlows, Replayed, Inv, Phase
<1>3. m.at # "Aborted" /\ IsMachine(m)
  BY <1>2, MachineOfInv DEF PaymentPhase
<1>. HIDE DEF s, m
<1>4. /\ Base(d, f, gone) /\ Alike(c, d) /\ d.hash = c.hash /\ d.seen = c.seen
      /\ d.log = c.log /\ d.machine[f] = m
      /\ f # "Issuance" => (Proving(d) <=> Proving(c))
  BY <1>1, <1>2, <1>3, Moves, SMTT(60)
<1>. HIDE DEF d
<1>5. SeenMore(c, d)
  BY <1>4 DEF SeenMore
<1>6. Inv(d, ok, gone) /\ d.active = f
  BY <1>2, <1>4, <1>5, FrameInv DEF m, Alike
<1>7. /\ Base(g, f, gone) /\ Alike(d, g) /\ g.machine = d.machine
      /\ g.hash = d.hash /\ g.log = d.log /\ SeenMore(d, g)
  BY <1>2, <1>4, Uses, SMTT(60)
<1>8. e \in {d, g}
  BY <1>4 DEF SpendPaymentNonce, Used
<1>. HIDE DEF g, e
<1>9. Inv(g, ok, gone)
  BY <1>2, <1>6, <1>7, FrameInv
<1>10. Inv(e, ok, gone) /\ e.log = c.log /\ (Proving(e) => Proving(c))
  BY <1>4, <1>6, <1>7, <1>8, <1>9 DEF Proving
<1>11. Good(Result(e, << >>), ok, gone) /\ Keeps(c, Result(e, << >>))
  BY <1>10, Silent, Returns
<1>12. PaymentEffects(e, << >>) = Result(e, << >>)
  BY PaymentNone
<1>13. DrivePayment(c, in) = Result(e, << >>)
  BY <1>1, <1>3, <1>12 DEF DrivePayment, s, d, e
<1>. QED
  BY <1>11, <1>13

(* The holder approves: the authentication code is to be signed.           *)
LEMMA PaymentApproved ==
  ASSUME NEW c, NEW ok, NEW gone, Inv(c, ok, gone), c.active = "Payment",
         c.hash["Payment"] \in ok
  PROVE  LET r == DrivePayment(c, [type |-> "UserApproved"])
         IN  Good(r, ok, gone) /\ Keeps(c, r)
<1>. DEFINE f == "Payment"
            in == [type |-> "UserApproved"]
            s == PayStep(c.machine[f], in, [seen |-> c.seen[f]])
            d == Stepped(c, f, s)
            req == c.machine[f].req
            out == <<Eff("Sign", f, req)>>
<1>1. in.type = "UserApproved"
  OBVIOUS
<1>. HIDE DEF in
<1>2. CASE c.machine[f].at # "AwaitingConfirmation"
  <2>1. s = To(c.machine[f], << >>)
    BY <1>1, <1>2 DEF PayStep
  <2>. QED
    BY <2>1, PaymentStays DEF in
<1>3. CASE c.machine[f].at = "AwaitingConfirmation"
  <2>1. s = To(At(c.machine[f], "AwaitingSca"), <<"SignAuthCode">>)
    BY <1>1, <1>3 DEF PayStep, At
  <2>2. /\ f \in AllFlows /\ f # None /\ Base(c, f, gone) /\ PaymentPhase(c, ok, gone)
    BY BaseOfInv, NoneIsNoFlow DEF AllFlows, Inv, Phase
  <2>3. IsMachine(c.machine[f])
    BY <2>2, MachineOfInv
  <2>. HIDE DEF s
  <2>4. s.to = At(c.machine[f], "AwaitingSca") /\ s.out = <<"SignAuthCode">>
    BY <2>1, SMTT(60) DEF To
  <2>5. s.to.at = "AwaitingSca" /\ s.to.req = req /\ IsMachine(s.to)
    BY <2>3, <2>4, PhaseOnly, SMTT(60)
  <2>6. /\ Base(d, f, gone) /\ Alike(c, d) /\ d.hash = c.hash /\ d.seen = c.seen
        /\ d.log = c.log /\ d.machine[f] = s.to
        /\ f # "Issuance" => (Proving(d) <=> Proving(c))
    BY <2>2, <2>5, Moves, SMTT(60)
  <2>. HIDE DEF d
  <2>7. d.active = f /\ d.pending = c.pending
    BY <2>6 DEF Alike
  <2>8. req = c.hash[f] /\ req \in ok /\ req \in Abouts
    BY <2>2 DEF PaymentPhase, OnScreen, Base, CoreType, Abouts
  <2>9. PaymentPhase(d, ok, gone)
    BY <1>3, <2>2, <2>5, <2>6, <2>8
       DEF PaymentPhase, OnScreen, Approved, Unspent, LogAccepts
  <2>10. Phase(d, ok, gone)
    BY <2>7, <2>9 DEF Phase
  <2>11. \A id \in DOMAIN d.pending : Fits(d, ok, d.pending[id])
    <3>1. ASSUME NEW op, Fits(c, ok, op) PROVE Fits(d, ok, op)
      BY <1>3, <2>6, <2>7, <3>1 DEF Fits
    <3>. QED
      BY <2>7, <3>1 DEF Inv
  <2>12. ResultOf["Sign"] = "Signature" /\ "Sign" \in DOMAIN ResultOf
    BY DEF ResultOf
  <2>13. Fits(d, ok, [flow |-> f, result |-> ResultOf["Sign"], about |-> req])
    BY <2>2, <2>7, <2>12 DEF Fits
  <2>14. out \in Seq(Allowed(d, ok, gone))
    BY <2>2, <2>7, <2>8, <2>12, <2>13, EffAllowed
  <2>15. SpendPaymentNonce(d) = d
    BY <2>5, <2>6 DEF SpendPaymentNonce
  <2>16. TranslatePayment(d, "SignAuthCode") = Result(d, out)
    BY <2>5, <2>6 DEF TranslatePayment
  <2>. HIDE DEF out
  <2>17. Good(Result(d, out), ok, gone) /\ Keeps(c, Result(d, out))
    BY <2>6, <2>10, <2>11, <2>14, Advances
  <2>18. PaymentEffects(d, <<"SignAuthCode">>) = Result(d, out)
    BY <2>16, <2>17, GoodFlat, PaymentOne, SMTT(60)
  <2>19. DrivePayment(c, in) = Result(d, out)
    BY <2>4, <2>5, <2>15, <2>18 DEF DrivePayment, s, d
  <2>. QED
    BY <2>17, <2>19 DEF in
<1>. QED
  BY <1>2, <1>3

(* The holder declines: the payment is over.                               *)
LEMMA PaymentDeclined ==
  ASSUME NEW c, NEW ok, NEW gone, Inv(c, ok, gone), c.active = "Payment"
  PROVE  LET r == DrivePayment(c, [type |-> "UserDeclined"])
         IN  Good(r, ok, gone) /\ Keeps(c, r)
<1>. DEFINE f == "Payment"
            in == [type |-> "UserDeclined"]
            s == PayStep(c.machine[f], in, [seen |-> c.seen[f]])
<1>1. in.type = "UserDeclined"
  OBVIOUS
<1>. HIDE DEF in
<1>2. CASE c.machine[f].at # "AwaitingConfirmation"
  <2>1. s = To(c.machine[f], << >>)
    BY <1>1, <1>2 DEF PayStep
  <2>. QED
    BY <2>1, PaymentStays DEF in
<1>3. CASE c.machine[f].at = "AwaitingConfirmation"
  <2>1. s = To(Aborted("UserDeclined"), <<"Close">>)
    BY <1>1, <1>3 DEF PayStep
  <2>2. Base(c, f, gone)
    BY BaseOfInv
  <2>. QED
    BY <2>1, <2>2, PaymentAborts DEF in
<1>. QED
  BY <1>2, <1>3

(* The code is signed: the authorization is sent and its nonce spent.      *)
LEMMA PaymentSigned ==
  ASSUME NEW c, NEW ok, NEW gone, Inv(c, ok, gone), c.active = "Payment"
  PROVE  LET r == DrivePayment(c, [type |-> "AuthCodeSignatureProduced"])
         IN  Good(r, ok, gone) /\ Keeps(c, r)
<1>. DEFINE f == "Payment"
            in == [type |-> "AuthCodeSignatureProduced"]
            s == PayStep(c.machine[f], in, [seen |-> c.seen[f]])
            d == Stepped(c, f, s)
            req == c.machine[f].req
            g == Used(d, f, NonceOf[req])
            out == <<Eff("Http", f, req)>>
<1>1. in.type = "AuthCodeSignatureProduced"
  OBVIOUS
<1>. HIDE DEF in
<1>2. CASE c.machine[f].at # "AwaitingSca"
  <2>1. s = To(c.machine[f], << >>)
    BY <1>1, <1>2 DEF PayStep
  <2>. QED
    BY <2>1, PaymentStays DEF in
<1>3. CASE c.machine[f].at = "AwaitingSca"
  <2>1. s = To(At(c.machine[f], "Authorized"), <<"SendAuthorization", "Close">>)
    BY <1>1, <1>3 DEF PayStep, At
  <2>2. /\ f \in AllFlows /\ f # None /\ f \in Replayed
        /\ Base(c, f, gone) /\ PaymentPhase(c, ok, gone)
    BY BaseOfInv, NoneIsNoFlow DEF AllFlows, Replayed, Inv, Phase
  <2>3. IsMachine(c.machine[f])
    BY <2>2, MachineOfInv
  <2>. HIDE DEF s
  <2>4. /\ s.to = At(c.machine[f], "Authorized")
        /\ s.out = <<"SendAuthorization", "Close">>
    BY <2>1, SMTT(60) DEF To
  <2>5. s.to.at = "Authorized" /\ s.to.req = req /\ IsMachine(s.to)
    BY <2>3, <2>4, PhaseOnly, SMTT(60)
  <2>6. /\ Base(d, f, gone) /\ Alike(c, d) /\ d.hash = c.hash /\ d.seen = c.seen
        /\ d.log = c.log /\ d.machine[f] = s.to
        /\ f # "Issuance" => (Proving(d) <=> Proving(c))
    BY <2>2, <2>5, Moves, SMTT(60)
  <2>. HIDE DEF d
  <2>7. /\ Base(g, f, gone) /\ Alike(d, g) /\ g.machine = d.machine
        /\ g.hash = d.hash /\ g.log = d.log /\ NonceOf[req] \in g.seen[f]
    BY <2>2, <2>6, Uses, SMTT(60)
  <2>8. SpendPaymentNonce(d) = g
    BY <2>5, <2>6 DEF SpendPaymentNonce, Used
  <2>. HIDE DEF g
  <2>9. g.active = f /\ g.pending = c.pending
    BY <2>6, <2>7 DEF Alike
  <2>10. /\ req = c.hash[f] /\ req \in ok /\ req \in Abouts
         /\ <<f, NonceOf[req]>> \notin gone
    BY <1>3, <2>2 DEF PaymentPhase, OnScreen, Base, CoreType, Abouts, Approved, Unspent
  <2>11. PaymentPhase(g, ok, gone)
    BY <2>2, <2>5, <2>6, <2>7, <2>10
       DEF PaymentPhase, OnScreen, Approved, LogAccepts
  <2>12. Phase(g, ok, gone)
    BY <2>9, <2>11 DEF Phase
  <2>13. \A id \in DOMAIN g.pending : Fits(g, ok, g.pending[id])
    <3>1. ASSUME NEW op, Fits(c, ok, op) PROVE Fits(g, ok, op)
      BY <1>3, <2>6, <2>7, <2>9, <3>1 DEF Fits
    <3>. QED
      BY <2>9, <3>1 DEF Inv
  <2>14. ResultOf["Http"] = "Delivery" /\ "Http" \in DOMAIN ResultOf
    BY DEF ResultOf
  <2>15. Fits(g, ok, [flow |-> f, result |-> ResultOf["Http"], about |-> req])
    BY <2>2, <2>5, <2>6, <2>7, <2>9, <2>10, <2>14 DEF Fits
  <2>16. Sendable(g, gone, Eff("Http", f, req))
    BY <2>5, <2>6, <2>7, <2>9, <2>10 DEF Sendable, Eff
  <2>17. out \in Seq(Allowed(g, ok, gone))
    BY <2>2, <2>9, <2>10, <2>14, <2>15, <2>16, EffAllowed
  <2>18. TranslatePayment(g, "SendAuthorization") = Result(g, out)
    BY <2>5, <2>6, <2>7 DEF TranslatePayment
  <2>19. TranslatePayment(g, "Close") = Result(g, << >>)
    BY <2>5, <2>6, <2>7 DEF TranslatePayment
  <2>. HIDE DEF out
  <2>20. Proving(g) => Proving(c)
    BY <2>6, <2>7 DEF Proving
  <2>21. Good(Result(g, out), ok, gone) /\ Keeps(c, Result(g, out))
    BY <2>6, <2>7, <2>12, <2>13, <2>17, <2>20, Advances
  <2>22. Flat(out)
    BY <2>21, GoodFlat
  <2>23. PaymentEffects(g, <<"SendAuthorization", "Close">>) = Result(g, out)
    BY <2>18, <2>19, <2>22, PaymentTwo, SMTT(60)
  <2>24. DrivePayment(c, in) = Result(g, out)
    BY <2>4, <2>5, <2>8, <2>23 DEF DrivePayment, s, d
  <2>. QED
    BY <2>21, <2>24 DEF in
<1>. QED
  BY <1>2, <1>3

(* The delivery is acknowledged: the entry is written, then the flow is    *)
(* over.                                                                   *)
LEMMA PaymentDelivered ==
  ASSUME NEW c, NEW ok, NEW gone, Inv(c, ok, gone), c.active = "Payment",
         c.machine["Payment"].at = "Authorized"
  PROVE  LET r == PaymentAuthorizationDelivered(c)
         IN  Good(r, ok, gone) /\ Completes(c, r, "Payment", c.hash["Payment"])
<1>. DEFINE f == "Payment"
            x == c.hash[f]
            b == Result(FinishFlow(AppendAuditEntry(c, f, x), f), <<Close>>)
<1>1. f \in AllFlows /\ Base(c, f, gone) /\ PaymentPhase(c, ok, gone)
  BY BaseOfInv DEF AllFlows, Inv, Phase
<1>2. LogAccepts(c, x) /\ x \in Shown \cup Credentials
  BY <1>1 DEF PaymentPhase, OnScreen, Base, CoreType
<1>3. PaymentAuthorizationDelivered(c) = b
  BY <1>2 DEF PaymentAuthorizationDelivered, Recorded
<1>4. c.machine[f].at \in AtRest
  BY DEF AtRest
<1>5. Good(b, ok, gone) /\ Completes(c, b, f, x)
  BY <1>1, <1>2, <1>4, ErrorAndCloseQuiet, CompleteGood
<1>. QED
  BY <1>3, <1>5

-----------------------------------------------------------------------------
(* The events of a payment.                                                *)
LEMMA PaymentRequestReceivedStep ==
  ASSUME Inv(core, approved, spent), PaymentRequestReceived
  PROVE  Turn /\ LogTurn
<1>1. PICK req \in Requests, parsed \in BOOLEAN :
         Start("Payment",
               Admit(core, "Payment",
                     DrivePayment(BeginFlow(core, "Payment"),
                                  [type |-> "PaymentAuthorizationRequest",
                                   parsed |-> parsed, req |-> req])))
  BY DEF PaymentRequestReceived
<1>. DEFINE b == BeginFlow(core, "Payment")
            r == DrivePayment(b, [type |-> "PaymentAuthorizationRequest",
                                  parsed |-> parsed, req |-> req])
<1>2. "Payment" \in AllFlows
  BY DEF AllFlows
<1>3. /\ Base(b, "Payment", spent) /\ b.machine["Payment"] = IdleMachine
      /\ DOMAIN b.pending = {}
  BY <1>2, Begins, SMTT(60)
<1>. HIDE DEF b
<1>4. Good(r, {}, spent) /\ Keeps(b, r)
  BY <1>3, PaymentStart
<1>. QED
  BY <1>1, <1>2, <1>4, BegunTurn DEF b

(* The delivery of a payment completes it.                                 *)
LEMMA DeliverPaymentStep ==
  ASSUME Inv(core, approved, spent), DeliverPayment
  PROVE  Turn /\ LogTurn
<1>. DEFINE f == "Payment"
<1>1. core.active = f /\ approved' = approved
  BY DEF DeliverPayment, Complete
<1>2. PICK id \in Answerable("Delivery") :
         /\ Released(PaymentAuthorizationDelivered(Consume(id)))
         /\ history' = Append(history, [kind |-> f, shown |-> core.pending[id].about])
  BY DEF DeliverPayment, Complete
<1>. DEFINE c == Consume(id)
            op == core.pending[id]
            r == PaymentAuthorizationDelivered(c)
<1>3. /\ Inv(c, approved, spent) /\ c.active = f /\ c.log = core.log
      /\ (Proving(c) <=> Proving(core))
      /\ Fits(c, approved, op) /\ op.result = "Delivery" /\ op.flow = c.active
  BY <1>1, Answering, SMTT(60)
<1>. HIDE DEF c
<1>4. c.machine[f].at = "Authorized" /\ op.about = c.hash[f]
  BY <1>3 DEF Fits
<1>5. Good(r, approved, spent) /\ Completes(c, r, f, c.hash[f])
  BY <1>3, <1>4, PaymentDelivered
<1>6. Completes(core, r, f, op.about)
  BY <1>3, <1>4, <1>5 DEF Completes, Adds
<1>7. f \in AllFlows /\ op.about \in Shown \cup Credentials
  BY <1>3, <1>4 DEF Inv, CoreType, AllFlows
<1>. QED
  BY <1>1, <1>2, <1>5, <1>6, <1>7, EntryTurn DEF c

-----------------------------------------------------------------------------
(* The step of the issuance machine as the core drives it, and the screen  *)
(* that follows an accepted offer.                                         *)
IssuanceEnv(c) == [trusted |-> IssuerTrusted(c), attested |-> WuaValid(c),
                   seen |-> c.seen["Issuance"]]
IssuanceStep(c, in) == VciStep(c.machine["Issuance"], in, IssuanceEnv(c))
Notice(in) == IF in.type = "AcceptOffer" THEN <<Screen>> ELSE << >>

(* No output has no effect;                                                *)
LEMMA IssuanceNone ==
  ASSUME NEW c
  PROVE  IssuanceEffects(c, << >>) = Result(c, << >>)
BY SMTT(60) DEF IssuanceEffects, Translated, Result

(* one output has the effects it translates to.                            *)
LEMMA IssuanceOne ==
  ASSUME NEW c, NEW a, NEW d, NEW out, Flat(out),
         TranslateIssuance(c, a) = Result(d, out)
  PROVE  IssuanceEffects(c, <<a>>) = Result(d, out)
BY SMTT(60) DEF IssuanceEffects, Translated, Result, Flat

(* An issuance the machine aborts is over.                                 *)
LEMMA IssuanceAborts ==
  ASSUME NEW c, NEW gone, NEW ok, Base(c, "Issuance", gone), NEW why,
         NEW in, NEW out \in {<< >>, <<"Close">>},
         c.machine["Issuance"].at # "Aborted",
         IssuanceStep(c, in) = To(Aborted(why), out)
  PROVE  LET r == DriveIssuance(c, in)
         IN  Good(r, ok, gone) /\ Keeps(c, r) /\ r.out \in Seq(Quiet) /\ ~Proving(r.core)
<1>. DEFINE f == "Issuance"
            s == IssuanceStep(c, in)
            d == Stepped(c, f, s)
            b == FinishFlow(d, f)
            o == Ends(why)
<1>1. f \in AllFlows
  BY DEF AllFlows
<1>. HIDE DEF s
<1>2. s.out = out /\ s.to = Aborted(why)
  BY SMTT(60) DEF To, s
<1>3. s.to.at = "Aborted" /\ s.to.why = why /\ IsMachine(s.to)
  <2>1. LET m == Aborted(why) IN m.at = "Aborted" /\ m.why = why /\ IsMachine(m)
    BY SMTT(60) DEF Aborted, Idle, IsMachine, Shown
  <2>. QED
    BY <1>2, <2>1
<1>4. Base(d, f, gone) /\ d.log = c.log /\ d.machine[f] = s.to
  BY <1>1, <1>3, Moves, SMTT(60)
<1>. HIDE DEF d
<1>5. IssuanceEffects(d, out).core = d
  <2>1. CASE out = << >>
    <3>1. IssuanceEffects(d, << >>) = Result(d, << >>)
      BY IssuanceNone
    <3>. QED
      BY <2>1, <3>1, SMTT(60) DEF Result
  <2>2. CASE out = <<"Close">>
    <3>1. TranslateIssuance(d, "Close") = Result(d, <<Close>>)
      BY DEF TranslateIssuance, IssuanceEffect
    <3>2. Flat(<<Close>>)
      BY ErrorAndCloseQuiet, FlatSeq
    <3>3. IssuanceEffects(d, <<"Close">>) = Result(d, <<Close>>)
      BY <3>1, <3>2, IssuanceOne, SMTT(60)
    <3>. QED
      BY <2>2, <3>3, SMTT(60) DEF Result
  <2>. QED
    BY <2>1, <2>2
<1>6. DriveIssuance(c, in) = Result(b, o)
  BY <1>2, <1>3, <1>5 DEF DriveIssuance, s, d, IssuanceStep, IssuanceEnv
<1>7. o \in Seq(Quiet)
  BY ErrorAndCloseQuiet DEF Ends
<1>8. d.machine[f].at \in AtRest
  BY <1>3, <1>4 DEF AtRest
<1>9. /\ Base(b, None, gone) /\ b.log = d.log
      /\ \A g \in AllFlows : b.machine[g] = d.machine[g]
  BY <1>1, <1>4, <1>8, FinishBase
<1>. HIDE DEF b, o
<1>10. Good(Result(b, o), ok, gone)
  BY <1>7, <1>9, EndGood
<1>11. ~Proving(b)
  BY <1>1, <1>3, <1>4, <1>9 DEF Proving
<1>12. Result(b, o).core = b /\ Result(b, o).out = o
  BY SMTT(60) DEF Result
<1>. QED
  BY <1>4, <1>6, <1>7, <1>9, <1>10, <1>11, <1>12 DEF Keeps

(* The screen after an accepted offer decides nothing.                     *)
LEMMA NoticeQuiet ==
  ASSUME NEW in
  PROVE  Notice(in) \in Seq(Quiet)
BY ErrorAndCloseQuiet DEF Notice

(* Two batches of allowed effects are one.                                 *)
LEMMA JoinAllowed ==
  ASSUME NEW d, NEW ok, NEW gone, NEW a \in Seq(Quiet),
         NEW b \in Seq(Allowed(d, ok, gone))
  PROVE  a \o b \in Seq(Allowed(d, ok, gone))
<1>1. Quiet \subseteq Allowed(d, ok, gone)
  BY QuietAllowed
<1>. QED
  BY <1>1, SMTT(60)

(* The wallet goes on to the next phase and asks for what it awaits there. *)
LEMMA IssuanceGoes ==
  ASSUME NEW c, NEW ok, NEW gone, Inv(c, ok, gone), c.active = "Issuance", NEW in,
         NEW p \in VciPhases \ {"Idle", "ReviewingOffer", "CredentialIssued", "Aborted"},
         NEW o \in DOMAIN IssuanceEffect,
         IssuanceStep(c, in) = Goto(c.machine["Issuance"], p, o),
         IssuanceEffect[o] = "RequestCredential" => p = "RequestingCredential",
         IssuanceEffect[o] = "Sign" => p = "ProvingPossession",
         c.machine["Issuance"].at # "RequestingCredential",
         c.machine["Issuance"].req \in ok
  PROVE  LET f == "Issuance"
             d == Stepped(c, f, IssuanceStep(c, in))
             out == Notice(in) \o <<Eff(IssuanceEffect[o], f, c.machine[f].req)>>
         IN  /\ DriveIssuance(c, in) = Result(d, out)
             /\ Inv(d, ok, gone) /\ out \in Seq(Allowed(d, ok, gone))
             /\ d.log = c.log /\ d.machine[f].at = p /\ d.seen = c.seen /\ d.active = f
<1>. DEFINE f == "Issuance"
            s == IssuanceStep(c, in)
            d == Stepped(c, f, s)
            req == c.machine[f].req
            k == IssuanceEffect[o]
            e == <<Eff(k, f, req)>>
            out == Notice(in) \o e
<1>1. /\ f \in AllFlows /\ f # None /\ Base(c, f, gone) /\ IssuancePhase(c, ok)
      /\ IsMachine(c.machine[f])
  BY BaseOfInv, NoneIsNoFlow, MachineOfInv DEF AllFlows, Inv, Phase
<1>. HIDE DEF s
<1>2. s.to = At(c.machine[f], p) /\ s.out = <<o>>
  BY SMTT(60) DEF Goto, To, s, At
<1>3. s.to.at = p /\ s.to.req = req /\ IsMachine(s.to)
  BY <1>1, <1>2, PhaseOnly, SMTT(60)
<1>4. /\ Base(d, f, gone) /\ Alike(c, d) /\ d.hash = c.hash /\ d.seen = c.seen
      /\ d.log = c.log /\ d.machine[f] = s.to
  BY <1>1, <1>3, Moves, SMTT(60)
<1>. HIDE DEF d
<1>5. d.active = f /\ d.pending = c.pending
  BY <1>4 DEF Alike
<1>6. Phase(d, ok, gone)
  <2>1. IssuancePhase(d, ok)
    BY <1>1, <1>3, <1>4 DEF IssuancePhase, OnScreen, Approved, LogAccepts
  <2>. QED
    BY <1>5, <2>1 DEF Phase
<1>7. \A id \in DOMAIN d.pending : Fits(d, ok, d.pending[id])
  <2>1. ASSUME NEW op, Fits(c, ok, op) PROVE Fits(d, ok, op)
    BY <1>4, <1>5, <2>1 DEF Fits
  <2>. QED
    BY <1>5, <2>1 DEF Inv
<1>8. Inv(d, ok, gone)
  BY <1>4, <1>6, <1>7, InvOfBase
<1>9. /\ k \in DOMAIN ResultOf /\ k # "Http" /\ ResultOf[k] \notin {"Decision", "Delivery"}
      /\ ResultOf[k] = "Credential" => k = "RequestCredential"
  <2>1. DOMAIN IssuanceEffect = {"PushPar", "OpenAuthBrowser", "PromptTxCode",
                                 "RequestToken", "SignProof", "RequestCredential"}
    BY DEF IssuanceEffect
  <2>2. k \in {"PushPar", "OpenAuthBrowser", "PromptTxCode", "RequestToken", "Sign",
               "RequestCredential"}
    BY <2>1, SMTT(60) DEF IssuanceEffect
  <2>. HIDE DEF k
  <2>. QED
    BY <2>2, SMTT(60) DEF ResultOf
<1>10. req \in Abouts
  BY <1>1 DEF IssuancePhase, Abouts, Shown
<1>. HIDE DEF k
<1>11. Fits(d, ok, [flow |-> f, result |-> ResultOf[k], about |-> req])
  BY <1>1, <1>3, <1>4, <1>5, <1>9 DEF Fits, k
<1>12. k = "Sign" => Proving(d)
  BY <1>3, <1>4 DEF Proving, k
<1>13. e \in Seq(Allowed(d, ok, gone))
  BY <1>1, <1>5, <1>9, <1>10, <1>11, <1>12, EffAllowed
<1>14. out \in Seq(Allowed(d, ok, gone))
  BY <1>13, NoticeQuiet, JoinAllowed
<1>15. TranslateIssuance(d, o) = Result(d, e)
  BY <1>3, <1>4 DEF TranslateIssuance, k, IssuanceEffect
<1>. HIDE DEF e
<1>16. Flat(e)
  BY <1>13, FlatSeq
<1>17. IssuanceEffects(d, <<o>>) = Result(d, e)
  BY <1>15, <1>16, IssuanceOne, SMTT(60)
<1>18. IssuanceEffects(d, <<o>>).core = d /\ IssuanceEffects(d, <<o>>).out = e
  BY <1>17, SMTT(60) DEF Result
<1>19. CheckAuditEntry(c, s.to.req)
  BY <1>1, <1>3 DEF CheckAuditEntry, IssuancePhase
<1>20. DriveIssuance(c, in) = Result(d, out)
  BY <1>2, <1>3, <1>18, <1>19 DEF DriveIssuance, s, d, IssuanceStep, IssuanceEnv, Notice
<1>. QED
  BY <1>3, <1>4, <1>5, <1>8, <1>14, <1>20 DEF d, s, e, k

(* A result the issuance machine does not expect changes nothing.          *)
LEMMA IssuanceStays ==
  ASSUME NEW c, NEW ok, NEW gone, Inv(c, ok, gone), c.active = "Issuance", NEW in,
         IssuanceStep(c, in) = To(c.machine["Issuance"], << >>)
  PROVE  LET f == "Issuance"
             d == Stepped(c, f, IssuanceStep(c, in))
             out == Notice(in) \o << >>
         IN  /\ DriveIssuance(c, in) = Result(d, out)
             /\ Inv(d, ok, gone) /\ out \in Seq(Quiet)
             /\ d.log = c.log /\ d.machine[f] = c.machine[f] /\ d.active = f
<1>. DEFINE f == "Issuance"
            s == IssuanceStep(c, in)
            d == Stepped(c, f, s)
            out == Notice(in) \o << >>
            m == c.machine[f]
<1>1. /\ f \in AllFlows /\ Base(c, f, gone) /\ IssuancePhase(c, ok) /\ IsMachine(m)
  BY BaseOfInv, MachineOfInv DEF AllFlows, Inv, Phase
<1>. HIDE DEF s
<1>2. s.to = m /\ s.out = << >>
  BY SMTT(60) DEF To, s
<1>. HIDE DEF m
<1>3. /\ Base(d, f, gone) /\ Alike(c, d) /\ d.hash = c.hash /\ d.seen = c.seen
      /\ d.log = c.log /\ d.machine[f] = m
  BY <1>1, <1>2, Moves, SMTT(60)
<1>. HIDE DEF d
<1>4. SeenMore(c, d) /\ d.active = f
  BY <1>3 DEF SeenMore, Alike
<1>5. Inv(d, ok, gone)
  BY <1>1, <1>3, <1>4, FrameInv DEF m
<1>6. out \in Seq(Quiet)
  BY NoticeQuiet, SMTT(60)
<1>7. IssuanceEffects(d, << >>).core = d /\ IssuanceEffects(d, << >>).out = << >>
  <2>1. IssuanceEffects(d, << >>) = Result(d, << >>)
    BY IssuanceNone
  <2>. QED
    BY <2>1, SMTT(60) DEF Result
<1>8. m.at \notin {"Aborted", "CredentialIssued"} /\ CheckAuditEntry(c, m.req)
  BY <1>1 DEF IssuancePhase, CheckAuditEntry, m
<1>9. DriveIssuance(c, in) = Result(d, out)
  BY <1>2, <1>7, <1>8 DEF DriveIssuance, s, d, IssuanceStep, IssuanceEnv, Notice
<1>. QED
  BY <1>3, <1>4, <1>5, <1>6, <1>9 DEF d, s, m

(* An offer arrives: it is refused, or shown for review.                   *)
LEMMA IssuanceStart ==
  ASSUME NEW c, NEW gone, NEW ok, Base(c, "Issuance", gone),
         c.machine["Issuance"] = IdleMachine, DOMAIN c.pending = {},
         NEW parsed \in BOOLEAN, NEW req \in Requests
  PROVE  LET r == DriveIssuance(c, [type |-> "CredentialOffer",
                                    parsed |-> parsed, req |-> req])
         IN  Good(r, ok, gone) /\ Keeps(c, r)
<1>. DEFINE f == "Issuance"
            in == [type |-> "CredentialOffer", parsed |-> parsed, req |-> req]
            s == IssuanceStep(c, in)
            m == [c.machine[f] EXCEPT !.req = req]
            d == Stepped(c, f, s)
            h == Asking(d, f, req)
            out == <<Eff("Consent", f, req)>>
<1>1. /\ c.machine[f].at = "Idle" /\ in.type = "CredentialOffer"
      /\ in.parsed = parsed /\ in.req = req /\ IssuanceEnv(c).trusted = IssuerTrusted(c)
  BY SMTT(60) DEF IdleMachine, IssuanceEnv
<1>2. f \in AllFlows /\ req \in Shown
  BY DEF AllFlows, Shown
<1>. HIDE DEF in
<1>3. CASE ~parsed
  <2>1. s = To(Aborted("UnsupportedGrant"), << >>)
    BY <1>1, <1>3 DEF VciStep, IssuanceStep
  <2>. QED
    BY <1>1, <2>1, IssuanceAborts DEF in
<1>4. CASE parsed /\ ~IssuerTrusted(c)
  <2>1. s = To(Aborted("IssuerNotTrusted"), << >>)
    BY <1>1, <1>4 DEF VciStep, IssuanceStep
  <2>. QED
    BY <1>1, <2>1, IssuanceAborts DEF in
<1>5. CASE parsed /\ IssuerTrusted(c)
  <2>1. s = Goto(m, "ReviewingOffer", "ReviewOffer")
    BY <1>1, <1>5 DEF VciStep, IssuanceStep
  <2>. HIDE DEF s
  <2>2. IsMachine(m) /\ m.req = req
    BY <1>2, SMTT(60) DEF IdleMachine, IsMachine
  <2>. HIDE DEF m
  <2>3. s.to = At(m, "ReviewingOffer") /\ s.out = <<"ReviewOffer">>
    BY <2>1, SMTT(60) DEF Goto, To, At
  <2>4. s.to.at = "ReviewingOffer" /\ s.to.req = req /\ IsMachine(s.to)
    BY <2>2, <2>3, PhaseOnly, SMTT(60)
  <2>5. /\ Base(d, f, gone) /\ Alike(c, d) /\ d.log = c.log /\ d.machine[f] = s.to
    BY <1>2, <2>4, Moves, SMTT(60)
  <2>. HIDE DEF d
  <2>6. ~Proving(d)
    BY <2>4, <2>5 DEF Proving
  <2>7. CASE ~CheckAuditEntry(c, req)
    <3>. DEFINE r == TerminateAuditedFlow(d, f)
    <3>1. s.to.at \notin {"Idle", "Aborted"} /\ ~CheckAuditEntry(c, s.to.req)
      BY <2>4, <2>7
    <3>. HIDE DEF r
    <3>3. DriveIssuance(c, in) = r
      BY <3>1 DEF DriveIssuance, s, d, r, IssuanceStep, IssuanceEnv
    <3>2. Good(r, ok, gone) /\ Keeps(d, r)
      BY <1>2, <2>5, TerminateGood DEF r
    <3>. QED
      BY <2>5, <2>6, <3>2, <3>3 DEF Keeps, in
  <2>8. CASE CheckAuditEntry(c, req)
    <3>1. TranslateIssuance(d, "ReviewOffer") = Result(h, out)
      BY <2>4, <2>5 DEF TranslateIssuance, Asking, IssuanceEffect
    <3>2. /\ Base(h, f, gone) /\ h.machine = d.machine /\ h.log = d.log
          /\ h.hash[f] = req
      BY <1>2, <2>5, Raises, SMTT(60)
    <3>3. Phase(h, ok, gone)
      <4>. HIDE DEF h
      <4>1. h.active = f /\ h.machine = d.machine /\ h.log = c.log
        BY <2>5, <3>2 DEF Base
      <4>2. LogAccepts(h, req)
        BY <2>8, <4>1 DEF CheckAuditEntry, LogAccepts
      <4>3. IssuancePhase(h, ok)
        BY <2>4, <2>5, <3>2, <4>1, <4>2 DEF IssuancePhase, OnScreen, VciPhases
      <4>. QED
        BY <4>1, <4>3 DEF Phase
    <3>4. DOMAIN d.pending = {}
      BY <2>5 DEF Alike
    <3>5. Good(Result(h, out), ok, gone) /\ Keeps(d, Result(h, out))
      BY <1>2, <2>5, <3>3, <3>4, Asks
    <3>. HIDE DEF h, out
    <3>6. Flat(out)
      BY <3>5, GoodFlat
    <3>7. IssuanceEffects(d, <<"ReviewOffer">>) = Result(h, out)
      BY <3>1, <3>6, IssuanceOne, SMTT(60)
    <3>8. /\ IssuanceEffects(d, <<"ReviewOffer">>).core = h
          /\ << >> \o IssuanceEffects(d, <<"ReviewOffer">>).out = out
      BY <3>6, <3>7, SMTT(60) DEF Result, Flat
    <3>9. DriveIssuance(c, in) = Result(h, out)
      BY <1>1, <2>3, <2>4, <2>8, <3>8
         DEF DriveIssuance, s, d, IssuanceStep, IssuanceEnv
    <3>. QED
      BY <2>5, <2>6, <3>5, <3>9 DEF Keeps, in
  <2>. QED
    BY <2>7, <2>8
<1>. QED
  BY <1>3, <1>4, <1>5

(* What the handler of an issuance result returns.                         *)
LEMMA IssuanceGoesGood ==
  ASSUME NEW c, NEW ok, NEW gone, Inv(c, ok, gone), c.active = "Issuance", NEW in,
         NEW p \in VciPhases \ {"Idle", "ReviewingOffer", "CredentialIssued", "Aborted",
                                 "ProvingPossession"},
         NEW o \in DOMAIN IssuanceEffect,
         IssuanceStep(c, in) = Goto(c.machine["Issuance"], p, o),
         IssuanceEffect[o] = "RequestCredential" => p = "RequestingCredential",
         IssuanceEffect[o] = "Sign" => p = "ProvingPossession",
         c.machine["Issuance"].at # "RequestingCredential",
         c.machine["Issuance"].req \in ok
  PROVE  Good(DriveIssuance(c, in), ok, gone) /\ Keeps(c, DriveIssuance(c, in))
<1>. DEFINE f == "Issuance"
            d == Stepped(c, f, IssuanceStep(c, in))
            out == Notice(in) \o <<Eff(IssuanceEffect[o], f, c.machine[f].req)>>
<1>1. /\ DriveIssuance(c, in) = Result(d, out)
      /\ Inv(d, ok, gone) /\ out \in Seq(Allowed(d, ok, gone))
      /\ d.log = c.log /\ d.machine[f].at = p
  BY IssuanceGoes, SMTT(60)
<1>. HIDE DEF d, out
<1>2. ~Proving(d)
  BY <1>1 DEF Proving
<1>. QED
  BY <1>1, <1>2, Returns

(* Nothing changes for an answer out of turn.                              *)
LEMMA IssuanceStaysGood ==
  ASSUME NEW c, NEW ok, NEW gone, Inv(c, ok, gone), c.active = "Issuance", NEW in,
         IssuanceStep(c, in) = To(c.machine["Issuance"], << >>)
  PROVE  Good(DriveIssuance(c, in), ok, gone) /\ Keeps(c, DriveIssuance(c, in))
<1>. DEFINE f == "Issuance"
            d == Stepped(c, f, IssuanceStep(c, in))
            out == Notice(in) \o << >>
<1>1. /\ DriveIssuance(c, in) = Result(d, out)
      /\ Inv(d, ok, gone) /\ out \in Seq(Quiet)
      /\ d.log = c.log /\ d.machine[f] = c.machine[f] /\ d.active = f
  BY IssuanceStays
<1>. HIDE DEF d, out
<1>2. Proving(d) => Proving(c)
  BY <1>1 DEF Proving
<1>3. out \in Seq(Allowed(d, ok, gone))
  BY <1>1, QuietAllowed, SMTT(60)
<1>. QED
  BY <1>1, <1>2, <1>3, Returns

(* The holder accepts the offer: the grant decides what is asked for.      *)
LEMMA IssuanceAccepted ==
  ASSUME NEW c, NEW ok, NEW gone, Inv(c, ok, gone), c.active = "Issuance",
         c.hash["Issuance"] \in ok
  PROVE  LET r == DriveIssuance(c, [type |-> "AcceptOffer"])
         IN  Good(r, ok, gone) /\ Keeps(c, r)
<1>. DEFINE f == "Issuance"
            in == [type |-> "AcceptOffer"]
            m == c.machine[f]
            s == IssuanceStep(c, in)
<1>1. in.type = "AcceptOffer"
  OBVIOUS
<1>. HIDE DEF in
<1>2. CASE m.at # "ReviewingOffer"
  <2>1. s = To(m, << >>)
    BY <1>1, <1>2 DEF VciStep, IssuanceStep
  <2>. QED
    BY <2>1, IssuanceStaysGood DEF in
<1>3. CASE m.at = "ReviewingOffer"
  <2>1. s = AcceptOffer(m)
    BY <1>1, <1>3 DEF VciStep, IssuanceStep
  <2>2. m.req \in ok /\ m.req \in Requests /\ m.at # "RequestingCredential"
    BY <1>3 DEF Inv, Phase, IssuancePhase, OnScreen
  <2>3. DOMAIN IssuanceEffect = {"PushPar", "OpenAuthBrowser", "PromptTxCode",
                                 "RequestToken", "SignProof", "RequestCredential"}
    BY DEF IssuanceEffect
  <2>4. /\ IssuanceEffect["PushPar"] = "PushPar"
        /\ IssuanceEffect["PromptTxCode"] = "PromptTxCode"
        /\ IssuanceEffect["RequestToken"] = "RequestToken"
    BY SMTT(60) DEF IssuanceEffect
  <2>5. GrantOf[m.req] \in {"AuthorizationCode", "PreAuthorizedTxCode", "PreAuthorized"}
    BY <2>2, GrantAssumption DEF Grants
  <2>. HIDE DEF s, m
  <2>6. CASE GrantOf[m.req] = "AuthorizationCode"
    <3>1. s = Goto(m, "OfferParsed", "PushPar")
      BY <2>1, <2>6 DEF AcceptOffer
    <3>2. "OfferParsed" \in VciPhases
      BY DEF VciPhases
    <3>. QED
      BY <2>2, <2>3, <2>4, <3>1, <3>2, IssuanceGoesGood DEF s, m, in
  <2>7. CASE GrantOf[m.req] = "PreAuthorizedTxCode"
    <3>1. s = Goto(m, "AwaitingTxCode", "PromptTxCode")
      BY <2>1, <2>7 DEF AcceptOffer
    <3>2. "AwaitingTxCode" \in VciPhases
      BY DEF VciPhases
    <3>. QED
      BY <2>2, <2>3, <2>4, <3>1, <3>2, IssuanceGoesGood DEF s, m, in
  <2>8. CASE GrantOf[m.req] = "PreAuthorized"
    <3>1. s = Goto(m, "RequestingToken", "RequestToken")
      BY <2>1, <2>8 DEF AcceptOffer
    <3>2. "RequestingToken" \in VciPhases
      BY DEF VciPhases
    <3>. QED
      BY <2>2, <2>3, <2>4, <3>1, <3>2, IssuanceGoesGood DEF s, m, in
  <2>. QED
    BY <2>5, <2>6, <2>7, <2>8
<1>. QED
  BY <1>2, <1>3

(* The holder declines the offer.                                          *)
LEMMA IssuanceDeclined ==
  ASSUME NEW c, NEW ok, NEW gone, Inv(c, ok, gone), c.active = "Issuance"
  PROVE  LET r == DriveIssuance(c, [type |-> "Decline"])
         IN  Good(r, ok, gone) /\ Keeps(c, r)
<1>. DEFINE f == "Issuance"
            in == [type |-> "Decline"]
<1>1. IssuanceStep(c, in) = To(Aborted("UserDeclined"), <<"Close">>)
  BY DEF VciStep, IssuanceStep
<1>2. Base(c, f, gone) /\ c.machine[f].at # "Aborted"
  BY BaseOfInv DEF Inv, Phase, IssuancePhase
<1>. HIDE DEF in
<1>3. Good(DriveIssuance(c, in), ok, gone) /\ Keeps(c, DriveIssuance(c, in))
  BY <1>1, <1>2, IssuanceAborts
<1>. QED
  BY <1>3 DEF in

(* The effect of each output, and the phases an answer leads to.           *)
LEMMA IssuanceEffectOf ==
  /\ DOMAIN IssuanceEffect = {"PushPar", "OpenAuthBrowser", "PromptTxCode",
                              "RequestToken", "SignProof", "RequestCredential"}
  /\ IssuanceEffect["OpenAuthBrowser"] = "OpenAuthBrowser"
  /\ IssuanceEffect["RequestToken"] = "RequestToken"
  /\ IssuanceEffect["SignProof"] = "Sign"
  /\ IssuanceEffect["RequestCredential"] = "RequestCredential"
BY SMTT(60) DEF IssuanceEffect

(* The machine of an issuance under way.                                   *)
LEMMA IssuanceUnder ==
  ASSUME NEW c, NEW ok, NEW gone, Inv(c, ok, gone), c.active = "Issuance"
  PROVE  LET m == c.machine["Issuance"]
         IN  /\ Base(c, "Issuance", gone) /\ m.at # "Aborted" /\ m.at # "Idle"
             /\ m.at # "ReviewingOffer" => m.req \in ok
BY BaseOfInv DEF Inv, Phase, IssuancePhase, Approved

(* The pushed authorization request is answered.                           *)
LEMMA IssuanceParPushed ==
  ASSUME NEW c, NEW ok, NEW gone, Inv(c, ok, gone), c.active = "Issuance",
         NEW valid \in BOOLEAN
  PROVE  LET r == DriveIssuance(c, [type |-> "ParPushed", valid |-> valid])
         IN  Good(r, ok, gone) /\ Keeps(c, r)
<1>. DEFINE in == [type |-> "ParPushed", valid |-> valid]
            m == c.machine["Issuance"]
            s == IssuanceStep(c, in)
<1>1. in.type = "ParPushed" /\ in.valid = valid
  BY SMTT(60)
<1>. HIDE DEF in
<1>2. /\ Base(c, "Issuance", gone) /\ m.at # "Aborted" /\ m.at # "Idle"
      /\ m.at # "ReviewingOffer" => m.req \in ok
  BY IssuanceUnder
<1>3. CASE m.at # "OfferParsed"
  <2>1. s = To(m, << >>)
    BY <1>1, <1>3 DEF VciStep, IssuanceStep
  <2>. QED
    BY <2>1, IssuanceStaysGood DEF in
<1>4. CASE m.at = "OfferParsed" /\ valid
  <2>1. s = Goto(m, "Authorizing", "OpenAuthBrowser")
    BY <1>1, <1>4 DEF VciStep, IssuanceStep
  <2>2. "Authorizing" \in VciPhases
    BY DEF VciPhases
  <2>. HIDE DEF s, m
  <2>. QED
    BY <1>2, <1>4, <2>1, <2>2, IssuanceEffectOf, IssuanceGoesGood DEF s, m, in
<1>5. CASE m.at = "OfferParsed" /\ ~valid
  <2>1. s = To(Aborted("PkceMissing"), << >>)
    BY <1>1, <1>5 DEF VciStep, IssuanceStep
  <2>. QED
    BY <1>2, <2>1, IssuanceAborts DEF in
<1>. QED
  BY <1>3, <1>4, <1>5

(* The browser returns with an authorization code.                         *)
LEMMA IssuanceCodeReturned ==
  ASSUME NEW c, NEW ok, NEW gone, Inv(c, ok, gone), c.active = "Issuance"
  PROVE  LET r == DriveIssuance(c, [type |-> "AuthCodeReturned"])
         IN  Good(r, ok, gone) /\ Keeps(c, r)
<1>. DEFINE in == [type |-> "AuthCodeReturned"]
            m == c.machine["Issuance"]
            s == IssuanceStep(c, in)
<1>1. in.type = "AuthCodeReturned"
  BY SMTT(60)
<1>. HIDE DEF in
<1>2. /\ Base(c, "Issuance", gone) /\ m.at # "Aborted" /\ m.at # "Idle"
      /\ m.at # "ReviewingOffer" => m.req \in ok
  BY IssuanceUnder
<1>3. CASE m.at # "Authorizing"
  <2>1. s = To(m, << >>)
    BY <1>1, <1>3 DEF VciStep, IssuanceStep
  <2>. QED
    BY <2>1, IssuanceStaysGood DEF in
<1>4. CASE m.at = "Authorizing"
  <2>1. s = Goto(m, "RequestingToken", "RequestToken")
    BY <1>1, <1>4 DEF VciStep, IssuanceStep
  <2>2. "RequestingToken" \in VciPhases
    BY DEF VciPhases
  <2>. HIDE DEF s, m
  <2>. QED
    BY <1>2, <1>4, <2>1, <2>2, IssuanceEffectOf, IssuanceGoesGood DEF s, m, in
<1>. QED
  BY <1>3, <1>4

(* The holder enters the transaction code.                                 *)
LEMMA IssuanceTxCodeEntered ==
  ASSUME NEW c, NEW ok, NEW gone, Inv(c, ok, gone), c.active = "Issuance",
         NEW valid \in BOOLEAN
  PROVE  LET r == DriveIssuance(c, [type |-> "TxCodeEntered", valid |-> valid])
         IN  Good(r, ok, gone) /\ Keeps(c, r)
<1>. DEFINE in == [type |-> "TxCodeEntered", valid |-> valid]
            m == c.machine["Issuance"]
            s == IssuanceStep(c, in)
<1>1. in.type = "TxCodeEntered" /\ in.valid = valid
  BY SMTT(60)
<1>. HIDE DEF in
<1>2. /\ Base(c, "Issuance", gone) /\ m.at # "Aborted" /\ m.at # "Idle"
      /\ m.at # "ReviewingOffer" => m.req \in ok
  BY IssuanceUnder
<1>3. CASE m.at # "AwaitingTxCode"
  <2>1. s = To(m, << >>)
    BY <1>1, <1>3 DEF VciStep, IssuanceStep
  <2>. QED
    BY <2>1, IssuanceStaysGood DEF in
<1>4. CASE m.at = "AwaitingTxCode" /\ valid
  <2>1. s = Goto(m, "RequestingToken", "RequestToken")
    BY <1>1, <1>4 DEF VciStep, IssuanceStep
  <2>2. "RequestingToken" \in VciPhases
    BY DEF VciPhases
  <2>. HIDE DEF s, m
  <2>. QED
    BY <1>2, <1>4, <2>1, <2>2, IssuanceEffectOf, IssuanceGoesGood DEF s, m, in
<1>5. CASE m.at = "AwaitingTxCode" /\ ~valid
  <2>1. s = To(Aborted("TxCodeInvalid"), << >>)
    BY <1>1, <1>5 DEF VciStep, IssuanceStep
  <2>. QED
    BY <1>2, <2>1, IssuanceAborts DEF in
<1>. QED
  BY <1>3, <1>4, <1>5

(* The proof of possession is signed: the credential is requested.         *)
LEMMA IssuanceProved ==
  ASSUME NEW c, NEW ok, NEW gone, Inv(c, ok, gone), c.active = "Issuance"
  PROVE  LET r == DriveIssuance(c, [type |-> "ProofSignatureProduced"])
         IN  Good(r, ok, gone) /\ Keeps(c, r)
<1>. DEFINE in == [type |-> "ProofSignatureProduced"]
            m == c.machine["Issuance"]
            s == IssuanceStep(c, in)
<1>1. in.type = "ProofSignatureProduced"
  BY SMTT(60)
<1>. HIDE DEF in
<1>2. /\ Base(c, "Issuance", gone) /\ m.at # "Aborted" /\ m.at # "Idle"
      /\ m.at # "ReviewingOffer" => m.req \in ok
  BY IssuanceUnder
<1>3. CASE m.at # "ProvingPossession"
  <2>1. s = To(m, << >>)
    BY <1>1, <1>3 DEF VciStep, IssuanceStep
  <2>. QED
    BY <2>1, IssuanceStaysGood DEF in
<1>4. CASE m.at = "ProvingPossession"
  <2>1. s = Goto(m, "RequestingCredential", "RequestCredential")
    BY <1>1, <1>4 DEF VciStep, IssuanceStep
  <2>2. "RequestingCredential" \in VciPhases
    BY DEF VciPhases
  <2>. HIDE DEF s, m
  <2>. QED
    BY <1>2, <1>4, <2>1, <2>2, IssuanceEffectOf, IssuanceGoesGood DEF s, m, in
<1>. QED
  BY <1>3, <1>4

(* A c_nonce the wallet remembers may count as spent.                      *)
LEMMA ProvedInv ==
  ASSUME NEW c, NEW ok, NEW gone, Inv(c, ok, gone), NEW n, n \in c.seen["Issuance"]
  PROVE  Inv(c, ok, gone \cup {<<"Issuance", n>>})
<1>. DEFINE more == gone \cup {<<"Issuance", n>>}
<1>1. ASSUME NEW f \in {"Presentation", "Payment", "Qes"}, NEW x, <<f, x>> \in more
      PROVE  <<f, x>> \in gone
  <2>1. <<f, x>> # <<"Issuance", n>>
    BY SMTT(60)
  <2>. QED
    BY <1>1, <2>1
<1>2. ASSUME NEW f \in Replayed PROVE Kept(c, f, more)
  <2>1. ASSUME NEW x, <<f, x>> \in more PROVE x \in c.seen[f]
    <3>1. CASE <<f, x>> \in gone
      BY <3>1 DEF Inv, Kept
    <3>2. CASE <<f, x>> = <<"Issuance", n>>
      <4>1. f = "Issuance" /\ x = n
        BY <3>2, SMTT(60)
      <4>. QED
        BY <4>1
    <3>. QED
      BY <2>1, <3>1, <3>2
  <2>. QED
    BY <2>1 DEF Kept
<1>. HIDE DEF more
<1>3. c.active = "Presentation" => PresentationPhase(c, ok, more)
  BY <1>1 DEF Inv, Phase, PresentationPhase, Unspent
<1>4. c.active = "Payment" => PaymentPhase(c, ok, more)
  BY <1>1 DEF Inv, Phase, PaymentPhase, Unspent
<1>5. c.active = "Qes" => QesPhase(c, ok, more)
  BY <1>1 DEF Inv, Phase, QesPhase, Unspent
<1>6. Phase(c, ok, more)
  BY <1>3, <1>4, <1>5 DEF Inv, Phase
<1>7. Inv(c, ok, more)
  BY <1>2, <1>6 DEF Inv
<1>. QED
  BY <1>7 DEF more

(* What the handler of a token returns: it goes on to no proof, or to the  *)
(* one proof made under the token's nonce.                                 *)
Proves(r, ok, gone, n) ==
    /\ <<"Issuance", n>> \notin gone
    /\ Good(r, ok, gone \cup {<<"Issuance", n>>})
    /\ \E x : r.out = <<Eff("Sign", "Issuance", x)>>
TokenGood(c, r, ok, gone, n) ==
    /\ Good(r, ok, gone) /\ r.core.log = c.log
    /\ \/ r.out \in Seq(Quiet) /\ (Proving(r.core) => Proving(c))
       \/ Proves(r, ok, gone, n)

(* The nonce is remembered once the proof is to be signed.                 *)
LEMMA TokenResult ==
  ASSUME NEW c, NEW in, NEW d, NEW out, DriveIssuance(c, in) = Result(d, out)
  PROVE  /\ Proving(d) => TokenReceived(c, in) = Result(Used(d, "Issuance", in.nonce), out)
         /\ ~Proving(d) => TokenReceived(c, in) = Result(d, out)
<1>. DEFINE r == DriveIssuance(c, in)
            f == "Issuance"
            e == [r EXCEPT !.core.seen[f] = @ \cup {in.nonce}]
<1>1. r.core = d
  BY SMTT(60) DEF Result
<1>2. ASSUME Proving(d)
      PROVE  TokenReceived(c, in) = e
  BY <1>1, <1>2 DEF TokenReceived, Proving
<1>3. e = Result(Used(d, f, in.nonce), out)
  BY SMTT(60) DEF Result, Used
<1>4. ASSUME ~Proving(d)
      PROVE  TokenReceived(c, in) = Result(d, out)
  BY <1>1, <1>4 DEF TokenReceived, Proving
<1>. QED
  BY <1>2, <1>3, <1>4

(* Remembering the nonce keeps the core in order.                          *)
LEMMA TokenFramed ==
  ASSUME NEW d, NEW ok, NEW gone, Inv(d, ok, gone), d.active = "Issuance", NEW n
  PROVE  LET u == Used(d, "Issuance", n)
         IN  /\ Inv(u, ok, gone) /\ u.log = d.log /\ u.machine = d.machine
             /\ u.active = "Issuance" /\ n \in u.seen["Issuance"]
<1>. DEFINE f == "Issuance"
            u == Used(d, f, n)
<1>1. f \in AllFlows /\ f \in Replayed /\ Base(d, f, gone)
  BY BaseOfInv DEF AllFlows, Replayed
<1>2. /\ Base(u, f, gone) /\ Alike(d, u) /\ u.machine = d.machine /\ u.hash = d.hash
      /\ u.log = d.log /\ n \in u.seen[f] /\ SeenMore(d, u)
  BY <1>1, Uses, SMTT(60)
<1>. HIDE DEF u
<1>3. Inv(u, ok, gone)
  BY <1>1, <1>2, FrameInv
<1>4. u.active = f
  BY <1>2 DEF Base
<1>. QED
  BY <1>2, <1>3, <1>4 DEF u

(* A token out of turn changes nothing;                                    *)
LEMMA TokenStays ==
  ASSUME NEW c, NEW ok, NEW gone, Inv(c, ok, gone), c.active = "Issuance", NEW in,
         in.type = "TokenResponse",
         IssuanceStep(c, in) = To(c.machine["Issuance"], << >>)
  PROVE  TokenGood(c, TokenReceived(c, in), ok, gone, in.nonce)
<1>. DEFINE f == "Issuance"
            d == Stepped(c, f, IssuanceStep(c, in))
            out == Notice(in) \o << >>
            u == Used(d, f, in.nonce)
<1>1. /\ DriveIssuance(c, in) = Result(d, out)
      /\ Inv(d, ok, gone) /\ out \in Seq(Quiet)
      /\ d.log = c.log /\ d.machine[f] = c.machine[f] /\ d.active = f
  BY IssuanceStays
<1>. HIDE DEF d, out
<1>2. /\ Proving(d) => TokenReceived(c, in) = Result(u, out)
      /\ ~Proving(d) => TokenReceived(c, in) = Result(d, out)
  BY <1>1, TokenResult, SMTT(60)
<1>3. /\ Inv(u, ok, gone) /\ u.log = d.log /\ u.machine = d.machine
      /\ u.active = "Issuance" /\ in.nonce \in u.seen["Issuance"]
  BY <1>1, TokenFramed
<1>. HIDE DEF u
<1>4. ASSUME NEW x \in {u, d}
      PROVE  LET r == Result(x, out)
             IN  /\ Good(r, ok, gone) /\ r.core.log = c.log
                 /\ r.out \in Seq(Quiet) /\ (Proving(r.core) => Proving(c))
  <2>1. Inv(x, ok, gone) /\ x.log = c.log /\ (Proving(x) => Proving(c))
    BY <1>1, <1>3 DEF Proving
  <2>2. out \in Seq(Allowed(x, ok, gone))
    BY <1>1, QuietAllowed, SMTT(60)
  <2>3. Result(x, out).core = x /\ Result(x, out).out = out
    BY SMTT(60) DEF Result
  <2>. QED
    BY <1>1, <2>1, <2>2, <2>3 DEF Good
<1>5. TokenReceived(c, in) \in {Result(u, out), Result(d, out)}
  BY <1>2
<1>. QED
  BY <1>4, <1>5 DEF TokenGood

(* a token that is refused ends the issuance;                              *)
LEMMA TokenAborts ==
  ASSUME NEW c, NEW ok, NEW gone, Inv(c, ok, gone), c.active = "Issuance", NEW in,
         NEW why, IssuanceStep(c, in) = To(Aborted(why), << >>)
  PROVE  TokenGood(c, TokenReceived(c, in), ok, gone, in.nonce)
<1>. DEFINE r == DriveIssuance(c, in)
<1>1. Base(c, "Issuance", gone) /\ c.machine["Issuance"].at # "Aborted"
  BY IssuanceUnder
<1>2. Good(r, ok, gone) /\ Keeps(c, r) /\ r.out \in Seq(Quiet) /\ ~Proving(r.core)
  BY <1>1, IssuanceAborts
<1>. HIDE DEF r
<1>3. TokenReceived(c, in) = r
  BY <1>2 DEF TokenReceived, Proving, r
<1>. QED
  BY <1>2, <1>3 DEF TokenGood, Keeps

(* a token that is accepted leads to a proof under its nonce.              *)
LEMMA TokenGoes ==
  ASSUME NEW c, NEW ok, NEW gone, Inv(c, ok, gone), c.active = "Issuance", NEW in,
         in.type = "TokenResponse", c.machine["Issuance"].at = "RequestingToken",
         in.nonce \notin c.seen["Issuance"],
         IssuanceStep(c, in) = Goto(c.machine["Issuance"], "ProvingPossession",
                                        "SignProof")
  PROVE  TokenGood(c, TokenReceived(c, in), ok, gone, in.nonce)
<1>. DEFINE f == "Issuance"
            n == in.nonce
            req == c.machine[f].req
            d == Stepped(c, f, IssuanceStep(c, in))
            k == IssuanceEffect["SignProof"]
            out == Notice(in) \o <<Eff(k, f, req)>>
            u == Used(d, f, n)
            e == <<Eff("Sign", f, req)>>
            more == gone \cup {<<f, n>>}
<1>1. req \in ok /\ f \in AllFlows /\ f # None /\ req \in Abouts
  BY IssuanceUnder, NoneIsNoFlow DEF AllFlows, Inv, Phase, IssuancePhase, Abouts, Shown
<1>2. /\ "ProvingPossession" \in VciPhases \ {"Idle", "ReviewingOffer",
                                               "CredentialIssued", "Aborted"}
      /\ k = "Sign" /\ "SignProof" \in DOMAIN IssuanceEffect
  BY IssuanceEffectOf DEF VciPhases
<1>. HIDE DEF k
<1>3. /\ DriveIssuance(c, in) = Result(d, out)
      /\ Inv(d, ok, gone) /\ out \in Seq(Allowed(d, ok, gone))
      /\ d.log = c.log /\ d.machine[f].at = "ProvingPossession" /\ d.seen = c.seen
      /\ d.active = f
  BY <1>1, <1>2, IssuanceGoes, SMTT(60) DEF k
<1>4. out = e
  <2>1. Notice(in) = << >>
    BY DEF Notice
  <2>. QED
    BY <1>2, <2>1, SMTT(60)
<1>5. Proving(d) /\ d.active = f
  BY <1>3 DEF Proving
<1>. HIDE DEF d, out
<1>6. /\ Inv(u, ok, gone) /\ u.log = d.log /\ u.machine = d.machine
      /\ u.active = f /\ n \in u.seen[f]
  BY <1>3, <1>5, TokenFramed
<1>7. TokenReceived(c, in) = Result(u, out)
  BY <1>3, <1>5, TokenResult, SMTT(60)
<1>. HIDE DEF u
<1>8. Inv(u, ok, more)
  BY <1>6, ProvedInv
<1>9. <<f, n>> \notin gone
  BY <1>3 DEF Inv, Kept, Replayed
<1>10. ASSUME NEW g
       PROVE  e \in Seq(Allowed(u, ok, g))
  <2>1. ResultOf["Sign"] = "Signature" /\ "Sign" \in DOMAIN ResultOf
    BY DEF ResultOf
  <2>2. Fits(u, ok, [flow |-> f, result |-> ResultOf["Sign"], about |-> req])
    BY <1>1, <1>6, <2>1 DEF Fits
  <2>3. Proving(u)
    BY <1>5, <1>6 DEF Proving
  <2>. QED
    BY <1>1, <1>6, <2>1, <2>2, <2>3, EffAllowed
<1>11. Result(u, out).core = u /\ Result(u, out).out = out
  BY SMTT(60) DEF Result
<1>12. Good(Result(u, out), ok, gone) /\ Good(Result(u, out), ok, more)
  BY <1>4, <1>6, <1>8, <1>10, <1>11 DEF Good
<1>. QED
  BY <1>3, <1>4, <1>6, <1>7, <1>9, <1>11, <1>12 DEF TokenGood, Proves

(* A token arrives.                                                        *)
LEMMA IssuanceToken ==
  ASSUME NEW c, NEW ok, NEW gone, Inv(c, ok, gone), c.active = "Issuance",
         NEW valid \in BOOLEAN, NEW nonce
  PROVE  LET r == TokenReceived(c, [type |-> "TokenResponse", valid |-> valid,
                                    nonce |-> nonce])
         IN  TokenGood(c, r, ok, gone, nonce)
<1>. DEFINE in == [type |-> "TokenResponse", valid |-> valid, nonce |-> nonce]
            m == c.machine["Issuance"]
            s == IssuanceStep(c, in)
<1>1. /\ in.type = "TokenResponse" /\ in.valid = valid /\ in.nonce = nonce
      /\ IssuanceEnv(c).attested = WuaValid(c) /\ IssuanceEnv(c).seen = c.seen["Issuance"]
  BY SMTT(60) DEF IssuanceEnv
<1>. HIDE DEF in
<1>2. CASE m.at # "RequestingToken"
  <2>1. s = To(m, << >>)
    BY <1>1, <1>2 DEF VciStep, IssuanceStep
  <2>. QED
    BY <1>1, <2>1, TokenStays DEF in
<1>3. CASE m.at = "RequestingToken" /\ ~valid
  <2>1. s = To(Aborted("TokenNotBound"), << >>)
    BY <1>1, <1>3 DEF VciStep, IssuanceStep
  <2>. QED
    BY <1>1, <2>1, TokenAborts DEF in
<1>4. CASE m.at = "RequestingToken" /\ valid /\ nonce \in c.seen["Issuance"]
  <2>1. s = To(Aborted("CNonceStale"), << >>)
    BY <1>1, <1>4 DEF VciStep, IssuanceStep
  <2>. QED
    BY <1>1, <2>1, TokenAborts DEF in
<1>5. CASE /\ m.at = "RequestingToken" /\ valid /\ nonce \notin c.seen["Issuance"]
           /\ ~WuaValid(c)
  <2>1. s = To(Aborted("ProofKeyNotAttested"), << >>)
    BY <1>1, <1>5 DEF VciStep, IssuanceStep
  <2>. QED
    BY <1>1, <2>1, TokenAborts DEF in
<1>6. CASE /\ m.at = "RequestingToken" /\ valid /\ nonce \notin c.seen["Issuance"]
           /\ WuaValid(c)
  <2>1. s = Goto(m, "ProvingPossession", "SignProof")
    BY <1>1, <1>6 DEF VciStep, IssuanceStep
  <2>. QED
    BY <1>1, <1>6, <2>1, TokenGoes DEF in
<1>. QED
  BY <1>2, <1>3, <1>4, <1>5, <1>6

(* A credential stored.                                                    *)
Holding(c, x) == [c EXCEPT !.held = @ \cup {x}]

(* Storing a credential changes nothing else.                              *)
LEMMA Holds ==
  ASSUME NEW c, NEW f, NEW gone, Base(c, f, gone), NEW x \in Credentials
  PROVE  LET d == Holding(c, x)
         IN  Base(d, f, gone) /\ d.machine = c.machine /\ d.log = c.log
<1>. DEFINE d == Holding(c, x)
<1>1. Only(c, d, "held") /\ d.held = c.held \cup {x}
  BY DEF Holding, Base, CoreType, Only, CoreFields
<1>. HIDE DEF d
<1>2. /\ d.active = c.active /\ d.machine = c.machine /\ d.hash = c.hash
      /\ d.doc = c.doc /\ d.session = c.session /\ d.secrets = c.secrets
      /\ d.log = c.log /\ d.clock = c.clock /\ d.status = c.status
      /\ d.seen = c.seen /\ d.pending = c.pending /\ d.auditOk = c.auditOk
  BY <1>1 DEF Only, CoreFields
<1>3. d.held \in SUBSET Credentials
  BY <1>1 DEF Base, CoreType
<1>4. CoreType(d)
  BY <1>1, <1>2, <1>3 DEF Base, CoreType, Only
<1>5. Base(d, f, gone)
  BY <1>2, <1>4 DEF Base, OthersRest, Kept
<1>. QED
  BY <1>2, <1>5 DEF d

(* The screen that follows a stored credential decides nothing.            *)
LEMMA ReadyScreen == WithReadyScreen(<<Close>>) \in Seq(Quiet)
<1>. DEFINE out == <<Close>>
            P(i) == out[i] = Close /\ \A j \in 1 .. i - 1 : out[j] # Close
            i == CHOOSE i \in DOMAIN out : P(i)
<1>1. DOMAIN out = {1} /\ Len(out) = 1 /\ Close \in Range(out)
  BY SMTT(60) DEF Range
<1>2. i = 1
  <2>1. P(1)
    BY SMTT(60)
  <2>. QED
    BY <1>1, <2>1
<1>3. SubSeq(out, 1, 1 - 1) \in Seq(Quiet) /\ SubSeq(out, 1, 1) \in Seq(Quiet)
  <2>1. out \in Seq(Quiet)
    BY ErrorAndCloseQuiet
  <2>. QED
    BY <1>1, <2>1, SMTT(60)
<1>4. WithReadyScreen(out) = SubSeq(out, 1, 1 - 1) \o <<Screen>> \o SubSeq(out, 1, 1)
  BY <1>1, <1>2 DEF WithReadyScreen
<1>5. <<Screen>> \in Seq(Quiet)
  BY ErrorAndCloseQuiet
<1>. HIDE DEF out
<1>6. SubSeq(out, 1, 1 - 1) \o <<Screen>> \o SubSeq(out, 1, 1) \in Seq(Quiet)
  BY <1>3, <1>5, SMTT(60)
<1>. QED
  BY <1>4, <1>6 DEF out

(* A credential that authenticates ends the issuance with its entry.       *)
LEMMA IssuanceCompletes ==
  ASSUME NEW c, NEW ok, NEW gone, Inv(c, ok, gone), c.active = "Issuance",
         NEW in, in.type # "AcceptOffer", in.credential \in Credentials,
         IssuanceStep(c, in) = Goto(c.machine["Issuance"], "CredentialIssued", "Close")
  PROVE  LET r == DriveIssuance(c, in)
         IN  /\ Good(r, ok, gone)
             /\ Completes(c, r, "Issuance", c.machine["Issuance"].req)
<1>. DEFINE f == "Issuance"
            s == IssuanceStep(c, in)
            m == c.machine[f]
            req == m.req
            x == in.credential
            d == Stepped(c, f, s)
            a == AppendAuditEntry(d, f, req)
            h == Holding(a, x)
            b == FinishFlow(h, f)
            out == WithReadyScreen(<<Close>>)
<1>1. /\ f \in AllFlows /\ Base(c, f, gone) /\ IsMachine(m) /\ req \in Shown \cup Credentials
      /\ LogAccepts(c, req) /\ m.at # "CredentialIssued"
  <2>1. f \in AllFlows /\ Base(c, f, gone)
    BY BaseOfInv DEF AllFlows
  <2>2. IsMachine(m)
    BY <2>1, MachineOfInv
  <2>3. IssuancePhase(c, ok)
    BY DEF Inv, Phase
  <2>. QED
    BY <2>1, <2>2, <2>3 DEF IssuancePhase, IsMachine
<1>. HIDE DEF s
<1>2. s.to = At(m, "CredentialIssued") /\ s.out = <<"Close">>
  BY SMTT(60) DEF Goto, To, s, At
<1>3. s.to.at = "CredentialIssued" /\ s.to.req = req /\ IsMachine(s.to)
  BY <1>1, <1>2, PhaseOnly, SMTT(60)
<1>4. Base(d, f, gone) /\ d.log = c.log /\ d.machine[f] = s.to
  BY <1>1, <1>3, Moves, SMTT(60)
<1>. HIDE DEF d
<1>5. LogAccepts(d, req) /\ d.machine[f].req = req
  BY <1>1, <1>3, <1>4 DEF LogAccepts
<1>. HIDE DEF m
<1>6. Base(a, f, gone) /\ a.machine = d.machine /\ Adds(d, a, f, req)
  BY <1>1, <1>4, Records
<1>. HIDE DEF a
<1>7. Base(h, f, gone) /\ h.machine = a.machine /\ h.log = a.log
  BY <1>6, Holds
<1>. HIDE DEF h
<1>8. h.machine[f].at \in AtRest
  BY <1>3, <1>4, <1>6, <1>7 DEF AtRest
<1>9. /\ Base(b, None, gone) /\ b.log = h.log
      /\ \A g \in AllFlows : b.machine[g] = h.machine[g]
  BY <1>1, <1>7, <1>8, FinishBase
<1>. HIDE DEF b
<1>10. Good(Result(b, out), ok, gone)
  BY <1>9, ReadyScreen, EndGood
<1>11. Adds(c, b, f, req) /\ ~Proving(b)
  BY <1>1, <1>3, <1>4, <1>6, <1>7, <1>9 DEF Adds, Proving
<1>12. Result(b, out).core = b
  BY SMTT(60) DEF Result
<1>13. Completes(c, Result(b, out), f, req)
  BY <1>11, <1>12 DEF Completes
<1>14. IssuanceEffects(d, <<"Close">>) = Result(d, <<Close>>)
  <2>1. TranslateIssuance(d, "Close") = Result(d, <<Close>>)
    BY DEF TranslateIssuance, IssuanceEffect
  <2>2. Flat(<<Close>>)
    BY ErrorAndCloseQuiet, FlatSeq
  <2>. QED
    BY <2>1, <2>2, IssuanceOne, SMTT(60)
<1>15. Result(d, <<Close>>).core = d /\ Result(d, <<Close>>).out = <<Close>>
  BY SMTT(60) DEF Result
<1>16. StoreIssuedCredential(Result(d, <<Close>>), x) = Result(b, out)
  BY <1>5, <1>15 DEF StoreIssuedCredential, Recorded, b, h, a, Holding
<1>17. DriveIssuance(c, in) = StoreIssuedCredential(Result(d, <<Close>>), x)
  BY <1>1, <1>2, <1>3, <1>14
     DEF DriveIssuance, s, d, m, IssuanceStep, IssuanceEnv, CheckAuditEntry
<1>. QED
  BY <1>10, <1>13, <1>16, <1>17 DEF m

(* A credential arrives: it authenticates and is stored with its entry, or *)
(* it does not and nothing is recorded.                                    *)
LEMMA IssuanceCredential ==
  ASSUME NEW c, NEW ok, NEW gone, Inv(c, ok, gone), c.active = "Issuance",
         c.machine["Issuance"].at = "RequestingCredential",
         NEW valid \in BOOLEAN, NEW x \in Credentials
  PROVE  LET in == [type |-> "CredentialResponse", valid |-> valid, credential |-> x]
             r == CredentialReceived(c, in)
         IN  /\ Good(r, ok, gone)
             /\ Authenticates(c, in) =>
                   Completes(c, r, "Issuance", c.machine["Issuance"].req)
             /\ ~Authenticates(c, in) => Keeps(c, r)
<1>. DEFINE in == [type |-> "CredentialResponse", valid |-> valid, credential |-> x]
            ex == [in EXCEPT !.valid = Authenticates(c, in)]
            m == c.machine["Issuance"]
            s == IssuanceStep(c, ex)
            r == DriveIssuance(c, ex)
<1>1. /\ ex.type = "CredentialResponse" /\ ex.valid = Authenticates(c, in)
      /\ ex.credential = x
  BY SMTT(60)
<1>. HIDE DEF in, ex
<1>2. CredentialReceived(c, in) = r
  BY DEF CredentialReceived, ex
<1>3. CASE Authenticates(c, in)
  <2>1. s = Goto(m, "CredentialIssued", "Close")
    BY <1>1, <1>3 DEF VciStep, IssuanceStep
  <2>2. Good(r, ok, gone) /\ Completes(c, r, "Issuance", m.req)
    BY <1>1, <2>1, IssuanceCompletes
  <2>. QED
    BY <1>2, <1>3, <2>2 DEF in
<1>4. CASE ~Authenticates(c, in)
  <2>1. s = To(Aborted("CredentialInvalid"), <<"Close">>)
    BY <1>1, <1>4 DEF VciStep, IssuanceStep
  <2>2. Base(c, "Issuance", gone) /\ m.at # "Aborted"
    BY IssuanceUnder
  <2>3. Good(r, ok, gone) /\ Keeps(c, r) /\ r.out \in Seq(Quiet) /\ ~Proving(r.core)
    BY <2>1, <2>2, IssuanceAborts
  <2>. QED
    BY <1>2, <1>4, <2>3 DEF in
<1>. QED
  BY <1>3, <1>4

-----------------------------------------------------------------------------
(* The events of an issuance.                                              *)
LEMMA CredentialOfferReceivedStep ==
  ASSUME Inv(core, approved, spent), CredentialOfferReceived
  PROVE  Turn /\ LogTurn
<1>1. PICK req \in Requests, parsed \in BOOLEAN :
         Start("Issuance",
               Admit(core, "Issuance",
                     DriveIssuance(BeginFlow(core, "Issuance"),
                                   [type |-> "CredentialOffer", parsed |-> parsed,
                                    req |-> req])))
  BY DEF CredentialOfferReceived
<1>. DEFINE b == BeginFlow(core, "Issuance")
            r == DriveIssuance(b, [type |-> "CredentialOffer", parsed |-> parsed,
                                   req |-> req])
<1>2. "Issuance" \in AllFlows
  BY DEF AllFlows
<1>3. /\ Base(b, "Issuance", spent) /\ b.machine["Issuance"] = IdleMachine
      /\ DOMAIN b.pending = {}
  BY <1>2, Begins, SMTT(60)
<1>. HIDE DEF b
<1>4. Good(r, {}, spent) /\ Keeps(b, r)
  BY <1>3, IssuanceStart
<1>. QED
  BY <1>1, <1>2, <1>4, BegunTurn DEF b

(* The authorization server answers the pushed request.                    *)
LEMMA ParPushedStep ==
  ASSUME Inv(core, approved, spent), ParPushed
  PROVE  Turn /\ LogTurn
<1>1. core.active = "Issuance"
  BY DEF ParPushed, IssuanceResult, Answer
<1>2. PICK valid \in BOOLEAN, id \in Answerable("Par") :
         Event(DriveIssuance(Consume(id), [type |-> "ParPushed", valid |-> valid]))
  BY DEF ParPushed, IssuanceResult, Answer
<1>. DEFINE c == Consume(id)
            r == DriveIssuance(c, [type |-> "ParPushed", valid |-> valid])
<1>3. id \in DOMAIN core.pending /\ Inv(c, approved, spent) /\ c.active = "Issuance"
  BY <1>1, Answering, SMTT(60)
<1>. HIDE DEF c
<1>4. Good(r, approved, spent) /\ Keeps(c, r)
  BY <1>3, IssuanceParPushed
<1>. QED
  BY <1>2, <1>3, <1>4, AnswerTurn DEF c

(* The browser returns a code.                                             *)
LEMMA AuthorizationCodeReturnedStep ==
  ASSUME Inv(core, approved, spent), AuthorizationCodeReturned
  PROVE  Turn /\ LogTurn
<1>1. core.active = "Issuance"
  BY DEF AuthorizationCodeReturned, IssuanceResult, Answer
<1>2. PICK id \in Answerable("AuthorizationCode") :
         Event(DriveIssuance(Consume(id), [type |-> "AuthCodeReturned"]))
  BY DEF AuthorizationCodeReturned, IssuanceResult, Answer
<1>. DEFINE c == Consume(id)
            r == DriveIssuance(c, [type |-> "AuthCodeReturned"])
<1>3. id \in DOMAIN core.pending /\ Inv(c, approved, spent) /\ c.active = "Issuance"
  BY <1>1, Answering, SMTT(60)
<1>. HIDE DEF c
<1>4. Good(r, approved, spent) /\ Keeps(c, r)
  BY <1>3, IssuanceCodeReturned
<1>. QED
  BY <1>2, <1>3, <1>4, AnswerTurn DEF c

(* A transaction code is entered.                                          *)
LEMMA TransactionCodeEnteredStep ==
  ASSUME Inv(core, approved, spent), TransactionCodeEntered
  PROVE  Turn /\ LogTurn
<1>1. core.active = "Issuance"
  BY DEF TransactionCodeEntered, IssuanceResult, Answer
<1>2. PICK valid \in BOOLEAN, id \in Answerable("TransactionCode") :
         Event(DriveIssuance(Consume(id), [type |-> "TxCodeEntered", valid |-> valid]))
  BY DEF TransactionCodeEntered, IssuanceResult, Answer
<1>. DEFINE c == Consume(id)
            r == DriveIssuance(c, [type |-> "TxCodeEntered", valid |-> valid])
<1>3. id \in DOMAIN core.pending /\ Inv(c, approved, spent) /\ c.active = "Issuance"
  BY <1>1, Answering, SMTT(60)
<1>. HIDE DEF c
<1>4. Good(r, approved, spent) /\ Keeps(c, r)
  BY <1>3, IssuanceTxCodeEntered
<1>. QED
  BY <1>2, <1>3, <1>4, AnswerTurn DEF c

(* Notices sign nothing.                                                   *)
LEMMA QuietSignsNothing ==
  ASSUME NEW out \in Seq(Quiet)
  PROVE  EffectsIn(out, {"Sign"}) = {}
<1>1. ASSUME NEW e \in Range(out) PROVE e.kind # "Sign"
  <2>1. e \in Quiet
    BY InRange
  <2>2. Close.kind = "Close" /\ Screen.kind = "Screen"
    BY DEF Close, Screen, Eff
  <2>. QED
    BY <2>1, <2>2 DEF Quiet
<1>. QED
  BY <1>1 DEF EffectsIn

(* A token is received: its c_nonce is spent exactly when the proof is to  *)
(* be signed.                                                              *)
LEMMA ReceiveTokenStep ==
  ASSUME Inv(core, approved, spent), ReceiveToken
  PROVE  Turn /\ LogTurn
<1>1. PICK valid \in BOOLEAN, nonce \in CNonces :
        /\ core.active = "Issuance"
        /\ \E id \in Answerable("Token") :
              LET r == TokenReceived(Consume(id),
                           [type |-> "TokenResponse", valid |-> valid, nonce |-> nonce])
                  w == SerializeWireEffects(r)
              IN  /\ core' = w.core
                  /\ effects' = w.out
                  /\ spent' = IF EffectsIn(w.out, {"Sign"}) = {} THEN spent
                              ELSE spent \cup {<<"Issuance", nonce>>}
  BY DEF ReceiveToken
<1>2. PICK id \in Answerable("Token") :
              LET r == TokenReceived(Consume(id),
                           [type |-> "TokenResponse", valid |-> valid, nonce |-> nonce])
                  w == SerializeWireEffects(r)
              IN  /\ core' = w.core
                  /\ effects' = w.out
                  /\ spent' = IF EffectsIn(w.out, {"Sign"}) = {} THEN spent
                              ELSE spent \cup {<<"Issuance", nonce>>}
  BY <1>1
<1>3. approved' = approved /\ history' = history
  BY DEF ReceiveToken
<1>. DEFINE c == Consume(id)
            r == TokenReceived(c, [type |-> "TokenResponse", valid |-> valid,
                                   nonce |-> nonce])
            w == SerializeWireEffects(r)
            more == spent \cup {<<"Issuance", nonce>>}
<1>4. /\ core' = w.core /\ effects' = w.out
      /\ spent' = IF EffectsIn(w.out, {"Sign"}) = {} THEN spent ELSE more
  BY <1>2
<1>5. /\ Inv(c, approved, spent) /\ c.active = "Issuance" /\ c.log = core.log
      /\ (Proving(c) <=> Proving(core))
  BY <1>1, Answering, SMTT(60)
<1>. HIDE DEF c
<1>6. TokenGood(c, r, approved, spent, nonce)
  BY <1>5, IssuanceToken
<1>. HIDE DEF r
<1>7. Good(r, approved, spent) /\ r.core.log = c.log
  BY <1>6 DEF TokenGood
<1>8. /\ Good(w, approved, spent) /\ Keeps(r.core, w)
      /\ \/ w.out = r.out /\ w.core.machine = r.core.machine
         \/ w.out = << >> /\ ~Proving(w.core)
  BY <1>7, WireGood
<1>9. Good(r, approved, more) => Good(w, approved, more)
  <2>1. ASSUME Good(r, approved, more) PROVE Good(w, approved, more)
    BY <2>1, WireGood, SMTT(60)
  <2>. QED
    BY <2>1
<1>. HIDE DEF w
<1>10. core'.log = core.log
  BY <1>4, <1>5, <1>7, <1>8 DEF Keeps
<1>11. Inv(core', approved, spent) /\ effects' \in Seq(Allowed(core', approved, spent))
  BY <1>4, <1>8 DEF Good
<1>12. EffectsIn(<< >>, {"Sign"}) = {}
  BY QuietSignsNothing, ErrorAndCloseQuiet
<1>13. CASE r.out \in Seq(Quiet) /\ (Proving(r.core) => Proving(c))
  <2>1. EffectsIn(r.out, {"Sign"}) = {}
    BY <1>13, QuietSignsNothing
  <2>2. spent' = spent
    BY <1>4, <1>8, <1>12, <2>1
  <2>3. Proving(core') => Proving(core)
    BY <1>4, <1>5, <1>8, <1>13 DEF Keeps
  <2>. QED
    BY <1>3, <1>10, <1>11, <2>2, <2>3 DEF Turn, LogTurn
<1>14. CASE Proves(r, approved, spent, nonce)
  <2>1. Good(w, approved, more) /\ <<"Issuance", nonce>> \notin spent
    BY <1>9, <1>14 DEF Proves
  <2>2. more # spent
    BY <2>1
  <2>3. Inv(core', approved, more)
    BY <1>4, <2>1 DEF Good
  <2>4. CASE spent' = more
    BY <1>3, <1>10, <1>11, <2>2, <2>3, <2>4 DEF Turn, LogTurn
  <2>5. CASE spent' = spent /\ spent' # more
    <3>1. PICK x : r.out = <<Eff("Sign", "Issuance", x)>>
      BY <1>14 DEF Proves
    <3>2. Eff("Sign", "Issuance", x) \in Range(r.out)
      BY <3>1, SMTT(60) DEF Range
    <3>3. Eff("Sign", "Issuance", x).kind = "Sign"
      BY DEF Eff
    <3>4. EffectsIn(r.out, {"Sign"}) # {}
      BY <3>2, <3>3 DEF EffectsIn
    <3>5. ~Proving(core')
      BY <1>4, <1>8, <2>5, <3>4
    <3>. QED
      BY <1>3, <1>10, <1>11, <2>5, <3>5 DEF Turn, LogTurn
  <2>. QED
    BY <1>4, <2>4, <2>5
<1>. QED
  BY <1>6, <1>13, <1>14 DEF TokenGood

(* A credential is received: the history grows exactly when the log does.  *)
LEMMA ReceiveCredentialStep ==
  ASSUME Inv(core, approved, spent), ReceiveCredential
  PROVE  Turn /\ LogTurn
<1>. DEFINE f == "Issuance"
            In(valid, x) == [type |-> "CredentialResponse", valid |-> valid,
                             credential |-> x]
<1>1. PICK valid \in BOOLEAN, x \in Credentials :
         Complete("Credential", f, Authenticates(core, In(valid, x)),
                  LAMBDA d : CredentialReceived(d, In(valid, x)))
  BY DEF ReceiveCredential
<1>. DEFINE in == In(valid, x)
<1>2. core.active = f /\ approved' = approved
  BY <1>1 DEF Complete
<1>3. PICK id \in Answerable("Credential") :
         /\ Released(CredentialReceived(Consume(id), in))
         /\ history' = IF Authenticates(core, in)
                       THEN Append(history, [kind |-> f, shown |-> core.pending[id].about])
                       ELSE history
  BY <1>1 DEF Complete
<1>. DEFINE c == Consume(id)
            op == core.pending[id]
            r == CredentialReceived(c, in)
<1>4. /\ id \in DOMAIN core.pending
      /\ Inv(c, approved, spent) /\ c.active = f /\ c.log = core.log
      /\ (Proving(c) <=> Proving(core))
      /\ Fits(c, approved, op) /\ op.result = "Credential" /\ op.flow = c.active
  BY <1>2, Answering, SMTT(60)
<1>5. c.clock = core.clock /\ c.trust = core.trust
  BY <1>4, Consumed, SMTT(60)
<1>6. Authenticates(c, in) <=> Authenticates(core, in)
  BY <1>5 DEF Authenticates, IssuerTrusted, TrustListValid, TrustList
<1>. HIDE DEF c
<1>7. c.machine[f].at = "RequestingCredential" /\ op.about = c.machine[f].req
  BY <1>4 DEF Fits
<1>8. /\ Good(r, approved, spent)
      /\ Authenticates(c, in) => Completes(c, r, f, c.machine[f].req)
      /\ ~Authenticates(c, in) => Keeps(c, r)
  BY <1>4, <1>7, IssuanceCredential
<1>. HIDE DEF r
<1>9. Released(r)
  BY <1>3 DEF c, r
<1>10. CASE Authenticates(core, in)
  <2>1. Completes(core, r, f, op.about)
    BY <1>4, <1>6, <1>7, <1>8, <1>10 DEF Completes, Adds
  <2>2. f \in AllFlows /\ op.about \in Shown \cup Credentials
    BY <1>4, <1>7 DEF Inv, CoreType, AllFlows
  <2>3. history' = Append(history, [kind |-> f, shown |-> op.about])
    BY <1>3, <1>10
  <2>. QED
    BY <1>2, <1>8, <1>9, <2>1, <2>2, <2>3, EntryTurn
<1>11. CASE ~Authenticates(core, in)
  <2>1. r.core.log = core.log /\ (Proving(r.core) => Proving(core))
    BY <1>4, <1>6, <1>8, <1>11 DEF Keeps
  <2>2. Turn /\ core'.log = r.core.log
    BY <1>2, <1>8, <1>9, <2>1, ReleaseTurn
  <2>3. history' = history
    BY <1>3, <1>11
  <2>. QED
    BY <2>1, <2>2, <2>3 DEF LogTurn
<1>. QED
  BY <1>10, <1>11

-----------------------------------------------------------------------------
(* No output has no effect;                                                *)
LEMMA QesNone ==
  ASSUME NEW c
  PROVE  QesEffects(c, << >>) = Result(c, << >>)
BY SMTT(60) DEF QesEffects, Translated, Result

(* one output has the effects it translates to;                            *)
LEMMA QesOne ==
  ASSUME NEW c, NEW a, NEW d, NEW out, Flat(out),
         TranslateQes(c, a) = Result(d, out)
  PROVE  QesEffects(c, <<a>>) = Result(d, out)
BY SMTT(60) DEF QesEffects, Translated, Result, Flat

(* the Close that follows the output of a signed request adds none.        *)
LEMMA QesTwo ==
  ASSUME NEW c, NEW a, NEW b, NEW d, NEW out, Flat(out),
         TranslateQes(c, a) = Result(d, out),
         TranslateQes(d, b) = Result(d, << >>)
  PROVE  QesEffects(c, <<a, b>>) = Result(d, out)
<1>1. /\ TranslateQes(c, a).core = d /\ TranslateQes(c, a).out = out
      /\ TranslateQes(d, b).core = d /\ TranslateQes(d, b).out = << >>
  BY SMTT(60) DEF Result
<1>2. (<< >> \o out) \o << >> = out
  BY DEF Flat
<1>. DEFINE t == TranslateQes(c, a)
            u == TranslateQes(t.core, b)
<1>3. QesEffects(c, <<a, b>>) = Result(u.core, (<< >> \o t.out) \o u.out)
  BY SMTT(60) DEF QesEffects, Translated, Result
<1>. QED
  BY <1>1, <1>2, <1>3

(* A signature request the machine aborts is reset.                        *)
LEMMA QesAborts ==
  ASSUME NEW c, NEW gone, NEW ok, Base(c, "Qes", gone), NEW why,
         NEW in,
         QesStep(c.machine["Qes"], in, [seen |-> c.seen["Qes"]])
         = To(Aborted(why), << >>)
  PROVE  Good(DriveQes(c, in), ok, gone) /\ Keeps(c, DriveQes(c, in))
<1>. DEFINE f == "Qes"
            s == QesStep(c.machine[f], in, [seen |-> c.seen[f]])
            d == Stepped(c, f, s)
<1>0. s.out = << >> /\ s.to = Aborted(why)
  BY SMTT(60) DEF To
<1>1. s.out = << >> /\ s.to.at = "Aborted" /\ s.to.why = why /\ IsMachine(s.to)
  <2>1. LET m == Aborted(why) IN m.at = "Aborted" /\ m.why = why /\ IsMachine(m)
    BY SMTT(60) DEF Aborted, Idle, IsMachine, Shown
  <2>. QED
    BY <1>0, <2>1
<1>2. f \in AllFlows
  BY DEF AllFlows
<1>. HIDE DEF s
<1>3. /\ Base(d, f, gone) /\ d.log = c.log /\ d.machine[f] = s.to
      /\ f # "Issuance" => (Proving(d) <=> Proving(c))
  BY <1>1, <1>2, Moves, SMTT(60)
<1>. HIDE DEF d
<1>5. QesEffects(d, << >>).core = d
  <2>1. QesEffects(d, << >>) = Result(d, << >>)
    BY QesNone
  <2>. QED
    BY <2>1, SMTT(60) DEF Result
<1>6. DriveQes(c, in) = Result(ResetFlow(d, f), Ends(why))
  BY <1>1, <1>5 DEF DriveQes, s, d
<1>7. Ends(why) \in Seq(Quiet)
  BY ErrorAndCloseQuiet DEF Ends
<1>8. /\ Good(Result(ResetFlow(d, f), Ends(why)), ok, gone)
      /\ Keeps(d, Result(ResetFlow(d, f), Ends(why)))
  BY <1>2, <1>3, <1>7, ResetGood
<1>. QED
  BY <1>3, <1>6, <1>8 DEF Keeps

(* A signature request arrives: it is refused, or its nonce is spent and   *)
(* its confirmation shown.                                                 *)
LEMMA QesStart ==
  ASSUME NEW c, NEW gone, NEW ok, Base(c, "Qes", gone),
         c.machine["Qes"] = IdleMachine, DOMAIN c.pending = {},
         NEW parsed \in BOOLEAN, NEW req \in Requests
  PROVE  LET r == DriveQes(c, [type |-> "SignatureRequest",
                                   parsed |-> parsed, req |-> req])
         IN  Good(r, ok, gone) /\ Keeps(c, r)
<1>. DEFINE f == "Qes"
            in == [type |-> "SignatureRequest", parsed |-> parsed, req |-> req]
            s == QesStep(c.machine[f], in, [seen |-> c.seen[f]])
            m == [c.machine[f] EXCEPT !.at = "AwaitingAuthorization", !.req = req]
            d == Stepped(c, f, s)
            g == Used(d, f, NonceOf[req])
            h == Asking(g, f, req)
            out == <<Eff("Consent", f, req)>>
<1>1. /\ c.machine[f].at = "Idle" /\ in.type = "SignatureRequest"
      /\ in.parsed = parsed /\ in.req = req
  BY SMTT(60) DEF IdleMachine
<1>2. f \in AllFlows /\ f \in Replayed /\ req \in Shown
  BY DEF AllFlows, Replayed, Shown
<1>. HIDE DEF in
<1>3. CASE ~parsed
  <2>1. s = To(Aborted("MalformedRequest"), << >>)
    BY <1>1, <1>3 DEF QesStep
  <2>. QED
    BY <2>1, QesAborts DEF in
<1>4. CASE parsed /\ NonceOf[req] \in c.seen[f]
  <2>1. s = To(Aborted("NonceReplayed"), << >>)
    BY <1>1, <1>4 DEF QesStep
  <2>. QED
    BY <2>1, QesAborts DEF in
<1>5. CASE parsed /\ NonceOf[req] \notin c.seen[f]
  <2>1. s = To(m, <<"RenderSignConfirmation">>)
    BY <1>1, <1>5 DEF QesStep
  <2>2. /\ s.to.at = "AwaitingAuthorization" /\ s.to.req = req /\ IsMachine(s.to)
        /\ s.out = <<"RenderSignConfirmation">>
    <3>1. m.at = "AwaitingAuthorization" /\ m.req = req /\ IsMachine(m)
      BY <1>2, SMTT(60) DEF IdleMachine, IsMachine
    <3>2. s.to = m /\ s.out = <<"RenderSignConfirmation">>
      BY <2>1, SMTT(60) DEF To
    <3>. HIDE DEF s, m
    <3>. QED
      BY <3>1, <3>2
  <2>. HIDE DEF s
  <2>3. /\ Base(d, f, gone) /\ Alike(c, d) /\ d.log = c.log /\ d.machine[f] = s.to
        /\ f # "Issuance" => (Proving(d) <=> Proving(c))
    BY <1>2, <2>2, Moves, SMTT(60)
  <2>. HIDE DEF d
  <2>4. /\ Base(g, f, gone) /\ Alike(d, g) /\ g.machine = d.machine
        /\ g.log = d.log /\ NonceOf[req] \in g.seen[f]
    BY <1>2, <2>3, Uses, SMTT(60)
  <2>5. [Stepped(c, f, s) EXCEPT !.seen[f] = @ \cup {NonceOf[s.to.req]}] = g
    BY <2>2 DEF Used, d
  <2>. HIDE DEF g
  <2>6. TranslateQes(g, "RenderSignConfirmation") = Result(h, out)
    BY <2>2, <2>3, <2>4 DEF TranslateQes, Asking
  <2>7. /\ Base(h, f, gone) /\ h.machine = g.machine /\ h.seen = g.seen
        /\ h.hash[f] = req
    BY <1>2, <2>4, Raises, SMTT(60)
  <2>8. Phase(h, ok, gone)
    <3>. HIDE DEF h
    <3>1. h.active = f
      BY <2>7 DEF Base
    <3>2. Unspent(h, f, gone)
      BY <1>2, <1>5, <2>2, <2>3, <2>4, <2>7, SMTT(60) DEF Unspent, Base, Kept
    <3>3. QesPhase(h, ok, gone)
      BY <2>2, <2>3, <2>4, <2>7, <3>2 DEF QesPhase, OnScreen
    <3>. QED
      BY <3>1, <3>3 DEF Phase
  <2>9. DOMAIN g.pending = {}
    BY <2>3, <2>4 DEF Alike
  <2>10. Good(Result(h, out), ok, gone) /\ Keeps(g, Result(h, out))
    BY <1>2, <2>4, <2>8, <2>9, Asks
  <2>. HIDE DEF h, out
  <2>11. Flat(out)
    BY <2>10, GoodFlat
  <2>12. QesEffects(g, <<"RenderSignConfirmation">>) = Result(h, out)
    BY <2>6, <2>11, QesOne, SMTT(60)
  <2>13. DriveQes(c, in) = Result(h, out)
    BY <2>2, <2>5, <2>12 DEF DriveQes, s
  <2>14. g.log = c.log /\ (Proving(g) => Proving(c))
    BY <2>3, <2>4 DEF Proving
  <2>. QED
    BY <2>10, <2>13, <2>14 DEF Keeps, in
<1>. QED
  BY <1>3, <1>4, <1>5

(* A result the machine does not expect leaves it where it is.             *)
LEMMA QesStays ==
  ASSUME NEW c, NEW ok, NEW gone, Inv(c, ok, gone), c.active = "Qes", NEW in,
         QesStep(c.machine["Qes"], in, [seen |-> c.seen["Qes"]])
         = To(c.machine["Qes"], << >>)
  PROVE  Good(DriveQes(c, in), ok, gone) /\ Keeps(c, DriveQes(c, in))
<1>. DEFINE f == "Qes"
            s == QesStep(c.machine[f], in, [seen |-> c.seen[f]])
            m == c.machine[f]
            d == Stepped(c, f, s)
            g == Used(d, f, NonceOf[m.req])
            e == IF m.at = "AwaitingAuthorization" THEN g ELSE d
<1>1. s.to = m /\ s.out = << >>
  BY SMTT(60) DEF To
<1>2. /\ f \in AllFlows /\ f \in Replayed /\ Base(c, f, gone)
      /\ QesPhase(c, ok, gone)
  BY BaseOfInv DEF AllFlows, Replayed, Inv, Phase
<1>3. m.at # "Aborted" /\ IsMachine(m)
  BY <1>2, MachineOfInv DEF QesPhase
<1>. HIDE DEF s, m
<1>4. /\ Base(d, f, gone) /\ Alike(c, d) /\ d.hash = c.hash /\ d.seen = c.seen
      /\ d.log = c.log /\ d.machine[f] = m
      /\ f # "Issuance" => (Proving(d) <=> Proving(c))
  BY <1>1, <1>2, <1>3, Moves, SMTT(60)
<1>. HIDE DEF d
<1>5. SeenMore(c, d)
  BY <1>4 DEF SeenMore
<1>6. Inv(d, ok, gone) /\ d.active = f
  BY <1>2, <1>4, <1>5, FrameInv DEF m, Alike
<1>7. /\ Base(g, f, gone) /\ Alike(d, g) /\ g.machine = d.machine
      /\ g.hash = d.hash /\ g.log = d.log /\ SeenMore(d, g)
  BY <1>2, <1>4, Uses, SMTT(60)
<1>8. e \in {d, g}
  OBVIOUS
<1>. HIDE DEF g, e
<1>9. Inv(g, ok, gone)
  BY <1>2, <1>6, <1>7, FrameInv
<1>10. Inv(e, ok, gone) /\ e.log = c.log /\ (Proving(e) => Proving(c))
  BY <1>4, <1>6, <1>7, <1>8, <1>9 DEF Proving
<1>11. Good(Result(e, << >>), ok, gone) /\ Keeps(c, Result(e, << >>))
  BY <1>10, Silent, Returns
<1>12. QesEffects(e, << >>) = Result(e, << >>)
  BY QesNone
<1>13. DriveQes(c, in) = Result(e, << >>)
  BY <1>1, <1>3, <1>12 DEF DriveQes, s, d, e, g, Used
<1>. QED
  BY <1>11, <1>13

(* The holder authorizes: the authorization is to be signed.               *)
LEMMA QesApproved ==
  ASSUME NEW c, NEW ok, NEW gone, Inv(c, ok, gone), c.active = "Qes",
         c.hash["Qes"] \in ok
  PROVE  LET r == DriveQes(c, [type |-> "UserAuthorized"])
         IN  Good(r, ok, gone) /\ Keeps(c, r)
<1>. DEFINE f == "Qes"
            in == [type |-> "UserAuthorized"]
            s == QesStep(c.machine[f], in, [seen |-> c.seen[f]])
            d == Stepped(c, f, s)
            req == c.machine[f].req
            out == <<Eff("Sign", f, req)>>
<1>1. in.type = "UserAuthorized"
  OBVIOUS
<1>. HIDE DEF in
<1>2. CASE c.machine[f].at # "AwaitingAuthorization"
  <2>1. s = To(c.machine[f], << >>)
    BY <1>1, <1>2 DEF QesStep
  <2>. QED
    BY <2>1, QesStays DEF in
<1>3. CASE c.machine[f].at = "AwaitingAuthorization"
  <2>1. s = To(At(c.machine[f], "AwaitingSca"), <<"SignAuthorization">>)
    BY <1>1, <1>3 DEF QesStep, At
  <2>2. /\ f \in AllFlows /\ f # None /\ Base(c, f, gone) /\ QesPhase(c, ok, gone)
    BY BaseOfInv, NoneIsNoFlow DEF AllFlows, Inv, Phase
  <2>3. IsMachine(c.machine[f])
    BY <2>2, MachineOfInv
  <2>. HIDE DEF s
  <2>4. s.to = At(c.machine[f], "AwaitingSca") /\ s.out = <<"SignAuthorization">>
    BY <2>1, SMTT(60) DEF To
  <2>5. s.to.at = "AwaitingSca" /\ s.to.req = req /\ IsMachine(s.to)
    BY <2>3, <2>4, PhaseOnly, SMTT(60)
  <2>6. /\ Base(d, f, gone) /\ Alike(c, d) /\ d.hash = c.hash /\ d.seen = c.seen
        /\ d.log = c.log /\ d.machine[f] = s.to
        /\ f # "Issuance" => (Proving(d) <=> Proving(c))
    BY <2>2, <2>5, Moves, SMTT(60)
  <2>. HIDE DEF d
  <2>7. d.active = f /\ d.pending = c.pending
    BY <2>6 DEF Alike
  <2>8. req = c.hash[f] /\ req \in ok /\ req \in Abouts
    BY <2>2 DEF QesPhase, OnScreen, Base, CoreType, Abouts
  <2>9. QesPhase(d, ok, gone)
    BY <1>3, <2>2, <2>5, <2>6, <2>8
       DEF QesPhase, OnScreen, Approved, Unspent
  <2>10. Phase(d, ok, gone)
    BY <2>7, <2>9 DEF Phase
  <2>11. \A id \in DOMAIN d.pending : Fits(d, ok, d.pending[id])
    <3>1. ASSUME NEW op, Fits(c, ok, op) PROVE Fits(d, ok, op)
      BY <1>3, <2>6, <2>7, <3>1 DEF Fits
    <3>. QED
      BY <2>7, <3>1 DEF Inv
  <2>12. ResultOf["Sign"] = "Signature" /\ "Sign" \in DOMAIN ResultOf
    BY DEF ResultOf
  <2>13. Fits(d, ok, [flow |-> f, result |-> ResultOf["Sign"], about |-> req])
    BY <2>2, <2>7, <2>12 DEF Fits
  <2>14. out \in Seq(Allowed(d, ok, gone))
    BY <2>2, <2>7, <2>8, <2>12, <2>13, EffAllowed
  <2>16. TranslateQes(d, "SignAuthorization") = Result(d, out)
    BY <2>5, <2>6 DEF TranslateQes
  <2>. HIDE DEF out
  <2>17. Good(Result(d, out), ok, gone) /\ Keeps(c, Result(d, out))
    BY <2>6, <2>10, <2>11, <2>14, Advances
  <2>18. QesEffects(d, <<"SignAuthorization">>) = Result(d, out)
    BY <2>16, <2>17, GoodFlat, QesOne, SMTT(60)
  <2>19. DriveQes(c, in) = Result(d, out)
    BY <2>4, <2>5, <2>18 DEF DriveQes, s, d
  <2>. QED
    BY <2>17, <2>19 DEF in
<1>. QED
  BY <1>2, <1>3

(* The holder declines: the request is over.                               *)
LEMMA QesDeclined ==
  ASSUME NEW c, NEW ok, NEW gone, Inv(c, ok, gone), c.active = "Qes"
  PROVE  LET r == DriveQes(c, [type |-> "UserDeclined"])
         IN  Good(r, ok, gone) /\ Keeps(c, r)
<1>. DEFINE f == "Qes"
            in == [type |-> "UserDeclined"]
            s == QesStep(c.machine[f], in, [seen |-> c.seen[f]])
<1>1. in.type = "UserDeclined"
  OBVIOUS
<1>. HIDE DEF in
<1>2. CASE c.machine[f].at # "AwaitingAuthorization"
  <2>1. s = To(c.machine[f], << >>)
    BY <1>1, <1>2 DEF QesStep
  <2>. QED
    BY <2>1, QesStays DEF in
<1>3. CASE c.machine[f].at = "AwaitingAuthorization"
  <2>1. s = To(Aborted("UserDeclined"), << >>)
    BY <1>1, <1>3 DEF QesStep
  <2>2. Base(c, f, gone)
    BY BaseOfInv
  <2>. QED
    BY <2>1, <2>2, QesAborts DEF in
<1>. QED
  BY <1>2, <1>3

(* The authorization is signed and sent to the provider.                   *)
LEMMA QesSigned ==
  ASSUME NEW c, NEW ok, NEW gone, Inv(c, ok, gone), c.active = "Qes"
  PROVE  LET r == DriveQes(c, [type |-> "AuthorizationSignatureProduced"])
         IN  Good(r, ok, gone) /\ Keeps(c, r)
<1>. DEFINE f == "Qes"
            in == [type |-> "AuthorizationSignatureProduced"]
            s == QesStep(c.machine[f], in, [seen |-> c.seen[f]])
            d == Stepped(c, f, s)
            req == c.machine[f].req
            out == <<Eff("Http", f, req)>>
<1>1. in.type = "AuthorizationSignatureProduced"
  OBVIOUS
<1>. HIDE DEF in
<1>2. CASE c.machine[f].at # "AwaitingSca"
  <2>1. s = To(c.machine[f], << >>)
    BY <1>1, <1>2 DEF QesStep
  <2>. QED
    BY <2>1, QesStays DEF in
<1>3. CASE c.machine[f].at = "AwaitingSca"
  <2>1. s = To(At(c.machine[f], "Signed"), <<"SendToQtsp", "Close">>)
    BY <1>1, <1>3 DEF QesStep, At
  <2>2. /\ f \in AllFlows /\ f # None /\ f \in Replayed
        /\ Base(c, f, gone) /\ QesPhase(c, ok, gone)
    BY BaseOfInv, NoneIsNoFlow DEF AllFlows, Replayed, Inv, Phase
  <2>3. IsMachine(c.machine[f])
    BY <2>2, MachineOfInv
  <2>. HIDE DEF s
  <2>4. /\ s.to = At(c.machine[f], "Signed")
        /\ s.out = <<"SendToQtsp", "Close">>
    BY <2>1, SMTT(60) DEF To
  <2>5. s.to.at = "Signed" /\ s.to.req = req /\ IsMachine(s.to)
    BY <2>3, <2>4, PhaseOnly, SMTT(60)
  <2>6. /\ Base(d, f, gone) /\ Alike(c, d) /\ d.hash = c.hash /\ d.seen = c.seen
        /\ d.log = c.log /\ d.machine[f] = s.to
        /\ f # "Issuance" => (Proving(d) <=> Proving(c))
    BY <2>2, <2>5, Moves, SMTT(60)
  <2>. HIDE DEF d
  <2>9. d.active = f /\ d.pending = c.pending
    BY <2>6 DEF Alike
  <2>10. /\ req = c.hash[f] /\ req \in ok /\ req \in Abouts
         /\ <<f, NonceOf[req]>> \notin gone /\ NonceOf[req] \in c.seen[f]
    BY <1>3, <2>2 DEF QesPhase, OnScreen, Base, CoreType, Abouts, Approved, Unspent
  <2>11. QesPhase(d, ok, gone)
    BY <2>2, <2>5, <2>6, <2>10
       DEF QesPhase, OnScreen, Approved
  <2>12. Phase(d, ok, gone)
    BY <2>9, <2>11 DEF Phase
  <2>13. \A id \in DOMAIN d.pending : Fits(d, ok, d.pending[id])
    <3>1. ASSUME NEW op, Fits(c, ok, op) PROVE Fits(d, ok, op)
      BY <1>3, <2>6, <2>9, <3>1 DEF Fits
    <3>. QED
      BY <2>9, <3>1 DEF Inv
  <2>14. ResultOf["Http"] = "Delivery" /\ "Http" \in DOMAIN ResultOf
    BY DEF ResultOf
  <2>15. Fits(d, ok, [flow |-> f, result |-> ResultOf["Http"], about |-> req])
    BY <2>2, <2>5, <2>6, <2>9, <2>10, <2>14 DEF Fits
  <2>16. Sendable(d, gone, Eff("Http", f, req))
    BY <2>5, <2>6, <2>9, <2>10 DEF Sendable, Eff
  <2>17. out \in Seq(Allowed(d, ok, gone))
    BY <2>2, <2>9, <2>10, <2>14, <2>15, <2>16, EffAllowed
  <2>18. TranslateQes(d, "SendToQtsp") = Result(d, out)
    BY <2>5, <2>6 DEF TranslateQes
  <2>19. TranslateQes(d, "Close") = Result(d, << >>)
    BY <2>5, <2>6 DEF TranslateQes
  <2>. HIDE DEF out
  <2>20. Proving(d) => Proving(c)
    BY <2>6 DEF Proving
  <2>21. Good(Result(d, out), ok, gone) /\ Keeps(c, Result(d, out))
    BY <2>6, <2>12, <2>13, <2>17, <2>20, Advances
  <2>22. Flat(out)
    BY <2>21, GoodFlat
  <2>23. QesEffects(d, <<"SendToQtsp", "Close">>) = Result(d, out)
    BY <2>18, <2>19, <2>22, QesTwo, SMTT(60)
  <2>24. DriveQes(c, in) = Result(d, out)
    BY <2>4, <2>5, <2>23 DEF DriveQes, s, d
  <2>. QED
    BY <2>21, <2>24 DEF in
<1>. QED
  BY <1>2, <1>3

(* The delivery is acknowledged: the flow is over.                         *)
LEMMA QesDelivered ==
  ASSUME NEW c, NEW ok, NEW gone, Inv(c, ok, gone), c.active = "Qes"
  PROVE  LET r == QesAuthorizationDelivered(c)
         IN  Good(r, ok, gone) /\ Keeps(c, r)
<1>. DEFINE f == "Qes"
            b == FinishFlow(c, f)
<1>1. f \in AllFlows /\ Base(c, f, gone)
  BY BaseOfInv DEF AllFlows
<1>2. CASE c.machine[f].at # "Signed"
  <2>1. QesAuthorizationDelivered(c) = Result(c, << >>)
    BY <1>2 DEF QesAuthorizationDelivered
  <2>. QED
    BY <2>1, Silent, Returns
<1>3. CASE c.machine[f].at = "Signed"
  <2>1. QesAuthorizationDelivered(c) = Result(b, <<Close>>)
    BY <1>3 DEF QesAuthorizationDelivered
  <2>2. c.machine[f].at \in AtRest
    BY <1>3 DEF AtRest
  <2>3. /\ Base(b, None, gone) /\ b.log = c.log
        /\ \A g \in AllFlows : b.machine[g] = c.machine[g]
    BY <1>1, <2>2, FinishBase
  <2>. HIDE DEF b
  <2>4. Good(Result(b, <<Close>>), ok, gone)
    BY <2>3, ErrorAndCloseQuiet, EndGood
  <2>5. b.machine["Issuance"] = c.machine["Issuance"]
    BY <2>3 DEF AllFlows
  <2>6. Result(b, <<Close>>).core = b
    BY DEF Result
  <2>. QED
    BY <2>1, <2>3, <2>4, <2>5, <2>6 DEF Keeps, Proving
<1>. QED
  BY <1>2, <1>3

-----------------------------------------------------------------------------
(* The events of a qualified signature.                                    *)
LEMMA DeliverQesStep ==
  ASSUME Inv(core, approved, spent), DeliverQes
  PROVE  Turn /\ LogTurn
<1>1. core.active = "Qes"
  BY DEF DeliverQes, Answer
<1>2. PICK id \in Answerable("Delivery") : Event(QesAuthorizationDelivered(Consume(id)))
  BY DEF DeliverQes, Answer
<1>. DEFINE c == Consume(id)
            r == QesAuthorizationDelivered(c)
<1>3. id \in DOMAIN core.pending /\ Inv(c, approved, spent) /\ c.active = "Qes"
  BY <1>1, Answering, SMTT(60)
<1>. HIDE DEF c
<1>4. Good(r, approved, spent) /\ Keeps(c, r)
  BY <1>3, QesDelivered
<1>. QED
  BY <1>2, <1>3, <1>4, AnswerTurn DEF c

(* A signature request starts the flow.                                    *)
LEMMA QesSignRequestReceivedStep ==
  ASSUME Inv(core, approved, spent), QesSignRequestReceived
  PROVE  Turn /\ LogTurn
<1>1. PICK req \in Requests, parsed \in BOOLEAN :
         Start("Qes", DriveQes(BeginFlow(core, "Qes"),
                               [type |-> "SignatureRequest", parsed |-> parsed,
                                req |-> req]))
  BY DEF QesSignRequestReceived
<1>. DEFINE b == BeginFlow(core, "Qes")
            r == DriveQes(b, [type |-> "SignatureRequest", parsed |-> parsed, req |-> req])
<1>2. "Qes" \in AllFlows
  BY DEF AllFlows
<1>3. /\ Base(b, "Qes", spent) /\ b.machine["Qes"] = IdleMachine
      /\ DOMAIN b.pending = {} /\ b.log = core.log /\ ~Proving(b)
  BY <1>2, Begins, SMTT(60)
<1>. HIDE DEF b
<1>4. Good(r, {}, spent) /\ Keeps(b, r)
  BY <1>3, QesStart
<1>5. Keeps(core, r)
  BY <1>3, <1>4 DEF Keeps
<1>. QED
  BY <1>1, <1>4, <1>5, StartTurn DEF b

-----------------------------------------------------------------------------
(* A transfer that is refused is over.                                     *)
LEMMA TransferRejected ==
  ASSUME NEW c, NEW gone, NEW ok, Base(c, "WalletTransfer", gone), NEW why, NEW in,
         W2wStep(c.machine["WalletTransfer"], in) = To(Rejected(why), << >>)
  PROVE  LET r == DriveW2w(c, in)
         IN  Good(r, ok, gone) /\ Keeps(c, r)
<1>. DEFINE f == "WalletTransfer"
            s == W2wStep(c.machine[f], in)
            d == Stepped(c, f, s)
            b == FinishFlow(d, f)
            r == Result(b, ErrorAndClose)
<1>1. f \in AllFlows
  BY DEF AllFlows
<1>. HIDE DEF s
<1>2. s.to = Rejected(why)
  BY SMTT(60) DEF To, s
<1>3. s.to.at = "Rejected" /\ IsMachine(s.to)
  <2>1. LET m == Rejected(why) IN m.at = "Rejected" /\ IsMachine(m)
    BY SMTT(60) DEF Rejected, Idle, IsMachine, Shown
  <2>. QED
    BY <1>2, <2>1
<1>4. /\ Base(d, f, gone) /\ d.log = c.log /\ d.machine[f] = s.to
      /\ f # "Issuance" => (Proving(d) <=> Proving(c))
  BY <1>1, <1>3, Moves, SMTT(60)
<1>. HIDE DEF d
<1>5. d.machine[f].at \in AtRest
  BY <1>3, <1>4 DEF AtRest
<1>6. /\ Base(b, None, gone) /\ b.log = d.log
      /\ \A g \in AllFlows : b.machine[g] = d.machine[g]
  BY <1>1, <1>4, <1>5, FinishBase
<1>7. DriveW2w(c, in) = r
  BY <1>3 DEF DriveW2w, s, d
<1>. HIDE DEF b
<1>8. Good(r, ok, gone)
  BY <1>6, ErrorAndCloseQuiet, EndGood
<1>9. Proving(b) => Proving(c)
  BY <1>4, <1>6 DEF Proving, AllFlows
<1>10. r.core = b
  BY SMTT(60) DEF Result
<1>. QED
  BY <1>4, <1>6, <1>7, <1>8, <1>9, <1>10 DEF Keeps

(* An offer to receive a credential is published.                          *)
LEMMA TransferCreated ==
  ASSUME NEW c, NEW gone, NEW ok, Base(c, "WalletTransfer", gone),
         c.machine["WalletTransfer"] = IdleMachine, DOMAIN c.pending = {},
         CanGuaranteeMaxEntry(c)
  PROVE  LET r == DriveW2w(c, [type |-> "CreateOffer"])
         IN  Good(r, ok, gone) /\ Keeps(c, r)
<1>. DEFINE f == "WalletTransfer"
            in == [type |-> "CreateOffer"]
            m == c.machine[f]
            s == W2wStep(m, in)
            d == Stepped(c, f, s)
            k == "PublishTransferOffer"
            out == <<Eff(k, f, None)>>
            r == Result(d, out)
<1>1. f \in AllFlows /\ m.at = "Idle" /\ in.type = "CreateOffer" /\ None \in Abouts
  <2>1. m.at = "Idle" /\ in.type = "CreateOffer"
    BY SMTT(60) DEF IdleMachine
  <2>. QED
    BY <2>1 DEF AllFlows, Abouts, Shown
<1>. HIDE DEF in
<1>2. s = To(At(m, "AwaitingTransfer"), <<"PublishOffer">>)
  BY <1>1 DEF W2wStep, At
<1>3. IsMachine(m)
  BY SMTT(60) DEF IdleMachine, IsMachine, Shown
<1>. HIDE DEF s, m
<1>4. s.to = At(m, "AwaitingTransfer") /\ s.out = <<"PublishOffer">>
  BY <1>2, SMTT(60) DEF To
<1>5. s.to.at = "AwaitingTransfer" /\ s.to.req = m.req /\ IsMachine(s.to)
  BY <1>3, <1>4, PhaseOnly, SMTT(60)
<1>6. /\ Base(d, f, gone) /\ Alike(c, d) /\ d.log = c.log /\ d.machine[f] = s.to
      /\ f # "Issuance" => (Proving(d) <=> Proving(c))
  BY <1>1, <1>5, Moves, SMTT(60)
<1>7. s.out # << >>
  BY <1>4, SMTT(60)
<1>8. DriveW2w(c, in) = r
  BY <1>5, <1>7 DEF DriveW2w, s, d, m
<1>. HIDE DEF d
<1>9. d.active = f /\ d.pending = c.pending
  BY <1>6 DEF Alike, Base
<1>10. TransferPhase(d)
  BY <1>5, <1>6 DEF TransferPhase, CanGuaranteeMaxEntry
<1>11. Phase(d, ok, gone)
  BY <1>9, <1>10 DEF Phase
<1>12. ResultOf[k] = "Succeeded" /\ k \in DOMAIN ResultOf /\ k \notin Consequential
  BY DEF ResultOf, Consequential
<1>13. Fits(d, ok, [flow |-> f, result |-> ResultOf[k], about |-> None])
  BY <1>1, <1>9, <1>12, NoneIsNoFlow DEF Fits
<1>14. out \in Seq(Allowed(d, ok, gone))
  BY <1>1, <1>9, <1>12, <1>13, EffAllowed
<1>15. \A id \in DOMAIN d.pending : Fits(d, ok, d.pending[id])
  BY <1>9
<1>16. Good(r, ok, gone) /\ Keeps(c, r)
  BY <1>6, <1>11, <1>14, <1>15, Advances
<1>. QED
  BY <1>8, <1>16 DEF in

(* The credential handed over is kept beside the store.                    *)
LEMMA Receives ==
  ASSUME NEW c, NEW f, NEW gone, Base(c, f, gone), NEW x
  PROVE  LET d == [c EXCEPT !.transferred = x]
         IN  Base(d, f, gone) /\ d.machine = c.machine /\ d.log = c.log
<1>. DEFINE d == [c EXCEPT !.transferred = x]
<1>1. Only(c, d, "transferred")
  BY DEF Base, CoreType, Only, CoreFields
<1>. HIDE DEF d
<1>2. /\ DOMAIN d = CoreFields /\ d.active = c.active /\ d.machine = c.machine
      /\ d.doc = c.doc /\ d.session = c.session /\ d.secrets = c.secrets
      /\ d.clock = c.clock /\ d.status = c.status /\ d.held = c.held
      /\ d.hash = c.hash /\ d.seen = c.seen /\ d.pending = c.pending
      /\ d.auditOk = c.auditOk /\ d.log = c.log
  BY <1>1 DEF Only, CoreFields
<1>3. CoreType(d)
  BY <1>2 DEF Base, CoreType
<1>4. Base(d, f, gone)
  BY <1>2, <1>3 DEF Base, OthersRest, Kept
<1>. QED
  BY <1>2, <1>4 DEF d

(* An accepted transfer is recorded and the flow is over.                  *)
LEMMA TransferAccepted ==
  ASSUME NEW c, NEW ok, NEW gone, Base(c, "WalletTransfer", gone),
         CanGuaranteeMaxEntry(c), NEW in, in.credential \in Credentials,
         W2wStep(c.machine["WalletTransfer"], in)
           = To(At(c.machine["WalletTransfer"], "Accepted"),
                     <<"StoreCredential", "Close">>)
  PROVE  LET r == DriveW2w(c, in)
         IN  Good(r, ok, gone) /\ Completes(c, r, "WalletTransfer", in.credential)
<1>. DEFINE f == "WalletTransfer"
            m == c.machine[f]
            s == W2wStep(m, in)
            x == in.credential
            d == Stepped(c, f, s)
            a == AppendAuditEntry(d, f, x)
            t == [a EXCEPT !.transferred = x]
            b == FinishFlow(t, f)
            out == Append(<< >>, Close)
            r == Result(b, out)
<1>1. f \in AllFlows /\ x \in Shown \cup Credentials
  BY DEF AllFlows
<1>2. IsMachine(m)
  BY <1>1 DEF Base, CoreType, IsMachine
<1>. HIDE DEF s
<1>3. s.to = At(m, "Accepted")
  BY SMTT(60) DEF To, s
<1>. HIDE DEF m
<1>4. s.to.at = "Accepted" /\ IsMachine(s.to)
  BY <1>2, <1>3, PhaseOnly, SMTT(60)
<1>5. /\ Base(d, f, gone) /\ d.log = c.log /\ d.machine[f] = s.to
      /\ f # "Issuance" => (Proving(d) <=> Proving(c))
  BY <1>1, <1>4, Moves, SMTT(60)
<1>. HIDE DEF d
<1>6. LogAccepts(d, x)
  BY <1>5, EvidenceAssumption DEF LogAccepts, CanGuaranteeMaxEntry
<1>7. Base(a, f, gone) /\ a.machine = d.machine /\ Adds(d, a, f, x)
  BY <1>1, <1>5, Records
<1>. HIDE DEF a
<1>8. Base(t, f, gone) /\ t.machine = a.machine /\ t.log = a.log
  BY <1>7, Receives
<1>. HIDE DEF t
<1>9. t.machine[f].at \in AtRest
  BY <1>4, <1>5, <1>7, <1>8 DEF AtRest
<1>10. /\ Base(b, None, gone) /\ b.log = t.log
       /\ \A g \in AllFlows : b.machine[g] = t.machine[g]
  BY <1>1, <1>8, <1>9, FinishBase
<1>. HIDE DEF b
<1>11. out \in Seq(Quiet)
  BY SMTT(60) DEF Quiet
<1>. HIDE DEF out
<1>12. Good(r, ok, gone)
  BY <1>10, <1>11, EndGood
<1>13. Adds(c, b, f, x) /\ (Proving(b) => Proving(c))
  BY <1>5, <1>7, <1>8, <1>10 DEF Adds, Proving, AllFlows
<1>14. r.core = b
  BY SMTT(60) DEF Result
<1>15. StoreTransferred(d, x) = r
  <2>1. Recorded(d, f, x,
                 LAMBDA done : Result(FinishFlow([done EXCEPT !.transferred = x], f), << >>))
        = Result(b, << >>)
    BY <1>6 DEF Recorded, b, t, a
  <2>2. Result(b, << >>).core = b /\ Result(b, << >>).out = << >>
    BY SMTT(60) DEF Result
  <2>. QED
    BY <2>1, <2>2 DEF StoreTransferred, out
<1>16. DriveW2w(c, in) = r
  BY <1>4, <1>15 DEF DriveW2w, s, d, m
<1>. QED
  BY <1>12, <1>13, <1>14, <1>16 DEF Completes

(* The events of a transfer, in whatever flow they find the wallet.        *)
LEMMA TransferBusy ==
  ASSUME NEW c, NEW ok, NEW gone, Inv(c, ok, gone)
  PROVE  LET r == Result(c, <<Screen>>) IN Good(r, ok, gone) /\ Keeps(c, r)
<1>1. <<Screen>> \in Seq(Allowed(c, ok, gone))
  <2>1. <<Screen>> \in Seq(Quiet) /\ Quiet \subseteq Allowed(c, ok, gone)
    BY ErrorAndCloseQuiet, QuietAllowed
  <2>. HIDE DEF Screen
  <2>. QED
    BY <2>1, SMTT(60)
<1>. QED
  BY <1>1, Returns

(* The holder offers to receive a credential.                              *)
LEMMA TransferOffered ==
  ASSUME NEW c, NEW ok, NEW gone, NEW g \in AllFlows \cup {None}, Base(c, g, gone),
         CanGuaranteeMaxEntry(c), ~MayTransfer(c) => Inv(c, ok, gone)
  PROVE  LET r == TransferOfferCreated(c) IN Good(r, ok, gone) /\ Keeps(c, r)
<1>. DEFINE f == "WalletTransfer"
            b == BeginFlow(c, f)
            in == [type |-> "CreateOffer"]
<1>1. f \in AllFlows
  BY DEF AllFlows
<1>2. CASE ~MayTransfer(c)
  BY <1>2, TransferBusy DEF TransferOfferCreated
<1>3. CASE MayTransfer(c) /\ ~CheckAuditEntry(c, None)
  BY <1>1, <1>3, TerminateGood DEF TransferOfferCreated
<1>4. CASE MayTransfer(c) /\ CheckAuditEntry(c, None)
  <2>1. /\ Base(b, f, gone) /\ b.machine[f] = IdleMachine
        /\ DOMAIN b.pending = {} /\ b.log = c.log /\ ~Proving(b)
    BY <1>1, BeginBase, SMTT(60)
  <2>. HIDE DEF b
  <2>2. CanGuaranteeMaxEntry(b)
    BY <2>1 DEF CanGuaranteeMaxEntry
  <2>3. Good(DriveW2w(b, in), ok, gone) /\ Keeps(b, DriveW2w(b, in))
    BY <2>1, <2>2, TransferCreated
  <2>4. TransferOfferCreated(c) = DriveW2w(b, in)
    BY <1>4 DEF TransferOfferCreated, b
  <2>. QED
    BY <2>1, <2>3, <2>4 DEF Keeps
<1>. QED
  BY <1>2, <1>3, <1>4

(* A transfer is accepted when it is awaited, its issuer valid and trusted *)
(* and its peer the one it was offered to.                                 *)
TransferAccepts(c, in) == /\ c.machine["WalletTransfer"].at = "AwaitingTransfer"
                          /\ in.issuerValid /\ IssuerTrusted(c) /\ in.peerBound

(* A transfer arrives: it is accepted and recorded, or it is not and       *)
(* nothing is.                                                             *)
LEMMA TransferArrives ==
  ASSUME NEW c, NEW ok, NEW gone, Inv(c, ok, gone), NEW in,
         in.type = "TransferReceived", in.credential \in Credentials,
         NEW ex, ex = [in EXCEPT !.issuerValid = @ /\ IssuerTrusted(c)],
         ex.type = in.type, ex.credential = in.credential, ex.peerBound = in.peerBound,
         ex.issuerValid = (in.issuerValid /\ IssuerTrusted(c)),
         CanGuaranteeMaxEntry(c)
  PROVE  LET r == TransferReceived(c, in)
         IN  /\ Good(r, ok, gone)
             /\ TransferAccepts(c, in) => Completes(c, r, "WalletTransfer", in.credential)
             /\ ~TransferAccepts(c, in) => Keeps(c, r)
<1>. DEFINE f == "WalletTransfer"
            b == BeginFlow(c, f)
            m == c.machine[f]
            r == TransferReceived(c, in)
<1>1. f \in AllFlows /\ Base(c, c.active, gone) /\ c.active \in AllFlows \cup {None}
  BY BaseOfInv DEF AllFlows, Inv, CoreType
<1>2. c.active # f => m.at # "AwaitingTransfer"
  BY <1>1 DEF Base, OthersRest, AtRest
<1>. HIDE DEF r
<1>3. CASE ~MayTransfer(c)
  <2>1. ~TransferAccepts(c, in)
    BY <1>2, <1>3 DEF MayTransfer, TransferAccepts
  <2>2. r = Result(c, <<Screen>>)
    BY <1>3 DEF TransferReceived, r
  <2>3. Good(r, ok, gone) /\ Keeps(c, r)
    BY <2>2, TransferBusy
  <2>. QED
    BY <2>1, <2>3 DEF r
<1>4. CASE c.active = None
  <2>1. ~TransferAccepts(c, in)
    BY <1>1, <1>2, <1>4, NoneIsNoFlow DEF TransferAccepts
  <2>2. /\ Base(b, f, gone) /\ b.machine[f] = IdleMachine /\ b.hash[f] = None
        /\ DOMAIN b.pending = {} /\ b.log = c.log /\ b.seen = c.seen
        /\ ~Proving(b)
        /\ f = "Presentation" => b.refs = {}
        /\ f \in Documented => b.doc[f] = None
    BY <1>1, BeginBase
  <2>. HIDE DEF b
  <2>3. W2wStep(b.machine[f], ex) = To(Rejected("OutOfOrder"), << >>)
    <3>1. b.machine[f].at = "Idle"
      BY <2>2, SMTT(60) DEF IdleMachine
    <3>. QED
      BY <3>1 DEF W2wStep
  <2>4. Good(DriveW2w(b, ex), ok, gone) /\ Keeps(b, DriveW2w(b, ex))
    BY <2>2, <2>3, TransferRejected
  <2>5. r = DriveW2w(b, ex)
    BY <1>4 DEF TransferReceived, MayTransfer, r, b
  <2>. QED
    BY <2>1, <2>2, <2>4, <2>5 DEF Keeps, r
<1>5. CASE c.active = f
  <2>1. m.at = "AwaitingTransfer" /\ Base(c, f, gone)
    BY <1>1, <1>5 DEF Inv, Phase, TransferPhase
  <2>2. r = DriveW2w(c, ex)
    BY <1>1, <1>5, NoneIsNoFlow DEF TransferReceived, MayTransfer, r
  <2>3. CASE ~ex.issuerValid
    <3>1. W2wStep(m, ex) = To(Rejected("IssuerInvalid"), << >>)
      BY <2>1, <2>3 DEF W2wStep
    <3>2. Good(r, ok, gone) /\ Keeps(c, r)
      BY <2>1, <2>2, <3>1, TransferRejected
    <3>. QED
      BY <2>3, <3>2 DEF r, TransferAccepts
  <2>4. CASE ex.issuerValid /\ ~ex.peerBound
    <3>1. W2wStep(m, ex) = To(Rejected("PeerMismatch"), << >>)
      BY <2>1, <2>4 DEF W2wStep
    <3>2. Good(r, ok, gone) /\ Keeps(c, r)
      BY <2>1, <2>2, <3>1, TransferRejected
    <3>. QED
      BY <2>4, <3>2 DEF r, TransferAccepts
  <2>5. CASE ex.issuerValid /\ ex.peerBound
    <3>1. W2wStep(m, ex)
            = To(At(m, "Accepted"), <<"StoreCredential", "Close">>)
      BY <2>1, <2>5 DEF W2wStep, At
    <3>2. Good(r, ok, gone) /\ Completes(c, r, f, ex.credential)
      BY <2>1, <2>2, <3>1, TransferAccepted
    <3>. QED
      BY <2>1, <2>5, <3>2 DEF r, TransferAccepts
  <2>. QED
    BY <2>3, <2>4, <2>5
<1>. QED
  BY <1>1, <1>3, <1>4, <1>5 DEF MayTransfer

-----------------------------------------------------------------------------
(* The events of a transfer.                                               *)
LEMMA CreateTransferOfferStep ==
  ASSUME Inv(core, approved, spent), CreateTransferOffer
  PROVE  Turn /\ LogTurn
<1>. DEFINE f == "WalletTransfer"
            r == TransferOfferCreated(core)
            a == Admit(core, f, r)
<1>1. TransferStarts(a)
  BY DEF CreateTransferOffer
<1>2. Base(core, core.active, spent) /\ core.active \in AllFlows \cup {None}
  BY BaseOfInv DEF Inv, CoreType
<1>3. f \in AllFlows
  BY DEF AllFlows
<1>4. ASSUME NEW ok, ~MayTransfer(core) => Inv(core, ok, spent)
      PROVE  Good(a, ok, spent) /\ Keeps(core, a)
  <2>1. ASSUME CanGuaranteeMaxEntry(core)
        PROVE  Good(r, ok, spent) /\ Keeps(core, r)
    BY <1>2, <1>4, <2>1, TransferOffered
  <2>. HIDE DEF r
  <2>. QED
    BY <1>3, <2>1, Admits
<1>. HIDE DEF a
<1>5. CASE MayTransfer(core)
  <2>1. Start(f, a)
    BY <1>1, <1>5 DEF TransferStarts
  <2>2. Good(a, {}, spent) /\ Keeps(core, a)
    BY <1>4, <1>5
  <2>. QED
    BY <2>1, <2>2, StartTurn
<1>6. CASE ~MayTransfer(core)
  <2>1. Event(a)
    BY <1>1, <1>6 DEF TransferStarts
  <2>2. Good(a, approved, spent) /\ Keeps(core, a)
    BY <1>4
  <2>. QED
    BY <2>1, <2>2, EventTurn
<1>. QED
  BY <1>5, <1>6

(* A transfer arrives: the history grows exactly when the log does.        *)
LEMMA ReceiveTransferStep ==
  ASSUME Inv(core, approved, spent), ReceiveTransfer
  PROVE  Turn /\ LogTurn
<1>. DEFINE f == "WalletTransfer"
            In(v, p, x) == [type |-> "TransferReceived", issuerValid |-> v,
                            peerBound |-> p, credential |-> x]
            Ends0(v, p) == /\ core.machine[f].at = "AwaitingTransfer"
                           /\ v /\ IssuerTrusted(core) /\ p
<1>1. PICK v \in BOOLEAN, p \in BOOLEAN, x \in Credentials :
        /\ Released(Admit(core, f, TransferReceived(core, In(v, p, x))))
        /\ history' = IF Ends0(v, p)
                      THEN Append(history, [kind |-> f, shown |-> x])
                      ELSE history
        /\ approved' = approved
  BY DEF ReceiveTransfer
<1>. DEFINE in == In(v, p, x)
            ex == [in EXCEPT !.issuerValid = @ /\ IssuerTrusted(core)]
            r == TransferReceived(core, in)
            a == Admit(core, f, r)
<1>2. /\ in.type = "TransferReceived" /\ in.credential = x
      /\ in.peerBound = p /\ in.issuerValid = v
      /\ ex.type = in.type /\ ex.credential = in.credential
      /\ ex.peerBound = in.peerBound
      /\ ex.issuerValid = (in.issuerValid /\ IssuerTrusted(core))
  OBVIOUS
<1>3. ex = [in EXCEPT !.issuerValid = @ /\ IssuerTrusted(core)]
  OBVIOUS
<1>4. Released(a)
  BY <1>1
<1>5. history' = (IF Ends0(v, p) THEN Append(history, [kind |-> f, shown |-> x])
                                 ELSE history)
  BY <1>1
<1>. HIDE DEF in, ex
<1>6. ASSUME CanGuaranteeMaxEntry(core)
      PROVE  /\ Good(r, approved, spent)
             /\ TransferAccepts(core, in) => Completes(core, r, f, in.credential)
             /\ ~TransferAccepts(core, in) => Keeps(core, r)
  <2>1. in.credential \in Credentials
    BY <1>2
  <2>. QED
    BY <1>2, <1>3, <1>6, <2>1, TransferArrives
<1>. HIDE DEF r
<1>7. TransferAccepts(core, in) <=> Ends0(v, p)
  BY <1>2 DEF TransferAccepts
<1>8. f \in AllFlows /\ core.auditOk
  BY DEF AllFlows, Inv
<1>9. CASE Ends0(v, p)
  <2>1. core.active = f
    BY <1>8, <1>9 DEF Inv, OthersRest, AtRest
  <2>2. CanGuaranteeMaxEntry(core)
    BY <2>1 DEF Inv, Phase, TransferPhase
  <2>3. a = r
    BY <1>8, <2>2 DEF Admit
  <2>4. Released(r) /\ Good(r, approved, spent) /\ Completes(core, r, f, x)
    BY <1>2, <1>4, <1>6, <1>7, <1>9, <2>2, <2>3
  <2>5. x \in Shown \cup Credentials /\ approved' = approved
    BY <1>1
  <2>6. history' = Append(history, [kind |-> f, shown |-> x])
    BY <1>5, <1>9
  <2>. QED
    BY <1>8, <2>4, <2>5, <2>6, EntryTurn
<1>10. CASE ~Ends0(v, p)
  <2>1. CanGuaranteeMaxEntry(core) => Good(r, approved, spent) /\ Keeps(core, r)
    BY <1>6, <1>7, <1>10
  <2>2. Good(a, approved, spent) /\ Keeps(core, a)
    BY <1>8, <2>1, Admits
  <2>. HIDE DEF a
  <2>3. a.core.log = core.log /\ (Proving(a.core) => Proving(core))
    BY <2>2 DEF Keeps
  <2>4. approved' = approved /\ history' = history
    BY <1>1, <1>5, <1>10
  <2>5. Turn /\ core'.log = a.core.log
    BY <1>4, <2>2, <2>3, <2>4, ReleaseTurn
  <2>. QED
    BY <2>3, <2>4, <2>5 DEF LogTurn
<1>. QED
  BY <1>9, <1>10

=============================================================================
