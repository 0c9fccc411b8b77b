------------------------ MODULE IssuanceEngineProofs ------------------------
(***************************************************************************)
(* The proofs about IssuanceEngine, for every set of documents, every      *)
(* number of servers, nonces, transactions and polls, and every budget of  *)
(* random values that lets an authorization end.  A step of a flow is a    *)
(* function of the flow, its input, the clock and the source of            *)
(* randomness: the lemmas say for each handler what it keeps of the flow   *)
(* and of the requests sent so far (AuthGood, CredGood), the theorems      *)
(* compose them over the enrolment.                                        *)
(***************************************************************************)
EXTENDS IssuanceEngine, TLAPS

(* What the lemmas use of the theory of finite sets and of numbers.  They  *)
(* assume it; FiniteFactsHold, before the theorems, proves it from the     *)
(* library.                                                                *)
FiniteFacts ==
  /\ \A T \in SUBSET Nat : T # {} => \E n \in T : \A m \in T : n <= m
  /\ \A n \in Nat : IsFiniteSet(1 .. n)
  /\ \A S : IsFiniteSet(S) => Cardinality(S) \in Nat /\ \A T \in SUBSET S : IsFiniteSet(T)
  /\ \A S, x : IsFiniteSet(S) /\ x \notin S => Cardinality(S \cup {x}) = Cardinality(S) + 1
  /\ Cardinality({}) = 0

-----------------------------------------------------------------------------
(* Checks *)

(* A sequence, whatever its elements are.                                  *)
IsSeq(c) == \E S : c \in Seq(S)

(* What Passes and FirstError say of the checks, without the sequence.     *)
Passing(c) == \A i \in DOMAIN c : c[i].holds
Errors(c) == {c[i].error : i \in {j \in DOMAIN c : ~c[j].holds}}

(* Checks none of which fails for want of random values.                   *)
Plain(c) == IsSeq(c) /\ "RandomnessFailure" \notin Errors(c)

-----------------------------------------------------------------------------
(* Requests *)

(* The requests of one kind, by their place.                               *)
OfKind(s, kind) == {i \in DOMAIN s : s[i].kind = kind}

(* t is s with one request more.                                           *)
Extends(t, s, e) ==
  /\ t \in Seq(Range(t)) /\ Len(s) \in Nat
  /\ DOMAIN s = 1 .. Len(s) /\ DOMAIN t = DOMAIN s \cup {Len(s) + 1}
  /\ Len(s) + 1 \notin DOMAIN s /\ t[Len(s) + 1] = e
  /\ \A i \in DOMAIN s : t[i] = s[i] /\ i < Len(s) + 1

-----------------------------------------------------------------------------
(* Authorization *)
Over == {"Complete", "Failed"}

(* The requests once the result r of a step has been taken over.           *)
After(r, s) == IF r.flow.stage \in Over THEN <<>> ELSE s \o RequestsIn(r.effects)
AuthFields == {"stage", "failure", "plan", "purpose", "id", "code", "pop", "retry", "nonce",
               "retired", "pops", "used", "last", "grant"}

(* The random values an authorization has drawn when it reaches a stage.   *)
AuthUsed(f) ==
  CASE f.stage = "AwaitingClientAuthentication" ->
           IF f.purpose = "Par" THEN 3 ELSE 5 + 4 * f.retry
    [] f.stage = "SigningDpop" -> 7 + 4 * f.retry
    [] f.stage = "AwaitingTokenResponse" -> 8 + 4 * f.retry
    [] OTHER -> 4
AuthRunning(f) ==
  /\ f.retry \in 0 .. 2
  /\ f.purpose \in {"Par", "Token"}
  /\ f.stage \in {"SigningDpop", "AwaitingTokenResponse"} => f.purpose = "Token"
  /\ f.stage \in {"AwaitingParResponse", "AwaitingAuthorization"} => f.purpose = "Par"
  /\ f.used = AuthUsed(f)

(* Client authentications are used once.                                   *)
PopsUsed(pops, s) ==
  /\ \A i \in DOMAIN s : s[i].pop \in pops
  /\ \A i, j \in DOMAIN s : i # j => s[i].pop # s[j].pop
PopUnused(pop, s) == \A i \in DOMAIN s : s[i].pop # pop
PopsFresh(f, s) ==
  /\ PopsUsed(f.pops, s)
  /\ f.stage = "SigningDpop" => f.pop \in f.pops /\ PopUnused(f.pop, s)

(* Token requests are for one code, each with a nonce of its own.          *)
Tokens(s) == OfKind(s, "SendToken")
TokenTerms(s, code, nonces) ==
  /\ \A i \in Tokens(s) : s[i].code = code /\ s[i].nonce \in nonces
  /\ \A i, j \in Tokens(s) : i # j => s[i].nonce # s[j].nonce
NonceUnused(s, nonce) == \A i \in Tokens(s) : s[i].nonce # nonce

(* The nonces the flow has seen.                                           *)
Nonces(f) == f.retired \cup {None, f.nonce}
TokenCount(f) ==
  IF f.purpose = "Par" THEN 0 ELSE IF f.stage = "AwaitingTokenResponse" THEN f.retry + 1
  ELSE f.retry
TokensFresh(f, s) ==
  /\ Cardinality(Tokens(s)) = TokenCount(f)
  /\ f.purpose = "Par" => Tokens(s) = {}
  /\ TokenTerms(s, f.code, Nonces(f))
  /\ f.stage # "AwaitingTokenResponse" => NonceUnused(s, f.nonce)

(* An authorization f that has sent the requests s is in order.            *)
AuthInv(f, s) ==
  /\ DOMAIN f = AuthFields
  /\ f.stage \in AuthStages
  /\ s \in Seq(Range(s))
  /\ f.stage \in Over => s = <<>>
  /\ f.stage \notin Over => AuthRunning(f) /\ PopsFresh(f, s) /\ TokensFresh(f, s)

(* What a step from f to the result r keeps: the invariant, a failure for  *)
(* want of random values that is the source's fault, and the measure.      *)
AuthGood(f, s, r, sound) ==
  /\ AuthInv(r.flow, After(r, s))
  /\ r.flow.failure = "RandomnessFailure" /\ f.failure # "RandomnessFailure" =>
        ~sound /\ r.error = "RandomnessFailure"
  /\ r.flow.stage \notin Over => Measure(r.flow) < Measure(f) /\ Measure(r.flow) >= 0

(* What becomes of a flow that is over.                                    *)
Latched(f, r) ==
  f.stage \in Over =>
    /\ r.flow.stage \in Over
    /\ r.flow.stage = "Complete" => r.flow = [f EXCEPT !.last = r.flow.last]
    /\ r.flow.failure # f.failure => r.flow.failure \in {"InvalidClock", "TokenExpired"}

-----------------------------------------------------------------------------
(* The credential *)
CredFields == {"stage", "failure", "config", "id", "c_nonce", "transaction", "next_poll",
               "retry", "nonce", "retired", "used", "last", "issued"}
Early == {"AwaitingNonceResponse", "AwaitingKeyAttestation", "SigningCredentialProof"}
Undeferred == Early \cup {"SigningDpop", "AwaitingCredentialResponse"}

(* The requests for the credential are for one c_nonce and one target, the *)
(* polls for one transaction.                                              *)
Firsts(s) == OfKind(s, "SendCredential")
Polls(s) == OfKind(s, "SendDeferred")
FirstTerms(s, c, target) == \A i \in Firsts(s) : s[i].c_nonce = c /\ s[i].target = target
FirstsDiffer(s) == \A i, j \in Firsts(s) : i # j => s[i].nonce # s[j].nonce
FirstUnused(s, nonce) == \A i \in Firsts(s) : s[i].nonce # nonce
PollTerms(s, transaction) == \A i \in Polls(s) : s[i].transaction = transaction

(* A nonce is used by requests that follow one another, the current one by *)
(* the last.                                                               *)
Among(s, nonces) == \A i \in DOMAIN s : s[i].nonce \in nonces
Runs(s) == \A i, j, k \in DOMAIN s :
             i < j /\ j < k /\ s[i].nonce = s[k].nonce => s[j].nonce = s[k].nonce
RunsOn(s, nonce) == \A i, j \in DOMAIN s :
                      i < j /\ s[i].nonce = nonce => s[j].nonce = nonce
InOrder(s, nonce, nonces) == Among(s, nonces) /\ Runs(s) /\ RunsOn(s, nonce)
CredSent(f, s, seen) ==
  /\ FirstTerms(s, f.c_nonce, f.config.target) /\ FirstsDiffer(s) /\ Cardinality(Firsts(s)) <= 2
  /\ f.stage \in Early => Firsts(s) = {}
  /\ f.stage = "SigningDpop" => Cardinality(Firsts(s)) = f.retry /\ FirstUnused(s, f.nonce)
  /\ f.stage = "AwaitingCredentialResponse" => Cardinality(Firsts(s)) = f.retry + 1
  /\ f.stage \in Undeferred => Polls(s) = {}
  /\ PollTerms(s, f.transaction)
  /\ InOrder(s, f.nonce, Nonces(f))
  /\ f.stage # "AwaitingNonceResponse" => f.c_nonce \notin seen

(* The random values the flow has drawn when it reaches a stage after      *)
(* polls.                                                                  *)
CredRunning(f, polls) ==
  /\ f.retry \in 0 .. 1 /\ f.used \in Nat /\ f.used <= MaxRandom
  /\ f.stage = "AwaitingNonceResponse" => f.used = 1
  /\ f.stage = "AwaitingKeyAttestation" => f.used = 2
  /\ f.stage = "SigningCredentialProof" => f.used = 3
  /\ f.stage = "SigningDpop" => f.used = 5 + 3 * f.retry
  /\ f.stage = "AwaitingCredentialResponse" => f.used = 6 + 3 * f.retry
  /\ f.stage \in {"Deferred", "AwaitingDeferredResponse"} => f.used <= 9 + 3 * polls
  /\ f.stage = "SigningDeferredDpop" => f.used <= 11 + 3 * polls

(* What is issued is what the configuration expects.                       *)
Issued(f, seen) ==
  /\ IF f.config.format = "MsoMdoc"
     THEN f.issued.format = "MsoMdoc" /\ f.issued.type = PidDoctype
     ELSE /\ f.issued.format = "DcSdJwt" /\ f.issued.type = f.config.vct
          /\ f.issued.issuer = f.config.issuer
  /\ f.issued.c_nonce \notin seen

(* A credential flow f that has sent the requests s is in order, when seen *)
(* are the c_nonces consumed before it.                                    *)
CredInv(f, s, seen) ==
  /\ DOMAIN f = CredFields
  /\ f.stage \in CredStages
  /\ s \in Seq(Range(s))
  /\ f.stage \in Over => s = <<>>
  /\ f.stage \notin Over => CredRunning(f, Cardinality(Polls(s))) /\ CredSent(f, s, seen)
  /\ f.stage = "Complete" => Issued(f, seen)

(* What a step of the credential flow keeps.                               *)
CredGood(f, s, seen, r, sound) ==
  /\ CredInv(r.flow, After(r, s), seen)
  /\ r.flow.config = f.config
  /\ r.flow.failure = "RandomnessFailure" /\ f.failure # "RandomnessFailure" =>
        \/ ~sound /\ r.error = "RandomnessFailure"
        \/ Cardinality(Polls(s)) >= GuaranteedPolls
  /\ r.flow.stage \notin Over => Measure(r.flow) < Measure(f) /\ Measure(r.flow) >= 0

(* The credential of an answer is the one the configuration expects.       *)
Matches(in, config) ==
  IF config.format = "MsoMdoc" THEN in.format = "MsoMdoc" /\ in.type = PidDoctype
  ELSE in.format = "DcSdJwt" /\ in.type = config.vct /\ in.issuer = config.issuer

(* The part the answers of both endpoints share, deferred being what is    *)
(* asked of an answer that defers.                                         *)
Demand(in) == in.status = 401 /\ IsUseDpopNonceChallenge(in)
Body(f, in, deferred) ==
  CASE in.status = 202 -> deferred
    [] in.status = 200 -> ParseImmediateCredential(in, f.config)
    [] OTHER -> << Require(FALSE, "CredentialRejected") >>
AnswerChecks(f, in, deferred) ==
  IF Demand(in) THEN DemandChecks(f, in) ELSE AnswerBody(f, in) \o Body(f, in, deferred)

(* The token of the flow is in its lifetime.                               *)
Alive(grant, t) == grant.expires = None \/ t < grant.issued + grant.expires

(* What a step of the credential flow leaves: a poll that comes too early  *)
(* changes only the clock of the flow.                                     *)
CredKept(f, s, seen, r, t, sound) ==
  /\ CredInv(r.flow, After(r, s), seen)
  /\ r.flow.config = f.config
  /\ r.flow.failure = "RandomnessFailure" /\ f.failure # "RandomnessFailure" =>
        \/ ~sound /\ r.error = "RandomnessFailure"
        \/ Cardinality(Polls(s)) >= GuaranteedPolls
  /\ r.flow.stage \notin Over =>
        \/ r.flow = [f EXCEPT !.last = r.flow.last]
        \/ Measure(r.flow) < Measure(f) /\ Measure(r.flow) >= 0
  /\ RequestsIn(r.effects) # <<>> => Alive(f.config.grant, t)

-----------------------------------------------------------------------------
(* The enrolment *)

(* A plan is for a format the wallet has, and one of the policy's for its  *)
(* type.                                                                   *)
Planned(chosen, policy) ==
  /\ chosen.format \in {"MsoMdoc", "DcSdJwt"}
  /\ policy # None => chosen.format = "DcSdJwt" /\ chosen.vct = policy.vct
Distinct(s) == \A i, j \in DOMAIN s : i # j => s[i].c_nonce # s[j].c_nonce

(* The configuration of the credential flow is that of the plan.           *)
ConfigOf(config, p) ==
  /\ config.format = p.chosen.format /\ config.issuer = p.chosen.issuer
  /\ config.vct = IF p.policy = None THEN PidVct ELSE p.policy.vct

(* The inductive invariant: what the running flow has sent, consumed and   *)
(* drawn, and that it follows the plan.                                    *)
IInv ==
  /\ phase \in {"discover", "authorize", "obtain", "over"}
  /\ phase = "discover" => docs \in Documents
  /\ held \in Seq(Range(held)) /\ Distinct(held)
  /\ phase \in {"authorize", "obtain"} => Planned(plan.chosen, plan.policy)
  /\ phase = "authorize" => AuthInv(flow, sent)
  /\ phase = "obtain" => CredInv(flow, sent, Seen) /\ ConfigOf(flow.config, plan)

(* The steps of the running flow.                                          *)
AuthStepped == \E in, sound : Stepped(AuthStep(flow, in, now, sound), sound)
CredStepped == \E in, sound : Stepped(CredStep(flow, in, now, Seen, sound), sound)

(* What one step keeps, for each of the action properties.                 *)
Kept ==
  /\ Running /\ flow.stage \in {"Complete", "Failed"} /\ phase' = phase =>
       /\ flow'.stage \in {"Complete", "Failed"}
       /\ sent' = <<>>
       /\ flow'.stage = "Complete" => OnlyClock(flow, flow')
       /\ flow'.failure # flow.failure => flow'.failure \in {"InvalidClock", "TokenExpired"}
  /\ phase = "obtain" /\ Len(sent') > Len(sent) =>
       LET token == flow.config.grant
       IN  token.expires = None \/ now < token.issued + token.expires
  /\ /\ Running /\ phase' = phase /\ flow'.stage \notin {"Complete", "Failed"}
     /\ ~OnlyClock(flow, flow')
     => Measure(flow') < Measure(flow) /\ Measure(flow') >= 0
  /\ /\ Running /\ flow' # None
     /\ flow.failure # "RandomnessFailure" /\ flow'.failure = "RandomnessFailure"
     /\ faulty' = FALSE
     => phase = "obtain" /\ Cardinality(Of("SendDeferred")) >= GuaranteedPolls

-----------------------------------------------------------------------------
(* Zenon proves a leaf unless the leaf cites SMT.                          *)
USE ZenonT(60)

(* A list of checks passes when each of them holds.                        *)
LEMMA Verdicts ==
  ASSUME NEW c
  PROVE  Passes(c) <=> Passing(c)
  BY DEF Passes, Failing, Passing

(* The error of a list of checks that fails is that of a failing check.    *)
LEMMA FailsWith ==
  ASSUME FiniteFacts, NEW c, IsSeq(c), ~Passing(c)
  PROVE  FirstError(c) \in Errors(c)
<1>. DEFINE F == {j \in DOMAIN c : ~c[j].holds}
<1>1. F \in SUBSET Nat /\ F # {}
  BY SMTT(60) DEF IsSeq, Passing
<1>2. PICK n \in F : \A m \in F : n <= m
  BY <1>1 DEF FiniteFacts
<1>3. Min(F) \in F
  BY <1>2 DEF Min
<1>4. Failing(c) = F
  BY DEF Failing
<1>. QED
  BY <1>3, <1>4 DEF FirstError, Errors

(* Checks one after the other pass together, and fail with the error of    *)
(* one of them.                                                            *)
LEMMA Concatenated ==
  ASSUME NEW a, NEW b, IsSeq(a), IsSeq(b)
  PROVE  /\ IsSeq(a \o b)
         /\ Passing(a \o b) <=> Passing(a) /\ Passing(b)
         /\ Errors(a \o b) \subseteq Errors(a) \cup Errors(b)
<1>1. PICK A : a \in Seq(A)
  BY DEF IsSeq
<1>2. PICK B : b \in Seq(B)
  BY DEF IsSeq
<1>. DEFINE S == A \cup B
<1>3. a \in Seq(S) /\ b \in Seq(S)
  BY <1>1, <1>2, SMTT(60)
<1>. HIDE DEF S
<1>4. a \o b \in Seq(S)
  BY <1>3, SMTT(60)
<1>5. /\ Len(a) \in Nat /\ Len(b) \in Nat
      /\ DOMAIN a = 1 .. Len(a) /\ DOMAIN b = 1 .. Len(b)
      /\ DOMAIN (a \o b) = 1 .. (Len(a) + Len(b))
  BY <1>3, SMTT(60)
<1>6. /\ \A i \in 1 .. Len(a) : i \in DOMAIN (a \o b) /\ (a \o b)[i] = a[i]
      /\ \A i \in 1 .. Len(b) : Len(a) + i \in DOMAIN (a \o b) /\ (a \o b)[Len(a) + i] = b[i]
  BY <1>3, <1>5, SMTT(60)
<1>7. \A i \in DOMAIN (a \o b) :
         \/ i \in DOMAIN a /\ (a \o b)[i] = a[i]
         \/ \E j \in DOMAIN b : (a \o b)[i] = b[j]
  <2>1. TAKE i \in DOMAIN (a \o b)
  <2>2. CASE i \in 1 .. Len(a)
    BY <2>2, <1>5, <1>6
  <2>3. CASE i \notin 1 .. Len(a)
    <3>1. i - Len(a) \in 1 .. Len(b) /\ i = Len(a) + (i - Len(a))
      BY <2>1, <2>3, <1>5, SMTT(60)
    <3>. QED
      BY <3>1, <1>5, <1>6
  <2>. QED
    BY <2>2, <2>3
<1>8. Passing(a \o b) <=> Passing(a) /\ Passing(b)
  BY <1>5, <1>6, <1>7 DEF Passing
<1>9. Errors(a \o b) \subseteq Errors(a) \cup Errors(b)
  BY <1>7 DEF Errors
<1>. QED
  BY <1>4, <1>8, <1>9 DEF IsSeq

(* Checks that do not look at random values, one after the other.          *)
LEMMA PlainConcat ==
  ASSUME NEW a, NEW b, Plain(a), Plain(b)
  PROVE  Plain(a \o b)
  BY Concatenated DEF Plain

(* Checks that end with others: all of them pass only if the last ones do, *)
(* and only the last ones can fail for want of random values.              *)
LEMMA EndsWith ==
  ASSUME NEW a, NEW b, Plain(a), IsSeq(b)
  PROVE  /\ IsSeq(a \o b)
         /\ Passing(a \o b) => Passing(a) /\ Passing(b)
         /\ "RandomnessFailure" \in Errors(a \o b) => "RandomnessFailure" \in Errors(b)
  BY Concatenated DEF Plain

(* No checks at all pass.                                                  *)
LEMMA EmptyChecks == Plain(<<>>) /\ Passing(<<>>)
<1>1. <<>> \in Seq({}) /\ DOMAIN <<>> = {}
  BY SMTT(60)
<1>. QED
  BY <1>1 DEF Plain, IsSeq, Passing, Errors

(* One check,                                                              *)
LEMMA OneCheck ==
  ASSUME NEW h, NEW e
  PROVE  LET c == << Require(h, e) >>
         IN  /\ IsSeq(c)
             /\ Passing(c) => h
             /\ Errors(c) \subseteq {e}
             /\ h => Errors(c) = {}
             /\ e # "RandomnessFailure" => Plain(c)
<1>. DEFINE r == Require(h, e)
            c == << r >>
<1>1. c \in Seq({r}) /\ DOMAIN c = {1} /\ c[1] = r
  BY SMTT(60)
<1>2. r.holds = h /\ r.error = e
  BY DEF Require
<1>. HIDE DEF c, r
<1>3. IsSeq(c)
  BY <1>1 DEF IsSeq
<1>4. Passing(c) => h
  BY <1>1, <1>2 DEF Passing
<1>5. Errors(c) \subseteq {e}
  BY <1>1, <1>2 DEF Errors
<1>6. h => Errors(c) = {}
  BY <1>1, <1>2 DEF Errors
<1>. QED
  BY <1>3, <1>4, <1>5, <1>6 DEF Plain, c, r

(* The same for the checks of the needs that share an error.               *)
LEMMA NeedsChecks ==
  ASSUME NEW flaws, NEW needs, NEW e, IsSeq(needs), e # "RandomnessFailure"
  PROVE  Plain(RequireAll(flaws, needs, e))
<1>. DEFINE r(i) == Require(needs[i] \notin flaws, e)
            c == RequireAll(flaws, needs, e)
            S == {r(i) : i \in DOMAIN needs}
<1>1. PICK N : needs \in Seq(N)
  BY DEF IsSeq
<1>2. Len(needs) \in Nat /\ DOMAIN needs = 1 .. Len(needs)
  BY <1>1, SMTT(60)
<1>3. \A i \in DOMAIN needs : r(i) \in S /\ c[i] = r(i) /\ r(i).error = e
  BY DEF RequireAll, Require
<1>4. DOMAIN c = DOMAIN needs /\ c = [i \in DOMAIN needs |-> c[i]]
  BY DEF RequireAll
<1>. HIDE DEF c, r, S
<1>5. c \in [1 .. Len(needs) -> S]
  BY <1>2, <1>3, <1>4
<1>6. c \in Seq(S)
  BY <1>2, <1>5, SMTT(60)
<1>7. Errors(c) \subseteq {e}
  BY <1>3, <1>4 DEF Errors
<1>. QED
  BY <1>6, <1>7 DEF Plain, IsSeq, c, r

(* No such check fails for want of random values.                          *)
LEMMA PlainChecks ==
  ASSUME NEW flaws, NEW needs, NEW e, NEW h, e # "RandomnessFailure", IsSeq(needs)
  PROVE  Plain(RequireAll(flaws, needs, e)) /\ Plain(<<Require(h, e)>>)
  BY NeedsChecks, OneCheck

(* Tuples of names are sequences.                                          *)
LEMMA NameTuples ==
  ASSUME NEW a, NEW b, NEW c, NEW d, NEW x, NEW y, NEW z
  PROVE  /\ IsSeq(<<a>>) /\ IsSeq(<<a, b>>) /\ IsSeq(<<a, b, c>>) /\ IsSeq(<<a, b, c, d>>)
         /\ IsSeq(<<a, b, c, d, x>>) /\ IsSeq(<<a, b, c, d, x, y, z>>)
<1>1. /\ <<a>> \in Seq({a}) /\ <<a, b>> \in Seq({a, b}) /\ <<a, b, c>> \in Seq({a, b, c})
      /\ <<a, b, c, d>> \in Seq({a, b, c, d})
  BY SMTT(60)
<1>2. /\ <<a, b, c, d, x>> \in Seq({a, b, c, d, x})
      /\ <<a, b, c, d, x, y, z>> \in Seq({a, b, c, d, x, y, z})
  BY SMTT(60)
<1>. QED
  BY <1>1, <1>2 DEF IsSeq

(* The last two or three checks of a list.                                 *)
LEMMA TwoChecks ==
  ASSUME NEW h, NEW e, NEW k, NEW g
  PROVE  LET c == << Require(h, e), Require(k, g) >>
         IN  /\ IsSeq(c)
             /\ Passing(c) => h /\ k
             /\ e # "RandomnessFailure" /\ g # "RandomnessFailure" => Plain(c)
             /\ e # "RandomnessFailure" /\ "RandomnessFailure" \in Errors(c) => ~k
<1>. DEFINE r == Require(h, e)
            q == Require(k, g)
            c == << r, q >>
<1>1. c \in Seq({r, q}) /\ DOMAIN c = {1, 2} /\ c[1] = r /\ c[2] = q
  BY SMTT(60)
<1>2. r.holds = h /\ r.error = e /\ q.holds = k /\ q.error = g
  BY DEF Require
<1>. HIDE DEF c, r, q
<1>3. IsSeq(c)
  BY <1>1 DEF IsSeq
<1>4. Passing(c) => h /\ k
  BY <1>1, <1>2 DEF Passing
<1>5. /\ Errors(c) \subseteq {e, g}
      /\ e # "RandomnessFailure" /\ "RandomnessFailure" \in Errors(c) => ~k
  BY <1>1, <1>2 DEF Errors
<1>. QED
  BY <1>3, <1>4, <1>5 DEF Plain, c, r, q

(* and three of them.                                                      *)
LEMMA ThreeChecks ==
  ASSUME NEW h, NEW e, NEW k, NEW g, NEW l, NEW d
  PROVE  LET c == << Require(h, e), Require(k, g),
                     Require(l, d) >>
         IN  /\ IsSeq(c)
             /\ Passing(c) => h /\ k /\ l
             /\ /\ e # "RandomnessFailure" /\ g # "RandomnessFailure"
                /\ d # "RandomnessFailure"
                => Plain(c)
             /\ /\ e # "RandomnessFailure" /\ g # "RandomnessFailure"
                /\ "RandomnessFailure" \in Errors(c)
                => ~l
<1>. DEFINE r == Require(h, e)
            q == Require(k, g)
            p == Require(l, d)
            c == << r, q, p >>
<1>1. c \in Seq({r, q, p}) /\ DOMAIN c = {1, 2, 3} /\ c[1] = r /\ c[2] = q /\ c[3] = p
  BY SMTT(60)
<1>2. r.holds = h /\ r.error = e /\ q.holds = k /\ q.error = g /\ p.holds = l /\ p.error = d
  BY DEF Require
<1>. HIDE DEF c, r, q, p
<1>3. IsSeq(c)
  BY <1>1 DEF IsSeq
<1>4. Passing(c) => h /\ k /\ l
  BY <1>1, <1>2 DEF Passing
<1>5. /\ Errors(c) \subseteq {e, g, d}
      /\ /\ e # "RandomnessFailure" /\ g # "RandomnessFailure"
         /\ "RandomnessFailure" \in Errors(c)
         => ~l
  BY <1>1, <1>2 DEF Errors
<1>. QED
  BY <1>3, <1>4, <1>5 DEF Plain, c, r, q, p

(* A sequence with one request more.                                       *)
LEMMA Extended ==
  ASSUME NEW s, s \in Seq(Range(s)), NEW e
  PROVE  Extends(s \o <<e>>, s, e)
<1>. DEFINE t == s \o <<e>>
            S == Range(s) \cup {e}
<1>1. s \in Seq(S) /\ <<e>> \in Seq(S)
  BY SMTT(60)
<1>. HIDE DEF S
<1>2. t \in Seq(S) /\ Len(s) \in Nat /\ DOMAIN s = 1 .. Len(s)
  BY <1>1, SMTT(60)
<1>3. DOMAIN t = 1 .. (Len(s) + 1)
  BY <1>1, SMTT(60)
<1>4. t[Len(s) + 1] = e
  BY <1>1, <1>2, SMTT(60)
<1>5. \A i \in DOMAIN s : t[i] = s[i]
  BY <1>1, <1>2, SMTT(60)
<1>. HIDE DEF t
<1>6. t \in Seq(Range(t))
  BY <1>2, <1>3, SMTT(60) DEF Range
<1>7. /\ DOMAIN t = DOMAIN s \cup {Len(s) + 1} /\ Len(s) + 1 \notin DOMAIN s
      /\ \A i \in DOMAIN s : i < Len(s) + 1
  BY <1>2, <1>3, SMTT(60)
<1>. QED
  BY <1>2, <1>4, <1>5, <1>6, <1>7 DEF Extends, t

(* A sequence with nothing more.                                           *)
LEMMA NothingAdded ==
  ASSUME NEW s, s \in Seq(Range(s))
  PROVE  s \o <<>> = s
  BY SMTT(60)

(* The requests of a kind can be counted.                                  *)
LEMMA Finite ==
  ASSUME FiniteFacts, NEW s, s \in Seq(Range(s)), NEW kind
  PROVE  IsFiniteSet(OfKind(s, kind)) /\ Cardinality(OfKind(s, kind)) \in Nat
<1>1. Len(s) \in Nat /\ DOMAIN s = 1 .. Len(s)
  BY SMTT(60)
<1>2. IsFiniteSet(DOMAIN s)
  BY <1>1 DEF FiniteFacts
<1>3. OfKind(s, kind) \in SUBSET DOMAIN s
  BY DEF OfKind
<1>. QED
  BY <1>2, <1>3 DEF FiniteFacts

(* A request adds one to the requests of its kind and none to the others.  *)
LEMMA Counted ==
  ASSUME FiniteFacts, NEW s, s \in Seq(Range(s)), NEW t, NEW e, Extends(t, s, e), NEW kind
  PROVE  /\ e.kind # kind => OfKind(t, kind) = OfKind(s, kind)
         /\ e.kind = kind => /\ OfKind(t, kind) = OfKind(s, kind) \cup {Len(s) + 1}
                             /\ Cardinality(OfKind(t, kind)) = Cardinality(OfKind(s, kind)) + 1
<1>1. e.kind # kind => OfKind(t, kind) = OfKind(s, kind)
  BY DEF OfKind, Extends
<1>2. e.kind = kind => OfKind(t, kind) = OfKind(s, kind) \cup {Len(s) + 1}
  BY DEF OfKind, Extends
<1>3. Len(s) + 1 \notin OfKind(s, kind)
  BY DEF OfKind, Extends
<1>4. IsFiniteSet(OfKind(s, kind))
  BY Finite
<1>5. Cardinality(OfKind(s, kind) \cup {Len(s) + 1}) = Cardinality(OfKind(s, kind)) + 1
  BY <1>3, <1>4 DEF FiniteFacts
<1>. QED
  BY <1>1, <1>2, <1>5

(* Before the first request there is none of any kind.                     *)
LEMMA NoneCounted ==
  ASSUME FiniteFacts, NEW kind
  PROVE  OfKind(<<>>, kind) = {} /\ Cardinality({}) = 0 /\ <<>> \in Seq(Range(<<>>))
<1>1. DOMAIN <<>> = {} /\ <<>> \in Seq(Range(<<>>))
  BY SMTT(60)
<1>. QED
  BY <1>1 DEF OfKind, FiniteFacts

(* What a step asks of a server.                                           *)
LEMMA Asked ==
  ASSUME NEW e
  PROVE  /\ RequestsIn(<<>>) = <<>>
         /\ Request(e) => RequestsIn(<<e>>) = <<e>>
         /\ ~Request(e) => RequestsIn(<<e>>) = <<>>
<1>1. <<e>> # <<>> /\ <<e>>[1] = e
  BY SMTT(60)
<1>. QED
  BY <1>1 DEF RequestsIn

(* An authorization that fails is over, and only the source is to blame    *)
(* for random values.                                                      *)
LEMMA AuthLatchGood ==
  ASSUME FiniteFacts, NEW f, NEW f0, NEW s, NEW e, NEW sound, DOMAIN f = AuthFields,
         e = "RandomnessFailure" => ~sound
  PROVE  AuthGood(f0, s, AuthLatch(f, e), sound)
<1>. DEFINE r == AuthLatch(f, e)
            g == [f EXCEPT !.stage = "Failed", !.failure = e, !.id = 0, !.code = None,
                     !.pop = None, !.retry = 0, !.nonce = None, !.retired = {}, !.pops = {},
                     !.used = 0, !.grant = None]
<1>1. r.flow = g /\ r.error = e
  BY DEF AuthLatch
<1>2. DOMAIN g = AuthFields
  OBVIOUS
<1>3. g.stage = "Failed"
  BY DEF AuthFields
<1>4. g.failure = e
  BY DEF AuthFields
<1>. HIDE DEF r, g
<1>5. After(r, s) = <<>>
  BY <1>1, <1>3 DEF After, Over
<1>6. "Failed" \in AuthStages /\ "Failed" \in Over
  BY DEF AuthStages, Over
<1>7. <<>> \in Seq(Range(<<>>))
  BY NoneCounted
<1>8. AuthInv(r.flow, After(r, s))
  BY <1>1, <1>2, <1>3, <1>5, <1>6, <1>7 DEF AuthInv
<1>. QED
  BY <1>1, <1>3, <1>4, <1>6, <1>8 DEF AuthGood, r

(* Without token requests no token request repeats anything.               *)
LEMMA NoTokens ==
  ASSUME FiniteFacts, NEW s, Tokens(s) = {}, NEW code, NEW nonces, NEW nonce
  PROVE  TokenTerms(s, code, nonces) /\ NonceUnused(s, nonce) /\ Cardinality(Tokens(s)) = 0
  BY NoneCounted DEF TokenTerms, NonceUnused

(* Every input an authorization may meet at its stage, and any other       *)
(* input.                                                                  *)
LEMMA AuthTransitionStep ==
  ASSUME FiniteFacts
  PROVE  \A f, s, in, t, sound :
            AuthInv(f, s) => AuthGood(f, s, AuthTransition(f, in, t, sound), sound)
(* A list of checks that fails, only for want of random values when the  *)
(* source is at fault.                                                   *)
<1>AuthRefused.
  ASSUME NEW f, NEW f0, NEW s, NEW checks, NEW sound, DOMAIN f = AuthFields,
         IsSeq(checks), ~Passing(checks), "RandomnessFailure" \in Errors(checks) => ~sound
  PROVE  AuthGood(f0, s, AuthLatch(f, FirstError(checks)), sound)
  <2>. USE <1>AuthRefused
  <2>1. FirstError(checks) \in Errors(checks)
    BY FailsWith
  <2>2. FirstError(checks) = "RandomnessFailure" => ~sound
    BY <2>1
  <2>. QED
    BY <2>2, AuthLatchGood
(* An authorization that goes on with another stage.                     *)
<1>AuthDoneGood.
  ASSUME NEW f, NEW s, NEW g, NEW effects, NEW sound, NEW t, s \o RequestsIn(effects) = t,
         DOMAIN g = AuthFields, g.stage \in AuthStages, g.failure = f.failure,
         t \in Seq(Range(t)), g.stage \notin Over, AuthRunning(g),
         PopsFresh(g, t), TokensFresh(g, t), Measure(g) < Measure(f), Measure(g) >= 0
  PROVE  AuthGood(f, s, AuthDone(g, effects), sound)
  <2>. USE <1>AuthDoneGood
  <2>. DEFINE r == AuthDone(g, effects)
  <2>1. r.flow = g /\ r.effects = effects /\ r.error = None
    BY DEF AuthDone
  <2>. HIDE DEF r
  <2>2. After(r, s) = t
    BY <2>1 DEF After
  <2>3. AuthInv(r.flow, After(r, s))
    BY <2>1, <2>2 DEF AuthInv
  <2>. QED
    BY <2>1, <2>3 DEF AuthGood, r
(* Asking for client authentication towards the token endpoint.          *)
<1>ClientAuthStageStep.
  ASSUME NEW f, NEW f0, NEW s, NEW code, NEW retry \in 0 .. 2, NEW sound,
         DOMAIN f = AuthFields, s \in Seq(Range(s)),
         f.used = 4 + 4 * retry,
         f0.failure = f.failure, Measure(f0) = 2 * (MaxRandom - f.used),
         PopsUsed(f.pops, s), Cardinality(Tokens(s)) = retry,
         TokenTerms(s, code, Nonces(f)), NonceUnused(s, f.nonce)
  PROVE  AuthGood(f0, s, ClientAuthStage(f, "Token", code, retry, sound), sound)
  <2>. USE <1>ClientAuthStageStep
  <2>. DEFINE r == ClientAuthStage(f, "Token", code, retry, sound)
  <2>1. f.used \in Nat /\ f.used + 1 <= MaxRandom /\ MaxRandom \in Nat
    BY RandomAssumption, SMTT(60)
  <2>2. CASE ~sound
    <3>1. r = AuthLatch(f, "RandomnessFailure")
      BY <2>2 DEF ClientAuthStage, AuthFreshRandom
    <3>. QED
      BY <2>2, <3>1, AuthLatchGood
  <2>3. CASE sound
    <3>. DEFINE id == f.used + 1
                d == [f EXCEPT !.used = f.used + 1]
                g == [d EXCEPT !.stage = "AwaitingClientAuthentication", !.purpose = "Token",
                               !.id = id, !.code = code, !.retry = retry]
                e == AuthAsk("AcquireWalletClientAuthentication", id)
    <3>1. r = AuthDone(g, <<e>>)
      BY <2>1, <2>3 DEF ClientAuthStage, AuthFreshRandom, AuthDrawn
    <3>2. DOMAIN d = AuthFields
      OBVIOUS
    <3>3. /\ d.used = f.used + 1 /\ d.failure = f.failure /\ d.pops = f.pops
          /\ d.nonce = f.nonce /\ d.retired = f.retired
      BY DEF AuthFields
    <3>. HIDE DEF d, id
    <3>4. DOMAIN g = AuthFields
      BY <3>2
    <3>5. /\ g.stage = "AwaitingClientAuthentication" /\ g.purpose = "Token"
          /\ g.code = code /\ g.retry = retry
      BY <3>2 DEF AuthFields
    <3>6. /\ g.used = f.used + 1 /\ g.failure = f.failure /\ g.pops = f.pops
          /\ g.nonce = f.nonce /\ g.retired = f.retired
      BY <3>2, <3>3 DEF AuthFields
    <3>7. ~Request(e)
      BY DEF Request, AuthAsk
    <3>. HIDE DEF g, e
    <3>8. s \o RequestsIn(<<e>>) = s
      BY <3>7, Asked, NothingAdded
    <3>9. g.stage \in AuthStages /\ g.stage \notin Over
      BY <3>5 DEF AuthStages, Over
    <3>10. AuthRunning(g)
      BY <3>5, <3>6, SMTT(60) DEF AuthRunning, AuthUsed
    <3>11. PopsFresh(g, s)
      BY <3>5, <3>6 DEF PopsFresh
    <3>12. TokensFresh(g, s)
      BY <3>5, <3>6 DEF TokensFresh, TokenCount, Nonces
    <3>13. Measure(g) < Measure(f0) /\ Measure(g) >= 0
      BY <2>1, <3>5, <3>6, SMTT(60) DEF Measure, Waits
    <3>. QED
      BY <3>1, <3>4, <3>6, <3>8, <3>9, <3>10, <3>11, <3>12, <3>13, <1>AuthDoneGood
  <2>. QED
    BY <2>2, <2>3
(* The random values of the two rounds.                                  *)
<1>AuthBudget.
  ASSUME NEW f, AuthRunning(f)
  PROVE  /\ f.used \in Nat /\ f.used <= 16 /\ f.used <= MaxRandom
         /\ f.stage # "AwaitingTokenResponse" => f.used + 1 <= 16
  BY <1>AuthBudget, RandomAssumption, SMTT(60) DEF AuthRunning, AuthUsed
(* What one more request does to the requests before it.                 *)
<1>PopSent.
  ASSUME NEW s, NEW t, NEW e, Extends(t, s, e), NEW pops, NEW more, PopsUsed(pops, s),
         PopUnused(e.pop, s), e.pop \in more, pops \subseteq more
  PROVE  PopsUsed(more, t)
  <2>. USE <1>PopSent
  <2>1. \A i \in DOMAIN t : t[i].pop \in more
    BY DEF Extends, PopsUsed
  <2>2. ASSUME NEW i \in DOMAIN t, NEW j \in DOMAIN t, i # j PROVE t[i].pop # t[j].pop
    <3>1. CASE i \in DOMAIN s /\ j \in DOMAIN s
      BY <2>2, <3>1 DEF Extends, PopsUsed
    <3>2. CASE i \in DOMAIN s /\ j = Len(s) + 1
      BY <2>2, <3>2 DEF Extends, PopUnused
    <3>3. CASE i = Len(s) + 1 /\ j \in DOMAIN s
      BY <2>2, <3>3 DEF Extends, PopUnused
    <3>4. i \in DOMAIN s \cup {Len(s) + 1} /\ j \in DOMAIN s \cup {Len(s) + 1}
      BY DEF Extends
    <3>. QED
      BY <2>2, <3>1, <3>2, <3>3, <3>4
  <2>. QED
    BY <2>1, <2>2 DEF PopsUsed
(* A request of another kind leaves the token requests as they are.      *)
<1>OtherSent.
  ASSUME NEW s, s \in Seq(Range(s)), NEW t, NEW e, Extends(t, s, e), e.kind # "SendToken"
  PROVE  Tokens(t) = Tokens(s)
  BY <1>OtherSent, Counted DEF Tokens
(* A token request with a nonce of its own.                              *)
<1>TokenSent.
  ASSUME NEW s, s \in Seq(Range(s)), NEW t, NEW e, Extends(t, s, e), e.kind = "SendToken",
         NEW nonces, TokenTerms(s, e.code, nonces), NonceUnused(s, e.nonce), e.nonce \in nonces
  PROVE  /\ TokenTerms(t, e.code, nonces)
         /\ Cardinality(Tokens(t)) = Cardinality(Tokens(s)) + 1
  <2>. USE <1>TokenSent
  <2>1. /\ Tokens(t) = Tokens(s) \cup {Len(s) + 1}
        /\ Cardinality(Tokens(t)) = Cardinality(Tokens(s)) + 1
    BY Counted DEF Tokens
  <2>2. /\ \A i \in Tokens(s) : t[i] = s[i] /\ i # Len(s) + 1
        /\ t[Len(s) + 1] = e
    BY DEF Extends, Tokens, OfKind
  <2>3. \A i \in Tokens(t) : t[i].code = e.code /\ t[i].nonce \in nonces
    BY <2>1, <2>2 DEF TokenTerms
  <2>4. ASSUME NEW i \in Tokens(t), NEW j \in Tokens(t), i # j PROVE t[i].nonce # t[j].nonce
    <3>1. CASE i \in Tokens(s) /\ j \in Tokens(s)
      BY <2>2, <2>4, <3>1 DEF TokenTerms
    <3>2. CASE i \in Tokens(s) /\ j = Len(s) + 1
      BY <2>2, <3>2 DEF NonceUnused
    <3>3. CASE i = Len(s) + 1 /\ j \in Tokens(s)
      BY <2>2, <3>3 DEF NonceUnused
    <3>. QED
      BY <2>1, <2>4, <3>1, <3>2, <3>3
  <2>. QED
    BY <2>1, <2>3, <2>4 DEF TokenTerms
(* accept_client_authentication, for the pushed request and for the      *)
(* token request.                                                        *)
<1>AcceptClientAuthenticationStep.
  ASSUME NEW f, NEW s, NEW in, NEW sound, AuthInv(f, s),
         f.stage = "AwaitingClientAuthentication"
  PROVE  AuthGood(f, s, AcceptClientAuthentication(f, in, sound), sound)
  <2>. USE <1>AcceptClientAuthenticationStep
  <2>. DEFINE draws == IF f.purpose = "Par" THEN 1 ELSE 2
              head == << Require(in.id = f.id, "CorrelationMismatch") >>
                      \o RequireAll(in.flaws, <<"purpose", "client_id", "audience", "endpoint">>,
                                         "ClientAuthenticationBindingMismatch")
                      \o ValidateCompactJwt(in, CompactJwtNeeds[1])
                      \o ValidateCompactJwt(in, CompactJwtNeeds[2])
              coded == IF f.purpose = "Par" THEN f.code = None /\ f.retry = 0 ELSE f.code # None
              tail == << Require(in.pop \notin f.pops, "ClientAuthenticationReused"),
                         Require(coded, "UnexpectedInput"),
                         Require(AuthFreshRandom(f, draws, sound), "RandomnessFailure") >>
              checks == head \o tail
              id == f.used + 1
              d == AuthDrawn(f, draws)
              next == [d EXCEPT !.pops = @ \cup {in.pop}, !.pop = in.pop, !.id = id]
              r == AcceptClientAuthentication(f, in, sound)
  <2>1. r = IF ~Passing(checks) THEN AuthLatch(f, FirstError(checks))
            ELSE IF f.purpose = "Par"
            THEN AuthDone([next EXCEPT !.stage = "AwaitingParResponse"],
                           << [AuthAsk("SendPar", id) EXCEPT !.pop = in.pop] >>)
            ELSE AuthDone([next EXCEPT !.stage = "SigningDpop"],
                           << [AuthAsk("SignDpop", id) EXCEPT !.nonce = f.nonce] >>)
    BY Verdicts DEF AcceptClientAuthentication
  <2>2. Plain(head)
    <3>1. Plain(<< Require(in.id = f.id, "CorrelationMismatch") >>)
      BY PlainChecks, NameTuples
    <3>2. Plain(RequireAll(in.flaws, <<"purpose", "client_id", "audience", "endpoint">>,
                                "ClientAuthenticationBindingMismatch"))
      BY PlainChecks, NameTuples
    <3>3. IsSeq(CompactJwtNeeds[1]) /\ IsSeq(CompactJwtNeeds[2])
      <4>1. /\ CompactJwtNeeds[1] =
                  <<"attestation_size", "attestation_segments", "attestation_canonical">>
            /\ CompactJwtNeeds[2] = <<"pop_size", "pop_segments", "pop_canonical">>
        BY DEF CompactJwtNeeds
      <4>. QED
        BY <4>1, NameTuples
    <3>4. /\ Plain(ValidateCompactJwt(in, CompactJwtNeeds[1]))
          /\ Plain(ValidateCompactJwt(in, CompactJwtNeeds[2]))
      BY <3>3, PlainChecks DEF ValidateCompactJwt
    <3>. QED
      BY <3>1, <3>2, <3>4, PlainConcat
  <2>. HIDE DEF head
  <2>3. /\ IsSeq(checks)
        /\ Passing(checks) => in.pop \notin f.pops /\ AuthFreshRandom(f, draws, sound)
        /\ "RandomnessFailure" \in Errors(checks) => ~AuthFreshRandom(f, draws, sound)
    <3>1. /\ IsSeq(tail)
          /\ Passing(tail) => in.pop \notin f.pops /\ AuthFreshRandom(f, draws, sound)
          /\ "RandomnessFailure" \in Errors(tail) => ~AuthFreshRandom(f, draws, sound)
      <4>. DEFINE unused == in.pop \notin f.pops
                  fresh == AuthFreshRandom(f, draws, sound)
                  t == << Require(unused, "ClientAuthenticationReused"),
                          Require(coded, "UnexpectedInput"),
                          Require(fresh, "RandomnessFailure") >>
      <4>1. tail = t
        BY DEF Require
      <4>2. /\ IsSeq(t)
            /\ Passing(t) => unused /\ fresh
            /\ "RandomnessFailure" \in Errors(t) => ~fresh
        <5>. HIDE DEF unused, fresh, coded
        <5>. QED
          BY ThreeChecks, SMTT(30)
      <4>. HIDE DEF t, tail
      <4>. QED
        BY <4>1, <4>2
    <3>. HIDE DEF tail
    <3>. QED
      BY <2>2, <3>1, EndsWith
  <2>4. AuthFreshRandom(f, draws, sound) <=> sound
    BY <1>AuthBudget, RandomAssumption, SMTT(60) DEF AuthFreshRandom, AuthInv, AuthRunning, AuthUsed, Over
  <2>5. CASE ~Passing(checks)
    BY <2>1, <2>3, <2>4, <2>5, <1>AuthRefused DEF AuthInv
  <2>6. f.stage \notin Over /\ AuthRunning(f) /\ PopsFresh(f, s) /\ TokensFresh(f, s)
    BY DEF AuthInv, Over
  <2>. HIDE DEF checks
  <2>7. DOMAIN d = AuthFields /\ DOMAIN f = AuthFields
    BY DEF AuthDrawn, AuthInv
  <2>8. d = [f EXCEPT !.used = f.used + draws]
    BY DEF AuthDrawn
  <2>9. /\ d.used = f.used + draws /\ d.failure = f.failure /\ d.pops = f.pops
        /\ d.nonce = f.nonce /\ d.retired = f.retired /\ d.purpose = f.purpose
        /\ d.code = f.code /\ d.retry = f.retry
    BY <2>7, <2>8 DEF AuthFields
  <2>. HIDE DEF d, id
  <2>10. DOMAIN next = AuthFields
    BY <2>7
  <2>11. /\ next.used = f.used + draws /\ next.failure = f.failure
         /\ next.nonce = f.nonce /\ next.retired = f.retired /\ next.purpose = f.purpose
         /\ next.code = f.code /\ next.retry = f.retry
    BY <2>7, <2>9 DEF AuthFields
  <2>12. next.pops = f.pops \cup {in.pop} /\ next.pop = in.pop
    BY <2>7, <2>9 DEF AuthFields
  <2>. HIDE DEF next
  <2>13. Passing(checks) => PopUnused(in.pop, s)
    BY <2>3, <2>6 DEF PopsFresh, PopsUsed, PopUnused
  <2>14. s \in Seq(Range(s))
    BY DEF AuthInv
  <2>15. CASE Passing(checks) /\ f.purpose = "Par"
    <3>. DEFINE g == [next EXCEPT !.stage = "AwaitingParResponse"]
                e == [AuthAsk("SendPar", id) EXCEPT !.pop = in.pop]
                t == s \o <<e>>
    <3>1. r = AuthDone(g, <<e>>)
      BY <2>1, <2>15
    <3>2. DOMAIN g = AuthFields /\ g.stage = "AwaitingParResponse"
      BY <2>10 DEF AuthFields
    <3>3. /\ g.used = f.used + draws /\ g.failure = f.failure
          /\ g.nonce = f.nonce /\ g.retired = f.retired /\ g.purpose = f.purpose
          /\ g.code = f.code /\ g.retry = f.retry /\ g.pops = f.pops \cup {in.pop}
      BY <2>10, <2>11, <2>12 DEF AuthFields
    <3>4. e.kind = "SendPar" /\ e.pop = in.pop
      BY DEF AuthAsk
    <3>. HIDE DEF g, e
    <3>5. Extends(t, s, e)
      BY <2>14, Extended
    <3>6. s \o RequestsIn(<<e>>) = t
      BY <3>4, Asked DEF Request
    <3>. HIDE DEF t
    <3>7. t \in Seq(Range(t))
      BY <3>5 DEF Extends
    <3>8. PopsFresh(g, t)
      BY <2>6, <2>13, <2>15, <3>2, <3>3, <3>4, <3>5, <1>PopSent DEF PopsFresh
    <3>9. Tokens(t) = {}
      BY <2>6, <2>14, <2>15, <3>4, <3>5, <1>OtherSent DEF TokensFresh
    <3>10. TokensFresh(g, t)
      BY <2>15, <3>3, <3>9, NoTokens DEF TokensFresh, TokenCount, Nonces
    <3>11. AuthRunning(g)
      BY <2>6, <2>15, <3>2, <3>3, SMTT(60) DEF AuthRunning, AuthUsed
    <3>12. g.stage \in AuthStages /\ g.stage \notin Over
      BY <3>2 DEF AuthStages, Over
    <3>13. Measure(g) < Measure(f) /\ Measure(g) >= 0
      BY <2>6, <2>15, <3>2, <3>3, RandomAssumption, SMTT(60) DEF Measure, Waits, AuthRunning, AuthUsed
    <3>14. AuthGood(f, s, AuthDone(g, <<e>>), sound)
      <4>1. g.failure = f.failure /\ DOMAIN g = AuthFields
        BY <3>2, <3>3
      <4>. QED
        BY <4>1, <3>6, <3>7, <3>8, <3>10, <3>11, <3>12, <3>13, <1>AuthDoneGood
    <3>. QED
      BY <3>1, <3>14
  <2>16. CASE Passing(checks) /\ f.purpose # "Par"
    <3>. DEFINE g == [next EXCEPT !.stage = "SigningDpop"]
                e == [AuthAsk("SignDpop", id) EXCEPT !.nonce = f.nonce]
    <3>1. r = AuthDone(g, <<e>>)
      BY <2>1, <2>16
    <3>2. DOMAIN g = AuthFields /\ g.stage = "SigningDpop"
      BY <2>10 DEF AuthFields
    <3>3. /\ g.used = f.used + draws /\ g.failure = f.failure
          /\ g.nonce = f.nonce /\ g.retired = f.retired /\ g.purpose = f.purpose
          /\ g.code = f.code /\ g.retry = f.retry /\ g.pops = f.pops \cup {in.pop}
          /\ g.pop = in.pop
      BY <2>10, <2>11, <2>12 DEF AuthFields
    <3>4. e.kind = "SignDpop"
      BY DEF AuthAsk
    <3>. HIDE DEF g, e
    <3>5. s \o RequestsIn(<<e>>) = s
      BY <2>14, <3>4, Asked, NothingAdded DEF Request
    <3>6. PopsFresh(g, s)
      BY <2>6, <2>13, <2>16, <3>3 DEF PopsFresh, PopsUsed
    <3>7. TokensFresh(g, s)
      BY <2>6, <2>16, <3>2, <3>3 DEF TokensFresh, TokenCount, Nonces
    <3>8. AuthRunning(g)
      BY <2>6, <2>16, <3>2, <3>3, SMTT(60) DEF AuthRunning, AuthUsed
    <3>9. g.stage \in AuthStages /\ g.stage \notin Over
      BY <3>2 DEF AuthStages, Over
    <3>10. Measure(g) < Measure(f) /\ Measure(g) >= 0
      BY <2>6, <2>16, <3>2, <3>3, RandomAssumption, SMTT(60) DEF Measure, Waits, AuthRunning, AuthUsed
    <3>12. AuthGood(f, s, AuthDone(g, <<e>>), sound)
      <4>1. g.failure = f.failure /\ DOMAIN g = AuthFields
        BY <3>2, <3>3
      <4>. QED
        BY <2>14, <4>1, <3>5, <3>6, <3>7, <3>8, <3>9, <3>10, <1>AuthDoneGood
    <3>. QED
      BY <3>1, <3>12
  <2>. QED
    BY <2>5, <2>15, <2>16
(* accept_dpop_signature of the authorization, which sends the token     *)
(* request.                                                              *)
<1>AuthDpopSignatureStep.
  ASSUME NEW f, NEW s, NEW in, NEW sound, AuthInv(f, s), f.stage = "SigningDpop"
  PROVE  AuthGood(f, s, AuthAcceptDpopSignature(f, in, sound), sound)
  <2>. USE <1>AuthDpopSignatureStep
  <2>. DEFINE fresh == AuthFreshRandom(f, 1, sound)
              bound == in.id = f.id /\ "signing_input" \notin in.flaws
              sized == "length" \notin in.flaws
              checks == << Require(bound, "DpopSigningResultMismatch"),
                           Require(sized, "DpopSignatureInvalid"),
                           Require(fresh, "RandomnessFailure") >>
              id == f.used + 1
              d == AuthDrawn(f, 1)
              g == [d EXCEPT !.stage = "AwaitingTokenResponse", !.id = id]
              e == [AuthAsk("SendToken", id) EXCEPT !.nonce = f.nonce, !.pop = f.pop,
                                                     !.code = f.code]
              t == s \o <<e>>
              r == AuthAcceptDpopSignature(f, in, sound)
  <2>1. r = IF ~Passing(checks) THEN AuthLatch(f, FirstError(checks)) ELSE AuthDone(g, <<e>>)
    BY Verdicts DEF AuthAcceptDpopSignature, Require
  <2>2. IsSeq(checks) /\ ("RandomnessFailure" \in Errors(checks) => ~fresh)
    <3>. HIDE DEF fresh, bound, sized
    <3>. QED
      BY ThreeChecks
  <2>3. DOMAIN f = AuthFields /\ s \in Seq(Range(s)) /\ AuthRunning(f) /\ PopsFresh(f, s) /\ TokensFresh(f, s)
    BY DEF AuthInv, Over
  <2>4. fresh <=> sound
    BY <2>3, <1>AuthBudget, RandomAssumption, SMTT(60) DEF AuthFreshRandom, AuthRunning, AuthUsed
  <2>. HIDE DEF checks, fresh
  <2>5. CASE ~Passing(checks)
    BY <2>1, <2>2, <2>3, <2>4, <2>5, <1>AuthRefused
  <2>6. CASE Passing(checks)
    <3>1. DOMAIN d = AuthFields
      BY <2>3 DEF AuthDrawn
    <3>2. /\ d.used = f.used + 1 /\ d.failure = f.failure /\ d.pops = f.pops
          /\ d.nonce = f.nonce /\ d.retired = f.retired /\ d.purpose = f.purpose
          /\ d.code = f.code /\ d.retry = f.retry
      BY <2>3 DEF AuthDrawn, AuthFields
    <3>. HIDE DEF d, id
    <3>3. DOMAIN g = AuthFields /\ g.stage = "AwaitingTokenResponse"
      BY <3>1 DEF AuthFields
    <3>4. /\ g.used = f.used + 1 /\ g.pops = f.pops
          /\ g.nonce = f.nonce /\ g.retired = f.retired /\ g.purpose = f.purpose
          /\ g.code = f.code /\ g.retry = f.retry
      BY <3>1, <3>2 DEF AuthFields
    <3>5. g.failure = f.failure
      BY <3>1, <3>2 DEF AuthFields
    <3>6. e.kind = "SendToken" /\ e.pop = f.pop /\ e.nonce = f.nonce /\ e.code = f.code
      BY DEF AuthAsk
    <3>. HIDE DEF g, e
    <3>7. Extends(t, s, e)
      BY <2>3, Extended
    <3>8. s \o RequestsIn(<<e>>) = t
      BY <3>6, Asked DEF Request
    <3>. HIDE DEF t
    <3>9. t \in Seq(Range(t))
      BY <3>7 DEF Extends
    <3>10. PopsFresh(g, t)
      <4>1. /\ PopsUsed(f.pops, s) /\ PopUnused(e.pop, s) /\ e.pop \in f.pops
            /\ f.pops \subseteq f.pops
        BY <2>3, <3>6 DEF PopsFresh
      <4>2. PopsUsed(f.pops, t)
        BY <3>7, <4>1, <1>PopSent
      <4>. QED
        BY <3>3, <3>4, <4>2 DEF PopsFresh
    <3>11. TokensFresh(g, t)
      <4>. DEFINE nonces == Nonces(f)
      <4>1. /\ TokenTerms(s, e.code, nonces) /\ NonceUnused(s, e.nonce) /\ e.nonce \in nonces
            /\ Cardinality(Tokens(s)) = f.retry /\ f.purpose = "Token"
        BY <2>3, <3>6 DEF TokensFresh, TokenCount, AuthRunning, Nonces
      <4>. HIDE DEF nonces
      <4>2. TokenTerms(t, e.code, nonces) /\ Cardinality(Tokens(t)) = Cardinality(Tokens(s)) + 1
        BY <2>3, <3>6, <3>7, <4>1, <1>TokenSent
      <4>3. Cardinality(Tokens(t)) = f.retry + 1
        BY <4>1, <4>2
      <4>. QED
        BY <3>3, <3>4, <3>6, <4>1, <4>2, <4>3 DEF TokensFresh, TokenCount, Nonces, nonces
    <3>12. AuthRunning(g)
      BY <2>3, <3>3, <3>4, SMTT(60) DEF AuthRunning, AuthUsed
    <3>13. g.stage \in AuthStages /\ g.stage \notin Over
      BY <3>3 DEF AuthStages, Over
    <3>14. Measure(g) < Measure(f) /\ Measure(g) >= 0
      BY <2>3, <3>3, <3>4, RandomAssumption, SMTT(60) DEF Measure, Waits, AuthRunning, AuthUsed
    <3>15. AuthGood(f, s, AuthDone(g, <<e>>), sound)
      BY <3>3, <3>5, <3>8, <3>9, <3>10, <3>11, <3>12, <3>13, <3>14, <1>AuthDoneGood
    <3>. QED
      BY <2>1, <2>6, <3>15
  <2>. QED
    BY <2>5, <2>6
(* A nonce that is not stale takes the place of the current one.         *)
<1>AuthRotated.
  ASSUME NEW f, NEW n, DOMAIN f = AuthFields
  PROVE  LET g == RotateTokenEndpointNonce(f, n)
         IN  /\ DOMAIN g = AuthFields
             /\ g.failure = f.failure
             /\ g.used = f.used /\ g.pops = f.pops /\ g.purpose = f.purpose
             /\ g.code = f.code /\ g.retry = f.retry /\ g.stage = f.stage
             /\ Nonces(f) \subseteq Nonces(g)
  <2>. USE <1>AuthRotated
  <2>. DEFINE g == [f EXCEPT !.nonce = n, !.retired = (@ \cup {f.nonce}) \ {None}]
  <2>1. CASE n = None
    <3>1. RotateTokenEndpointNonce(f, n) = f
      BY <2>1 DEF RotateTokenEndpointNonce
    <3>. QED
      BY <2>1, <3>1
  <2>2. CASE n # None
    <3>1. RotateTokenEndpointNonce(f, n) = g
      BY <2>2 DEF RotateTokenEndpointNonce
    <3>2. DOMAIN g = AuthFields
      OBVIOUS
    <3>3. /\ g.failure = f.failure
          /\ g.used = f.used /\ g.pops = f.pops /\ g.purpose = f.purpose
          /\ g.code = f.code /\ g.retry = f.retry /\ g.stage = f.stage
      BY DEF AuthFields
    <3>4. g.retired = (f.retired \cup {f.nonce}) \ {None} /\ g.nonce = n
      BY DEF AuthFields
    <3>. HIDE DEF g
    <3>5. Nonces(f) \subseteq Nonces(g)
      BY <3>4 DEF Nonces
    <3>. QED
      BY <2>2, <3>1, <3>2, <3>3, <3>4, <3>5
  <2>. QED
    BY <2>1, <2>2
(* The validators of the answers never fail for want of random values.   *)
<1>AuthValidators.
  ASSUME NEW f, NEW in
  PROVE  /\ Plain(AuthValidateTransportBinding(f, in)) /\ Plain(ValidateJsonTransport(in))
         /\ Plain(AuthParseSingleDpopNonce(in))
         /\ Plain(ParseOAuthError(in, "InvalidParResponse"))
         /\ Plain(ParseOAuthError(in, "InvalidTokenResponse"))
         /\ Plain(RequireAll(in.flaws, <<"no_store", "no_cache">>, "CachePolicyMissing"))
         /\ Plain(ParseParResponse(in)) /\ Plain(ParseAuthorizationCallback(in))
  <2>. USE <1>AuthValidators
  <2>1. Plain(AuthValidateTransportBinding(f, in))
    BY PlainChecks, NameTuples DEF AuthValidateTransportBinding
  <2>2. Plain(ValidateJsonTransport(in))
    BY PlainChecks, NameTuples DEF ValidateJsonTransport
  <2>3. Plain(AuthParseSingleDpopNonce(in))
    BY PlainChecks, NameTuples DEF AuthParseSingleDpopNonce
  <2>4. /\ Plain(ParseOAuthError(in, "InvalidParResponse"))
        /\ Plain(ParseOAuthError(in, "InvalidTokenResponse"))
    BY PlainChecks, NameTuples DEF ParseOAuthError
  <2>5. Plain(RequireAll(in.flaws, <<"no_store", "no_cache">>, "CachePolicyMissing"))
    BY PlainChecks, NameTuples
  <2>6. Plain(ParseParResponse(in))
    BY PlainChecks, NameTuples DEF ParseParResponse
  <2>7. Plain(ParseForm(in))
    BY PlainChecks, NameTuples DEF ParseForm
  <2>8. /\ Plain(RequireAll(in.flaws, <<"state_form", "iss_form", "code_form">>,
                                 "InvalidAuthorizationCallback"))
        /\ Plain(<< Require((in.code = None) = in.denied, "InvalidAuthorizationCallback") >>)
    BY PlainChecks, NameTuples
  <2>9. Plain(ParseAuthorizationCallback(in))
    BY <2>7, <2>8, PlainConcat DEF ParseAuthorizationCallback
  <2>. QED
    BY <2>1, <2>2, <2>3, <2>4, <2>5, <2>6, <2>9
(* accept_par_response.                                                  *)
<1>AcceptParResponseStep.
  ASSUME NEW f, NEW s, NEW in, NEW sound, NEW t, AuthInv(f, s), f.stage = "AwaitingParResponse"
  PROVE  AuthGood(f, s, AcceptParResponse(f, in, t), sound)
  <2>. USE <1>AcceptParResponseStep
  <2>. DEFINE a == AuthValidateTransportBinding(f, in)
              b == ValidateJsonTransport(in)
              c == AuthParseSingleDpopNonce(in)
              d == IF in.status = 201 THEN <<>>
                   ELSE ParseOAuthError(in, "InvalidParResponse")
                        \o << Require(FALSE, "ParRejected") >>
              x == RequireAll(in.flaws, <<"no_store", "no_cache">>, "CachePolicyMissing")
              y == ParseParResponse(in)
              z == << Require(~AuthStaleNonce(f, in.nonce), "DpopNonceStale") >>
              checks == a \o b \o c \o d \o x \o y \o z
              next == RotateTokenEndpointNonce(f, in.nonce)
              g == [next EXCEPT !.stage = "AwaitingAuthorization"]
              e == AuthAsk("OpenAuthorization", 0)
              r == AcceptParResponse(f, in, t)
  <2>1. r = IF ~Passing(checks) THEN AuthLatch(f, FirstError(checks)) ELSE AuthDone(g, <<e>>)
    BY Verdicts, SMTT(30) DEF AcceptParResponse
  <2>2. Plain(a) /\ Plain(b) /\ Plain(c) /\ Plain(x) /\ Plain(y)
    BY <1>AuthValidators
  <2>3. Plain(d)
    <3>1. /\ Plain(ParseOAuthError(in, "InvalidParResponse"))
          /\ Plain(<< Require(FALSE, "ParRejected") >>)
      BY <1>AuthValidators, PlainChecks, NameTuples
    <3>. QED
      BY <3>1, PlainConcat, EmptyChecks
  <2>4. Plain(z)
    BY PlainChecks, NameTuples
  <2>. HIDE DEF a, b, c, d, x, y, z
  <2>5. Plain(checks)
    BY <2>2, <2>3, <2>4, PlainConcat
  <2>. HIDE DEF checks
  <2>6. DOMAIN f = AuthFields /\ s \in Seq(Range(s)) /\ AuthRunning(f) /\ PopsFresh(f, s) /\ TokensFresh(f, s)
    BY DEF AuthInv, Over
  <2>7. CASE ~Passing(checks)
    BY <2>1, <2>5, <2>6, <2>7, <1>AuthRefused DEF Plain
  <2>8. CASE Passing(checks)
    <3>1. DOMAIN next = AuthFields /\ next.failure = f.failure
      BY <2>6, <1>AuthRotated
    <3>2. /\ next.used = f.used /\ next.pops = f.pops /\ next.purpose = f.purpose
          /\ next.code = f.code /\ next.retry = f.retry
      BY <2>6, <1>AuthRotated
    <3>. HIDE DEF next
    <3>3. DOMAIN g = AuthFields /\ g.failure = f.failure
      BY <3>1 DEF AuthFields
    <3>4. /\ g.used = f.used /\ g.pops = f.pops /\ g.purpose = f.purpose
          /\ g.code = f.code /\ g.retry = f.retry /\ g.stage = "AwaitingAuthorization"
      BY <3>1, <3>2 DEF AuthFields
    <3>5. e.kind = "OpenAuthorization"
      BY DEF AuthAsk
    <3>. HIDE DEF g, e
    <3>6. s \o RequestsIn(<<e>>) = s
      BY <2>6, <3>5, Asked, NothingAdded DEF Request
    <3>7. PopsFresh(g, s)
      BY <2>6, <3>4 DEF PopsFresh
    <3>8. f.purpose = "Par" /\ Tokens(s) = {}
      BY <2>6 DEF AuthRunning, TokensFresh
    <3>9. TokensFresh(g, s)
      BY <3>4, <3>8, NoTokens DEF TokensFresh, TokenCount, Nonces
    <3>10. AuthRunning(g)
      BY <2>6, <3>4, SMTT(60) DEF AuthRunning, AuthUsed
    <3>11. g.stage \in AuthStages /\ g.stage \notin Over
      BY <3>4 DEF AuthStages, Over
    <3>12. Measure(g) < Measure(f) /\ Measure(g) >= 0
      BY <2>6, <3>4, RandomAssumption, SMTT(60) DEF Measure, Waits, AuthRunning, AuthUsed
    <3>13. AuthGood(f, s, AuthDone(g, <<e>>), sound)
      BY <2>6, <3>3, <3>6, <3>7, <3>9, <3>10, <3>11, <3>12, <1>AuthDoneGood
    <3>. QED
      BY <2>1, <2>8, <3>13
  <2>. QED
    BY <2>7, <2>8
(* accept_authorization_redirect, which brings the code.                 *)
<1>AcceptAuthorizationRedirectStep.
  ASSUME NEW f, NEW s, NEW in, NEW sound, AuthInv(f, s), f.stage = "AwaitingAuthorization"
  PROVE  AuthGood(f, s, AcceptAuthorizationRedirect(f, in, sound), sound)
  <2>. USE <1>AcceptAuthorizationRedirectStep
  <2>. DEFINE a == << Require("redirect_uri" \notin in.flaws, "RedirectMismatch") >>
              b == ParseAuthorizationCallback(in)
              state == in.state = StateOf(f)
              issuer == in.issuer = f.plan.server
              granted == ~in.denied
              c == << Require(state, "StateMismatch"), Require(issuer, "AuthorizationIssuerMismatch"),
                      Require(granted, "AuthorizationDenied") >>
              checks == a \o b \o c
              r == AcceptAuthorizationRedirect(f, in, sound)
  <2>1. r = IF ~Passing(checks) THEN AuthLatch(f, FirstError(checks))
            ELSE ClientAuthStage(f, "Token", in.code, 0, sound)
    BY Verdicts DEF AcceptAuthorizationRedirect, Require
  <2>2. Plain(a) /\ Plain(b)
    BY <1>AuthValidators, PlainChecks, NameTuples
  <2>3. Plain(c)
    <3>. HIDE DEF state, issuer, granted
    <3>. QED
      BY ThreeChecks
  <2>. HIDE DEF a, b, c
  <2>4. Plain(checks)
    BY <2>2, <2>3, PlainConcat
  <2>. HIDE DEF checks
  <2>5. DOMAIN f = AuthFields /\ s \in Seq(Range(s)) /\ AuthRunning(f) /\ PopsFresh(f, s) /\ TokensFresh(f, s)
    BY DEF AuthInv, Over
  <2>6. CASE ~Passing(checks)
    BY <2>1, <2>4, <2>5, <2>6, <1>AuthRefused DEF Plain
  <2>7. CASE Passing(checks)
    <3>1. f.purpose = "Par" /\ Tokens(s) = {}
      BY <2>5 DEF AuthRunning, TokensFresh
    <3>2. /\ Cardinality(Tokens(s)) = 0 /\ TokenTerms(s, in.code, Nonces(f))
          /\ NonceUnused(s, f.nonce)
      BY <3>1, NoTokens
    <3>3. PopsUsed(f.pops, s)
      BY <2>5 DEF PopsFresh
    <3>4. /\ f.used = 4 + 4 * 0 /\ 0 \in 0 .. 2 /\ Measure(f) = 2 * (MaxRandom - f.used)
      BY <2>5, RandomAssumption, SMTT(60) DEF AuthRunning, AuthUsed, Measure, Waits
    <3>5. AuthGood(f, s, ClientAuthStage(f, "Token", in.code, 0, sound), sound)
      BY <2>5, <3>2, <3>3, <3>4, <1>ClientAuthStageStep
    <3>. QED
      BY <2>1, <2>7, <3>5
  <2>. QED
    BY <2>6, <2>7
(* accept_token_response.                                                *)
<1>AcceptTokenResponseStep.
    \A f, s, in, sound, t :
       /\ AuthInv(f, s)
       /\ f.stage = "AwaitingTokenResponse"
       =>
       AuthGood(f, s, AcceptTokenResponse(f, in, t, sound), sound)
  (* The checks of a token response do not look at random values.          *)
  <2>AuthTokenValidator.
    ASSUME NEW in, NEW p
    PROVE  Plain(ParseAccessTokenResponse(in, p))
    <3>. USE <2>AuthTokenValidator
    <3>1. /\ Plain(RequireAll(in.flaws, <<"json", "no_error", "access_token">>,
                                   "InvalidTokenResponse"))
          /\ Plain(RequireAll(in.flaws, <<"expires_in", "no_refresh_token", "scope">>,
                                   "InvalidTokenResponse"))
          /\ Plain(<< Require(in.token_type = "DPoP", "TokenTypeDowngrade") >>)
      BY PlainChecks, NameTuples
    <3>2. \A accepted : Plain(<< Require(accepted, "InvalidTokenResponse") >>)
      BY PlainChecks, NameTuples
    <3>3. \E accepted : ParseCredentialIdentifiers(in.details, p).checks =
                        << Require(accepted, "InvalidTokenResponse") >>
      BY DEF ParseCredentialIdentifiers
    <3>4. Plain(ParseCredentialIdentifiers(in.details, p).checks)
      BY <3>2, <3>3
    <3>. QED
      BY <3>1, <3>4, PlainConcat DEF ParseAccessTokenResponse
  (* A token request is repeated with the nonce the server demanded, at    *)
  (* most twice.                                                           *)
  <2>RetryTokenStep.
    ASSUME NEW f, NEW s, NEW in, NEW sound, AuthInv(f, s), f.stage = "AwaitingTokenResponse"
    PROVE  AuthGood(f, s, RetryToken(f, in, sound), sound)
    <3>. USE <2>RetryTokenStep
    <3>. DEFINE some == in.nonce # None
                left == f.retry < MaxDpopNonceRetries
                new == ~AuthStaleNonce(f, in.nonce)
                checks == << Require(some, "DpopNonceInvalid"), Require(left, "DpopNonceRetryLimit"),
                             Require(new, "DpopNonceStale") >>
                g == RotateTokenEndpointNonce(f, in.nonce)
                r == RetryToken(f, in, sound)
    <3>1. r = IF ~Passing(checks) THEN AuthLatch(f, FirstError(checks))
              ELSE ClientAuthStage(g, "Token", f.code, f.retry + 1, sound)
      BY Verdicts DEF RetryToken, Require
    <3>2. Plain(checks) /\ (Passing(checks) => some /\ left /\ new)
      <4>. HIDE DEF some, left, new
      <4>. QED
        BY ThreeChecks, SMTT(30)
    <3>. HIDE DEF checks
    <3>3. DOMAIN f = AuthFields /\ s \in Seq(Range(s)) /\ AuthRunning(f) /\ PopsFresh(f, s) /\ TokensFresh(f, s)
      BY DEF AuthInv, Over
    <3>4. CASE ~Passing(checks)
      BY <3>1, <3>2, <3>3, <3>4, <1>AuthRefused DEF Plain
    <3>5. CASE Passing(checks)
      <4>1. DOMAIN g = AuthFields /\ f.failure = g.failure
        BY <3>3, <1>AuthRotated
      <4>2. g.used = f.used /\ g.pops = f.pops
        BY <3>3, <1>AuthRotated
      <4>3. /\ Nonces(f) \subseteq Nonces(g)
            /\ g.nonce = in.nonce
        <5>1. in.nonce # None
          BY <3>2, <3>5
        <5>2. g = [f EXCEPT !.nonce = in.nonce, !.retired = (@ \cup {f.nonce}) \ {None}]
          BY <5>1 DEF RotateTokenEndpointNonce
        <5>4. g.nonce = in.nonce
          BY <3>3, <5>2 DEF AuthFields
        <5>3. Nonces(f) \subseteq Nonces(g)
          BY <3>3, <1>AuthRotated
        <5>. QED
          BY <5>3, <5>4
      <4>. HIDE DEF g
      <4>4. PopsUsed(g.pops, s)
        BY <3>3, <4>2 DEF PopsFresh
      <4>5. f.purpose = "Token" /\ TokenTerms(s, f.code, Nonces(f))
        BY <3>3 DEF TokensFresh, AuthRunning
      <4>6. TokenTerms(s, f.code, Nonces(g))
        BY <4>3, <4>5 DEF TokenTerms
      <4>7. g.nonce \notin Nonces(f)
        BY <3>2, <3>5, <4>3 DEF AuthStaleNonce, Nonces
      <4>8. NonceUnused(s, g.nonce)
        BY <4>5, <4>7 DEF NonceUnused, TokenTerms
      <4>9. Cardinality(Tokens(s)) = f.retry + 1
        BY <3>3, <4>5 DEF TokensFresh, TokenCount, Nonces
      <4>10. f.retry < 2
        BY <3>2, <3>5 DEF MaxDpopNonceRetries
      <4>11. /\ f.retry + 1 \in 0 .. 2 /\ g.used = 4 + 4 * (f.retry + 1)
             /\ Measure(f) = 2 * (MaxRandom - g.used)
        BY <3>3, <4>2, <4>10, RandomAssumption, SMTT(60) DEF AuthRunning, AuthUsed, Measure, Waits
      <4>12. AuthGood(f, s, ClientAuthStage(g, "Token", f.code, f.retry + 1, sound), sound)
        BY <3>3, <4>1, <4>4, <4>6, <4>8, <4>9, <4>11, <1>ClientAuthStageStep
      <4>. QED
        BY <3>1, <3>5, <4>12
    <3>. QED
      BY <3>4, <3>5
  (* An authorization that ends with a grant.                              *)
  <2>AuthCompleted.
    ASSUME NEW f, NEW s, NEW g, NEW sound, DOMAIN g = AuthFields, g.stage = "Complete",
           g.failure = f.failure
    PROVE  AuthGood(f, s, AuthDone(g, <<>>), sound)
    <3>. USE <2>AuthCompleted
    <3>. DEFINE r == AuthDone(g, <<>>)
    <3>1. r.flow = g
      BY DEF AuthDone
    <3>. HIDE DEF r
    <3>2. "Complete" \in Over /\ "Complete" \in AuthStages
      BY DEF Over, AuthStages
    <3>3. After(r, s) = <<>> /\ <<>> \in Seq(Range(<<>>))
      BY <3>1, <3>2, NoneCounted DEF After
    <3>4. AuthInv(r.flow, After(r, s))
      BY <3>1, <3>2, <3>3 DEF AuthInv
    <3>. QED
      BY <3>1, <3>2, <3>4 DEF AuthGood, r
  (* accept_token_response.                                                *)
  <2>Result.
    ASSUME NEW f, NEW s, NEW in, NEW sound, NEW t, AuthInv(f, s), f.stage = "AwaitingTokenResponse"
    PROVE  AuthGood(f, s, AcceptTokenResponse(f, in, t, sound), sound)
    <3>. USE <2>Result
    <3>. DEFINE a == AuthValidateTransportBinding(f, in)
                b == ValidateJsonTransport(in)
                c == AuthParseSingleDpopNonce(in)
                d == IF in.status = 400 THEN ParseOAuthError(in, "InvalidTokenResponse") ELSE <<>>
                transport == a \o b \o c \o d
                demand == in.status = 400 /\ in.use_dpop_nonce
                w == << Require(in.status = 200, "TokenRejected") >>
                x == RequireAll(in.flaws, <<"no_store", "no_cache">>, "CachePolicyMissing")
                y == << Require(~AuthStaleNonce(f, in.nonce), "DpopNonceStale") >>
                z == ParseAccessTokenResponse(in, f.plan)
                checks == w \o x \o y \o z
                next == RotateTokenEndpointNonce(f, in.nonce)
                grant == [issued |-> t, expires |-> in.expires,
                          identifiers |-> ParseCredentialIdentifiers(in.details, f.plan).value,
                          plan |-> f.plan]
                g == [next EXCEPT !.stage = "Complete", !.grant = grant]
                r == AcceptTokenResponse(f, in, t, sound)
    <3>1. r = IF ~Passing(transport) THEN AuthLatch(f, FirstError(transport))
              ELSE IF demand THEN RetryToken(f, in, sound)
              ELSE IF ~Passing(checks) THEN AuthLatch(f, FirstError(checks))
              ELSE AuthDone(g, <<>>)
      BY Verdicts, SMTT(30) DEF AcceptTokenResponse
    <3>2. Plain(a) /\ Plain(b) /\ Plain(c) /\ Plain(x)
      BY <1>AuthValidators
    <3>3. Plain(d)
      BY <1>AuthValidators, EmptyChecks
    <3>4. Plain(w) /\ Plain(y)
      BY PlainChecks, NameTuples
    <3>5. Plain(z)
      BY <2>AuthTokenValidator
    <3>. HIDE DEF a, b, c, d, w, x, y, z
    <3>6. Plain(transport)
      BY <3>2, <3>3, PlainConcat
    <3>7. Plain(checks)
      BY <3>2, <3>4, <3>5, PlainConcat
    <3>. HIDE DEF checks, transport, demand
    <3>8. DOMAIN f = AuthFields
      BY DEF AuthInv
    <3>9. CASE ~Passing(transport)
      BY <3>1, <3>6, <3>8, <3>9, <1>AuthRefused DEF Plain
    <3>10. CASE Passing(transport) /\ demand
      BY <3>1, <3>10, <2>RetryTokenStep
    <3>11. CASE Passing(transport) /\ ~demand /\ ~Passing(checks)
      BY <3>1, <3>7, <3>8, <3>11, <1>AuthRefused DEF Plain
    <3>12. CASE Passing(transport) /\ ~demand /\ Passing(checks)
      <4>1. DOMAIN next = AuthFields /\ next.failure = f.failure
        BY <3>8, <1>AuthRotated
      <4>. HIDE DEF next, grant
      <4>2. DOMAIN g = AuthFields /\ g.stage = "Complete" /\ g.failure = f.failure
        BY <4>1 DEF AuthFields
      <4>. HIDE DEF g
      <4>3. AuthGood(f, s, AuthDone(g, <<>>), sound)
        BY <4>2, <2>AuthCompleted
      <4>. QED
        BY <3>1, <3>12, <4>3
    <3>. QED
      BY <3>9, <3>10, <3>11, <3>12
  <2>. QED
    BY <2>Result
(* Every input an authorization may meet at its stage, and any other     *)
(* input.                                                                *)
<1>Transition.
  ASSUME NEW f, NEW s, NEW in, NEW t, NEW sound, AuthInv(f, s)
  PROVE  AuthGood(f, s, AuthTransition(f, in, t, sound), sound)
  <2>. USE <1>Transition
  <2>. DEFINE r == AuthTransition(f, in, t, sound)
  <2>1. CASE f.stage = "AwaitingClientAuthentication" /\ in.kind = "WalletClientAuthentication"
    <3>1. r = AcceptClientAuthentication(f, in, sound)
      BY <2>1 DEF AuthTransition
    <3>. QED
      BY <2>1, <3>1, <1>AcceptClientAuthenticationStep
  <2>2. CASE f.stage = "SigningDpop" /\ in.kind = "DpopSignature"
    <3>1. r = AuthAcceptDpopSignature(f, in, sound)
      BY <2>2 DEF AuthTransition
    <3>. QED
      BY <2>2, <3>1, <1>AuthDpopSignatureStep
  <2>3. CASE f.stage = "AwaitingParResponse" /\ in.kind = "ParResponse"
    <3>1. r = AcceptParResponse(f, in, t)
      BY <2>3 DEF AuthTransition
    <3>. QED
      BY <2>3, <3>1, <1>AcceptParResponseStep
  <2>4. CASE f.stage = "AwaitingAuthorization" /\ in.kind = "AuthorizationRedirect"
    <3>1. r = AcceptAuthorizationRedirect(f, in, sound)
      BY <2>4 DEF AuthTransition
    <3>. QED
      BY <2>4, <3>1, <1>AcceptAuthorizationRedirectStep
  <2>5. CASE f.stage = "AwaitingTokenResponse" /\ in.kind = "TokenResponse"
    <3>1. r = AcceptTokenResponse(f, in, t, sound)
      BY <2>5 DEF AuthTransition
    <3>. QED
      BY <2>5, <3>1, <1>AcceptTokenResponseStep
  <2>6. CASE /\ ~(f.stage = "AwaitingClientAuthentication" /\ in.kind = "WalletClientAuthentication")
             /\ ~(f.stage = "SigningDpop" /\ in.kind = "DpopSignature")
             /\ ~(f.stage = "AwaitingParResponse" /\ in.kind = "ParResponse")
             /\ ~(f.stage = "AwaitingAuthorization" /\ in.kind = "AuthorizationRedirect")
             /\ ~(f.stage = "AwaitingTokenResponse" /\ in.kind = "TokenResponse")
    <3>1. r = AuthLatch(f, "UnexpectedInput")
      BY <2>6 DEF AuthTransition
    <3>2. DOMAIN f = AuthFields
      BY DEF AuthInv
    <3>. QED
      BY <3>1, <3>2, AuthLatchGood
  <2>. QED
    BY <2>1, <2>2, <2>3, <2>4, <2>5, <2>6
<1>. QED
  BY <1>Transition

(* A step of the authorization, the checks of the clock and of a flow that *)
(* is over included.                                                       *)
LEMMA AuthStepKeeps ==
  ASSUME FiniteFacts, NEW f, NEW s, NEW in, NEW t, NEW sound, AuthInv(f, s)
  PROVE  LET r == AuthStep(f, in, t, sound) IN AuthGood(f, s, r, sound) /\ Latched(f, r)
<1>. DEFINE r == AuthStep(f, in, t, sound)
            at == [f EXCEPT !.last = t]
            wrong == ~AuthValidateClock(t) \/ t < f.last
<1>1. DOMAIN f = AuthFields
  BY DEF AuthInv
<1>2. CASE wrong
  <2>1. r = AuthLatch(f, "InvalidClock")
    BY <1>2 DEF AuthStep
  <2>. DEFINE l == AuthLatch(f, "InvalidClock")
  <2>2. AuthGood(f, s, l, sound)
    BY <1>1, AuthLatchGood
  <2>3. l.flow.stage = "Failed" /\ l.flow.failure = "InvalidClock"
    BY <1>1 DEF AuthLatch, AuthFields
  <2>. HIDE DEF l
  <2>4. Latched(f, l)
    BY <2>3 DEF Latched, Over
  <2>. QED
    BY <2>1, <2>2, <2>4 DEF l
<1>3. DOMAIN at = AuthFields /\ at.last = t
  BY <1>1 DEF AuthFields
<1>4. /\ at.stage = f.stage /\ at.failure = f.failure /\ at.purpose = f.purpose
      /\ at.code = f.code /\ at.pop = f.pop /\ at.retry = f.retry /\ at.nonce = f.nonce
      /\ at.retired = f.retired /\ at.pops = f.pops /\ at.used = f.used
  BY <1>1 DEF AuthFields
<1>5. CASE ~wrong /\ f.stage \in Over
  <2>. DEFINE q == [flow |-> at, effects |-> <<>>, error |-> "AlreadyTerminal"]
  <2>1. r = q
    BY <1>5 DEF AuthStep, AuthTerminal, Over
  <2>2. q.flow = at
    OBVIOUS
  <2>3. After(q, s) = <<>> /\ <<>> \in Seq(Range(<<>>))
    BY <1>4, <1>5, <2>2, NoneCounted DEF After
  <2>4. Latched(f, q)
    BY <1>3, <1>4, <1>5, <2>2 DEF Latched
  <2>. HIDE DEF at, q
  <2>5. AuthInv(q.flow, After(q, s))
    BY <1>3, <1>4, <1>5, <2>2, <2>3 DEF AuthInv
  <2>6. AuthGood(f, s, q, sound)
    BY <1>4, <1>5, <2>2, <2>5 DEF AuthGood
  <2>. QED
    BY <2>1, <2>4, <2>6
<1>6. CASE ~wrong /\ f.stage \notin Over
  <2>1. r = AuthTransition(at, in, t, sound)
    BY <1>6 DEF AuthStep, AuthTerminal, Over
  <2>. HIDE DEF at
  <2>2. AuthRunning(at) /\ PopsFresh(at, s) /\ TokensFresh(at, s)
    <3>1. AuthRunning(f) /\ PopsFresh(f, s) /\ TokensFresh(f, s)
      BY <1>6 DEF AuthInv
    <3>2. AuthUsed(at) = AuthUsed(f)
      BY <1>4 DEF AuthUsed
    <3>3. AuthRunning(at)
      BY <1>4, <3>1, <3>2 DEF AuthRunning
    <3>4. PopsFresh(at, s)
      BY <1>4, <3>1 DEF PopsFresh
    <3>5. Nonces(at) = Nonces(f) /\ TokenCount(at) = TokenCount(f)
      BY <1>4 DEF Nonces, TokenCount
    <3>6. TokensFresh(at, s)
      BY <1>4, <3>1, <3>5 DEF TokensFresh
    <3>. QED
      BY <3>3, <3>4, <3>6
  <2>3. AuthInv(at, s)
    BY <1>3, <1>4, <1>6, <2>2 DEF AuthInv
  <2>4. AuthGood(at, s, AuthTransition(at, in, t, sound), sound)
    BY <2>3, AuthTransitionStep
  <2>5. Measure(at) = Measure(f)
    BY <1>4 DEF Measure
  <2>. QED
    BY <1>4, <1>6, <2>1, <2>4, <2>5 DEF AuthGood, Latched
<1>. QED
  BY <1>2, <1>5, <1>6

(* An authorization begins with nothing sent.                              *)
LEMMA AuthBegins ==
  ASSUME FiniteFacts, NEW p, NEW t, NEW sound, AuthBegin(p, t, sound).error = None
  PROVE  LET r == AuthBegin(p, t, sound)
         IN  AuthInv(r.flow, RequestsIn(r.effects)) /\ r.flow.failure = None
<1>. DEFINE empty == [stage |-> "Failed", failure |-> "UnexpectedInput", plan |-> p,
                      purpose |-> None, id |-> 0, code |-> None, pop |-> None, retry |-> 0,
                      nonce |-> None, retired |-> {}, pops |-> {}, used |-> 0,
                      last |-> t, grant |-> None]
            d == AuthDrawn(empty, 2)
            b == [d EXCEPT !.failure = None]
            h == AuthDrawn(b, 1)
            id == b.used + 1
            g == [h EXCEPT !.stage = "AwaitingClientAuthentication", !.purpose = "Par",
                           !.id = id, !.code = None, !.retry = 0]
            e == AuthAsk("AcquireWalletClientAuthentication", id)
            r == AuthBegin(p, t, sound)
<1>1. \A f, x : AuthLatch(f, x).error = x
  BY DEF AuthLatch
<1>2. /\ AuthValidateClock(t) /\ AuthFreshRandom(empty, 2, sound)
      /\ r = ClientAuthStage(b, "Par", None, 0, sound)
  <2>1. r = IF ~AuthValidateClock(t) THEN AuthLatch(empty, "InvalidClock")
            ELSE IF ~AuthFreshRandom(empty, 2, sound) THEN AuthLatch(empty, "RandomnessFailure")
            ELSE ClientAuthStage(b, "Par", None, 0, sound)
    BY DEF AuthBegin
  <2>2. r.error = None
    OBVIOUS
  <2>. HIDE DEF r, b, empty
  <2>. QED
    BY <1>1, <2>1, <2>2, NoneAssumption
<1>3. AuthFreshRandom(b, 1, sound) /\ r = AuthDone(g, <<e>>)
  <2>. HIDE DEF b
  <2>1. r = IF ~AuthFreshRandom(b, 1, sound) THEN AuthLatch(b, "RandomnessFailure")
            ELSE AuthDone(g, <<e>>)
    BY <1>2 DEF ClientAuthStage
  <2>2. r.error = None
    OBVIOUS
  <2>. HIDE DEF r, g, e
  <2>. QED
    BY <1>1, <2>1, <2>2, NoneAssumption
<1>4. r.flow = g /\ r.effects = <<e>>
  <2>. HIDE DEF r, g, e
  <2>. QED
    BY <1>3 DEF AuthDone
<1>5. DOMAIN empty = AuthFields
  BY DEF AuthFields
<1>6. /\ empty.used = 0 /\ empty.nonce = None /\ empty.retired = {} /\ empty.pops = {}
  OBVIOUS
<1>. HIDE DEF empty
<1>7. DOMAIN d = AuthFields
  BY <1>5 DEF AuthDrawn
<1>8. d.used = empty.used + 2 /\ d.nonce = None /\ d.retired = {} /\ d.pops = {}
  BY <1>5, <1>6 DEF AuthDrawn, AuthFields
<1>. HIDE DEF d
<1>9. DOMAIN b = AuthFields
  BY <1>7
<1>10. b.used = d.used /\ b.nonce = None /\ b.retired = {} /\ b.pops = {} /\ b.failure = None
  BY <1>7, <1>8 DEF AuthFields
<1>. HIDE DEF b, id
<1>11. DOMAIN h = AuthFields
  BY <1>9 DEF AuthDrawn
<1>12. h.used = b.used + 1 /\ h.nonce = None /\ h.retired = {} /\ h.pops = {} /\ h.failure = None
  BY <1>9, <1>10 DEF AuthDrawn, AuthFields
<1>. HIDE DEF h
<1>13. DOMAIN g = AuthFields
  BY <1>11
<1>14. /\ g.used = h.used /\ g.nonce = None /\ g.retired = {} /\ g.pops = {}
       /\ g.failure = None
  BY <1>11, <1>12 DEF AuthFields
<1>15. /\ g.stage = "AwaitingClientAuthentication" /\ g.purpose = "Par" /\ g.code = None
       /\ g.retry = 0
  BY <1>11 DEF AuthFields
<1>16. ~Request(e)
  BY DEF Request, AuthAsk
<1>. HIDE DEF g, e
<1>17. RequestsIn(<<e>>) = <<>> /\ <<>> \in Seq(Range(<<>>)) /\ Tokens(<<>>) = {}
  BY <1>16, Asked, NoneCounted DEF Tokens
<1>18. g.used = 3
  BY <1>6, <1>8, <1>10, <1>12, <1>14, SMTT(60)
<1>19. AuthRunning(g)
  BY <1>15, <1>18, SMTT(60) DEF AuthRunning, AuthUsed
<1>20. PopsFresh(g, <<>>)
  <2>1. DOMAIN <<>> = {}
    BY SMTT(60)
  <2>. QED
    BY <1>15, <2>1 DEF PopsFresh, PopsUsed
<1>21. TokensFresh(g, <<>>)
  BY <1>15, <1>17, NoTokens DEF TokensFresh, TokenCount
<1>22. g.stage \in AuthStages /\ g.stage \notin Over
  BY <1>15 DEF AuthStages, Over
<1>23. AuthInv(g, <<>>)
  BY <1>13, <1>17, <1>19, <1>20, <1>21, <1>22 DEF AuthInv
<1>. QED
  BY <1>4, <1>14, <1>17, <1>23

(* A request with the current nonce.                                       *)
LEMMA SentInOrder ==
  ASSUME NEW s, s \in Seq(Range(s)), NEW t, NEW e, Extends(t, s, e), NEW nonces, e.nonce \in nonces,
         InOrder(s, e.nonce, nonces)
  PROVE  InOrder(t, e.nonce, nonces)
<1>. DEFINE n == Len(s) + 1
<1>1. /\ n \in Nat /\ \A i \in DOMAIN s : i \in Nat /\ i < n /\ t[i] = s[i]
      /\ t[n] = e /\ DOMAIN t = DOMAIN s \cup {n}
  BY SMTT(60) DEF Extends
<1>. HIDE DEF n
<1>2. \A i \in DOMAIN t : ~(n < i)
  BY <1>1, SMTT(60)
<1>3. Among(t, nonces)
  BY <1>1 DEF InOrder, Among
<1>4. RunsOn(t, e.nonce)
  <2>. SUFFICES ASSUME NEW i \in DOMAIN t, NEW j \in DOMAIN t, i < j, t[i].nonce = e.nonce
                PROVE  t[j].nonce = e.nonce
    BY DEF RunsOn
  <2>1. i \in DOMAIN s
    BY <1>1, <1>2
  <2>2. CASE j \in DOMAIN s
    BY <1>1, <2>1, <2>2 DEF InOrder, RunsOn
  <2>3. CASE j = n
    BY <1>1, <2>3
  <2>. QED
    BY <1>1, <2>2, <2>3
<1>5. Runs(t)
  <2>. SUFFICES ASSUME NEW i \in DOMAIN t, NEW j \in DOMAIN t, NEW k \in DOMAIN t,
                       i < j, j < k, t[i].nonce = t[k].nonce
                PROVE  t[j].nonce = t[k].nonce
    BY DEF Runs
  <2>0. ~(n < j) /\ ~(n < k)
    BY <1>2
  <2>1. i \in DOMAIN s /\ j \in DOMAIN s
    <3>1. i # n /\ j # n
      BY <2>0
    <3>. QED
      BY <1>1, <3>1
  <2>2. CASE k \in DOMAIN s
    <3>1. t[i] = s[i] /\ t[j] = s[j] /\ t[k] = s[k]
      BY <1>1, <2>1, <2>2
    <3>2. s[j].nonce = s[k].nonce
      BY <2>1, <2>2, <3>1, SMTT(60) DEF InOrder, Runs
    <3>. QED
      BY <3>1, <3>2
  <2>3. CASE k = n
    <3>1. s[i].nonce = e.nonce
      BY <1>1, <2>1, <2>3
    <3>2. s[j].nonce = e.nonce
      BY <2>1, <3>1 DEF InOrder, RunsOn
    <3>. QED
      BY <1>1, <2>1, <2>3, <3>2
  <2>. QED
    BY <1>1, <2>2, <2>3
<1>. QED
  BY <1>3, <1>4, <1>5 DEF InOrder

(* A credential flow that fails is over.                                   *)
LEMMA CredLatchGood ==
  ASSUME FiniteFacts, NEW f, NEW f0, NEW s, NEW seen, NEW e, NEW sound, DOMAIN f = CredFields,
         f.config = f0.config,
         e = "RandomnessFailure" => ~sound \/ Cardinality(Polls(s)) >= GuaranteedPolls
  PROVE  CredGood(f0, s, seen, CredLatch(f, e), sound)
<1>. DEFINE r == CredLatch(f, e)
            g == [f EXCEPT !.stage = "Failed", !.failure = e, !.id = 0, !.c_nonce = None,
                     !.transaction = None, !.next_poll = 0, !.retry = 0, !.nonce = None,
                     !.retired = {}, !.used = 0, !.issued = None]
<1>1. r.flow = g /\ r.error = e
  BY DEF CredLatch
<1>2. DOMAIN g = CredFields
  OBVIOUS
<1>3. g.stage = "Failed"
  BY DEF CredFields
<1>4. g.failure = e
  BY DEF CredFields
<1>5. g.config = f0.config
  BY DEF CredFields
<1>. HIDE DEF r, g
<1>6. "Failed" \in CredStages /\ "Failed" \in Over /\ "Failed" # "Complete"
  BY DEF CredStages, Over
<1>7. After(r, s) = <<>> /\ <<>> \in Seq(Range(<<>>))
  BY <1>1, <1>3, <1>6, NoneCounted DEF After
<1>8. CredInv(r.flow, After(r, s), seen)
  BY <1>1, <1>2, <1>3, <1>6, <1>7 DEF CredInv
<1>. QED
  BY <1>1, <1>3, <1>4, <1>5, <1>6, <1>8 DEF CredGood, r

(* Every input a credential flow may meet at its stage, and any other      *)
(* input.                                                                  *)
LEMMA CredTransitionStep ==
  ASSUME FiniteFacts
  PROVE  \A f, s, seen, in, t, sound :
            CredInv(f, s, seen) => CredGood(f, s, seen, CredTransition(f, in, t, seen, sound), sound)
(* A credential flow fails with the error of a check that fails.         *)
<1>CredRefused.
  ASSUME NEW f, NEW f0, NEW s, NEW seen, NEW checks, NEW sound, DOMAIN f = CredFields,
         f.config = f0.config, IsSeq(checks), ~Passing(checks),
         "RandomnessFailure" \in Errors(checks) =>
            ~sound \/ Cardinality(Polls(s)) >= GuaranteedPolls
  PROVE  CredGood(f0, s, seen, CredLatch(f, FirstError(checks)), sound)
  <2>. USE <1>CredRefused
  <2>1. FirstError(checks) \in Errors(checks)
    BY FailsWith
  <2>2. FirstError(checks) = "RandomnessFailure" =>
           ~sound \/ Cardinality(Polls(s)) >= GuaranteedPolls
    BY <2>1
  <2>. QED
    BY <2>2, CredLatchGood
(* A credential flow that goes on with another stage.                    *)
<1>CredDoneGood.
  ASSUME NEW f, NEW s, NEW seen, NEW g, NEW effects, NEW sound, NEW t,
         s \o RequestsIn(effects) = t, DOMAIN g = CredFields, g.stage \in CredStages,
         g.failure = f.failure, g.config = f.config,
         t \in Seq(Range(t)), g.stage \notin Over,
         CredRunning(g, Cardinality(Polls(t))), CredSent(g, t, seen),
         Measure(g) < Measure(f), Measure(g) >= 0
  PROVE  CredGood(f, s, seen, CredDone(g, effects), sound)
  <2>. USE <1>CredDoneGood
  <2>. DEFINE r == CredDone(g, effects)
  <2>1. r.flow = g /\ r.effects = effects
    BY DEF CredDone
  <2>. HIDE DEF r
  <2>2. After(r, s) = t
    BY <2>1 DEF After
  <2>3. g.stage # "Complete"
    BY DEF Over
  <2>4. CredInv(r.flow, After(r, s), seen)
    BY <2>1, <2>2, <2>3 DEF CredInv
  <2>. QED
    BY <2>1, <2>4 DEF CredGood, r
(* A nonce that is not stale takes the place of the current one.         *)
<1>CredRotated.
  ASSUME NEW f, NEW n, DOMAIN f = CredFields
  PROVE  LET g == RotateCredentialEndpointNonce(f, n)
         IN  /\ DOMAIN g = CredFields
             /\ g.failure = f.failure /\ g.config = f.config
             /\ g.used = f.used /\ g.c_nonce = f.c_nonce /\ g.transaction = f.transaction
             /\ g.retry = f.retry /\ g.stage = f.stage
  <2>. USE <1>CredRotated
  <2>. DEFINE g == [f EXCEPT !.nonce = n, !.retired = (@ \cup {f.nonce}) \ {None}]
  <2>1. CASE n = None
    <3>1. RotateCredentialEndpointNonce(f, n) = f
      BY <2>1 DEF RotateCredentialEndpointNonce
    <3>. QED
      BY <3>1
  <2>2. CASE n # None
    <3>1. RotateCredentialEndpointNonce(f, n) = g
      BY <2>2 DEF RotateCredentialEndpointNonce
    <3>2. DOMAIN g = CredFields
      OBVIOUS
    <3>3. /\ g.failure = f.failure /\ g.config = f.config
          /\ g.used = f.used /\ g.c_nonce = f.c_nonce /\ g.transaction = f.transaction
          /\ g.retry = f.retry /\ g.stage = f.stage
      BY DEF CredFields
    <3>. HIDE DEF g
    <3>. QED
      BY <3>1, <3>2, <3>3
  <2>. QED
    BY <2>1, <2>2
(* The order of the nonces is kept.                                      *)
<1>CredRotatedInOrder.
    \A f, n, s :
       /\ DOMAIN f = CredFields
       /\ ~CredStaleNonce(f, n)
       /\ InOrder(s, f.nonce, Nonces(f))
       =>
       LET g == RotateCredentialEndpointNonce(f, n)
       IN  /\ InOrder(s, g.nonce, Nonces(g))
           /\ n # None => g.nonce \notin Nonces(f)
  (* A nonce that is new was not used by any request.                      *)
  <2>RotatedInOrder.
    ASSUME NEW s, NEW n, NEW nonces, InOrder(s, n, nonces), NEW m, NEW more,
           m \notin nonces, nonces \subseteq more
    PROVE  InOrder(s, m, more)
    <3>. USE <2>RotatedInOrder
    <3>1. Among(s, more)
      BY DEF InOrder, Among
    <3>2. RunsOn(s, m)
      BY DEF InOrder, Among, RunsOn
    <3>. QED
      BY <3>1, <3>2 DEF InOrder
  (* The order of the nonces is kept.                                      *)
  <2>Result.
    ASSUME NEW f, NEW n, NEW s, DOMAIN f = CredFields, ~CredStaleNonce(f, n),
           InOrder(s, f.nonce, Nonces(f))
    PROVE  LET g == RotateCredentialEndpointNonce(f, n)
           IN  /\ InOrder(s, g.nonce, Nonces(g))
               /\ n # None => g.nonce \notin Nonces(f)
    <3>. USE <2>Result
    <3>. DEFINE g == [f EXCEPT !.nonce = n, !.retired = (@ \cup {f.nonce}) \ {None}]
    <3>1. CASE n = None
      <4>1. RotateCredentialEndpointNonce(f, n) = f
        BY <3>1 DEF RotateCredentialEndpointNonce
      <4>. QED
        BY <3>1, <4>1
    <3>2. CASE n # None
      <4>1. RotateCredentialEndpointNonce(f, n) = g
        BY <3>2 DEF RotateCredentialEndpointNonce
      <4>2. g.retired = (f.retired \cup {f.nonce}) \ {None} /\ g.nonce = n
        BY DEF CredFields
      <4>. HIDE DEF g
      <4>3. g.nonce \notin Nonces(f)
        BY <3>2, <4>2 DEF Nonces, CredStaleNonce
      <4>4. Nonces(f) \subseteq Nonces(g)
        BY <4>2 DEF Nonces
      <4>5. InOrder(s, g.nonce, Nonces(g))
        BY <4>3, <4>4, <2>RotatedInOrder
      <4>. QED
        BY <4>1, <4>3, <4>5
    <3>. QED
      BY <3>1, <3>2
  <2>. QED
    BY <2>Result
(* The validators of the answers do not look at random values.           *)
<1>CredValidators.
  ASSUME NEW f, NEW in
  PROVE  /\ Plain(CredValidateTransportBinding(f, in))
         /\ Plain(ValidateCommonResponseHeaders(in))
         /\ Plain(CredParseSingleDpopNonce(in)) /\ Plain(ParseAuthParameters(in))
         /\ Plain(ParseUseDpopNonceBody(in)) /\ Plain(ParseNonceResponse(in))
         /\ Plain(ParseDeferredCredential(in)) /\ Plain(AnswerHead(f, in))
  <2>. USE <1>CredValidators
  <2>1. Plain(CredValidateTransportBinding(f, in))
    BY PlainChecks, NameTuples DEF CredValidateTransportBinding
  <2>2. Plain(ValidateCommonResponseHeaders(in))
    <3>1. /\ Plain(RequireAll(in.flaws, <<"content_type">>, "InvalidMediaType"))
          /\ Plain(RequireAll(in.flaws, <<"no_store", "no_caching", "pragma">>,
                                   "CachePolicyMissing"))
          /\ Plain(RequireAll(in.flaws, <<"identity_encoding">>, "InvalidContentEncoding"))
      BY PlainChecks, NameTuples
    <3>. QED
      BY <3>1, PlainConcat DEF ValidateCommonResponseHeaders
  <2>3. Plain(CredParseSingleDpopNonce(in))
    BY PlainChecks, NameTuples DEF CredParseSingleDpopNonce
  <2>4. Plain(ParseAuthParameters(in))
    BY PlainChecks, NameTuples DEF ParseAuthParameters
  <2>5. Plain(ParseUseDpopNonceBody(in))
    BY PlainChecks, NameTuples DEF ParseUseDpopNonceBody
  <2>6. Plain(ParseNonceResponse(in))
    BY PlainChecks, NameTuples DEF ParseNonceResponse
  <2>7. Plain(ParseDeferredCredential(in))
    <3>1. /\ Plain(RequireAll(in.flaws, <<"json", "not_immediate", "transaction_id">>,
                                   "InvalidCredentialResponse"))
          /\ Plain(<< Require(in.interval > 0, "InvalidCredentialResponse") >>)
      BY PlainChecks, NameTuples
    <3>. QED
      BY <3>1, PlainConcat DEF ParseDeferredCredential
  <2>8. Plain(AnswerHead(f, in))
    <3>1. Plain(RequireAll(in.flaws, <<"size">>, "InvalidCredentialResponse"))
      BY PlainChecks, NameTuples
    <3>2. Plain(IF in.status = 401 THEN ParseAuthParameters(in) ELSE <<>>)
      BY <2>4, EmptyChecks
    <3>. QED
      BY <2>1, <2>2, <2>3, <3>1, <3>2, PlainConcat DEF AnswerHead
  <2>. QED
    BY <2>1, <2>2, <2>3, <2>4, <2>5, <2>6, <2>7, <2>8
(* accept_nonce_response, which refuses a c_nonce that was consumed.     *)
<1>AcceptNonceResponseStep.
  ASSUME NEW f, NEW s, NEW seen, NEW in, NEW sound, CredInv(f, s, seen),
         f.stage = "AwaitingNonceResponse"
  PROVE  CredGood(f, s, seen, AcceptNonceResponse(f, in, seen, sound), sound)
  <2>. USE <1>AcceptNonceResponseStep
  <2>. DEFINE a == CredValidateTransportBinding(f, in)
              b == RequireAll(in.flaws, <<"size">>, "InvalidNonceResponse")
              c == ValidateCommonResponseHeaders(in)
              ok == in.status = 200
              silent == in.challenge = None
              d == << Require(ok, "InvalidStatus"), Require(silent, "InvalidNonceResponse") >>
              e == CredParseSingleDpopNonce(in)
              new == ~CredStaleNonce(f, in.nonce)
              h == << Require(new, "DpopNonceStale") >>
              j == ParseNonceResponse(in)
              unseen == in.c_nonce \notin seen
              fresh == CredFreshRandom(f, 1, sound)
              k == << Require(unseen, "CNonceReplayed"), Require(fresh, "RandomnessFailure") >>
              head == a \o b \o c \o d \o e
              checks == head \o h \o j \o k
              id == f.used + 1
              next == RotateCredentialEndpointNonce(f, in.nonce)
              w == CredDrawn(next, 1)
              g == [w EXCEPT !.stage = "AwaitingKeyAttestation", !.id = id, !.c_nonce = in.c_nonce]
              q == [CredAsk("AcquireKeyAttestation", id) EXCEPT !.c_nonce = in.c_nonce]
              r == AcceptNonceResponse(f, in, seen, sound)
  <2>1. r = IF ~Passing(checks) THEN CredLatch(f, FirstError(checks)) ELSE CredDone(g, <<q>>)
    BY Verdicts DEF AcceptNonceResponse, Require
  <2>2. Plain(a) /\ Plain(c) /\ Plain(e) /\ Plain(j)
    BY <1>CredValidators
  <2>3. Plain(b)
    BY PlainChecks, NameTuples
  <2>4. Plain(d)
    <3>. HIDE DEF ok, silent
    <3>. QED
      BY TwoChecks
  <2>5. Plain(h) /\ (Passing(h) => new)
    <3>. HIDE DEF new
    <3>. QED
      BY OneCheck, SMTT(30)
  <2>6. /\ IsSeq(k) /\ (Passing(k) => unseen /\ fresh)
        /\ "RandomnessFailure" \in Errors(k) => ~fresh
    <3>. HIDE DEF unseen, fresh
    <3>. QED
      BY TwoChecks, SMTT(30)
  <2>. HIDE DEF a, b, c, d, e, h, j, k
  <2>7. Plain(head)
    BY <2>2, <2>3, <2>4, PlainConcat
  <2>. HIDE DEF head
  <2>8. /\ Plain(head \o h) /\ (Passing(head \o h) => Passing(h))
        /\ Plain(head \o h \o j) /\ (Passing(head \o h \o j) => Passing(head \o h))
    BY <2>2, <2>5, <2>7, PlainConcat, EndsWith DEF Plain
  <2>9. /\ IsSeq(checks) /\ (Passing(checks) => new /\ unseen)
        /\ "RandomnessFailure" \in Errors(checks) => ~fresh
    BY <2>5, <2>6, <2>8, EndsWith
  <2>. HIDE DEF checks
  <2>10. DOMAIN f = CredFields /\ s \in Seq(Range(s)) /\ CredRunning(f, Cardinality(Polls(s))) /\ CredSent(f, s, seen)
    BY DEF CredInv, Over
  <2>11. fresh <=> sound
    BY <2>10, RandomAssumption, SMTT(60) DEF CredFreshRandom, CredRunning
  <2>12. CASE ~Passing(checks)
    BY <2>1, <2>9, <2>10, <2>11, <2>12, <1>CredRefused
  <2>13. CASE Passing(checks)
    <3>1. DOMAIN next = CredFields /\ next.failure = f.failure /\ next.config = f.config
      BY <2>10, <1>CredRotated
    <3>2. next.used = f.used /\ next.transaction = f.transaction /\ next.retry = f.retry
      BY <2>10, <1>CredRotated
    <3>3. InOrder(s, next.nonce, Nonces(next))
      <4>1. InOrder(s, f.nonce, Nonces(f)) /\ ~CredStaleNonce(f, in.nonce)
        BY <2>9, <2>10, <2>13 DEF CredSent
      <4>. QED
        BY <2>10, <4>1, <1>CredRotatedInOrder
    <3>. HIDE DEF next
    <3>4. DOMAIN w = CredFields
      BY <3>1 DEF CredDrawn
    <3>5. /\ w.used = f.used + 1 /\ w.transaction = f.transaction /\ w.retry = f.retry
          /\ w.nonce = next.nonce /\ w.retired = next.retired /\ w.failure = f.failure
          /\ w.config = f.config
      BY <3>1, <3>2 DEF CredDrawn, CredFields
    <3>. HIDE DEF w, id
    <3>6. DOMAIN g = CredFields
      BY <3>4
    <3>7. /\ g.used = f.used + 1 /\ g.transaction = f.transaction /\ g.retry = f.retry
          /\ g.stage = "AwaitingKeyAttestation" /\ g.c_nonce = in.c_nonce
      BY <3>4, <3>5 DEF CredFields
    <3>8. g.nonce = next.nonce /\ g.retired = next.retired
      BY <3>4, <3>5 DEF CredFields
    <3>9. g.failure = f.failure /\ g.config = f.config
      BY <3>4, <3>5 DEF CredFields
    <3>10. ~Request(q)
      BY DEF Request, CredAsk
    <3>. HIDE DEF g, q
    <3>11. s \o RequestsIn(<<q>>) = s
      BY <2>10, <3>10, Asked, NothingAdded
    <3>12. g.stage \in CredStages /\ g.stage \notin Over
      BY <3>7 DEF CredStages, Over
    <3>13. CredRunning(g, Cardinality(Polls(s)))
      BY <2>10, <3>7, RandomAssumption, SMTT(60) DEF CredRunning
    <3>14. Firsts(s) = {} /\ Polls(s) = {} /\ Cardinality(Firsts(s)) <= 2
      BY <2>10 DEF CredSent, Early, Undeferred
    <3>15. InOrder(s, g.nonce, Nonces(g))
      BY <3>3, <3>8 DEF Nonces
    <3>16. g.c_nonce \notin seen
      BY <2>9, <2>13, <3>7
    <3>17. CredSent(g, s, seen)
      BY <3>7, <3>14, <3>15, <3>16 DEF CredSent, FirstTerms, FirstsDiffer, PollTerms
    <3>18. Measure(g) < Measure(f) /\ Measure(g) >= 0
      BY <2>10, <3>7, RandomAssumption, SMTT(60) DEF Measure, Waits, CredRunning
    <3>19. CredGood(f, s, seen, CredDone(g, <<q>>), sound)
      BY <2>10, <3>6, <3>9, <3>11, <3>12, <3>13, <3>17, <3>18, <1>CredDoneGood
    <3>. QED
      BY <2>1, <2>13, <3>19
  <2>. QED
    BY <2>12, <2>13
(* accept_key_attestation.                                               *)
<1>AcceptKeyAttestationStep.
  ASSUME NEW f, NEW s, NEW seen, NEW in, NEW t, NEW sound, CredInv(f, s, seen),
         f.stage = "AwaitingKeyAttestation"
  PROVE  CredGood(f, s, seen, AcceptKeyAttestation(f, in, t, sound), sound)
  <2>. USE <1>AcceptKeyAttestationStep
  <2>. DEFINE bound == /\ in.id = f.id /\ in.c_nonce = f.c_nonce
                       /\ {"issuer", "endpoint", "key"} \cap in.flaws = {}
              a == << Require(bound, "KeyAttestationBindingMismatch") >>
              b == ValidateKeyAttestation(in, f.c_nonce, t)
              fresh == CredFreshRandom(f, 1, sound)
              c == << Require(fresh, "RandomnessFailure") >>
              checks == a \o b \o c
              id == f.used + 1
              w == CredDrawn(f, 1)
              g == [w EXCEPT !.stage = "SigningCredentialProof", !.id = id]
              q == [CredAsk("SignCredentialProof", id) EXCEPT !.c_nonce = f.c_nonce]
              r == AcceptKeyAttestation(f, in, t, sound)
  <2>1. r = IF ~Passing(checks) THEN CredLatch(f, FirstError(checks)) ELSE CredDone(g, <<q>>)
    BY Verdicts DEF AcceptKeyAttestation, Require
  <2>2. Plain(a)
    <3>. HIDE DEF bound
    <3>. QED
      BY OneCheck
  <2>3. Plain(b)
    <3>. DEFINE x == RequireAll(in.flaws, <<"compact", "signature_length", "header", "x5c",
                                       "not_self_issued", "payload", "iss">>, "KeyAttestationInvalid")
                alive == in.iat > 0 /\ in.iat <= t /\ t < in.exp
                same == in.jwt_nonce = f.c_nonce
                y == << Require(alive, "KeyAttestationInvalid"), Require(same, "KeyAttestationInvalid") >>
                z == RequireAll(in.flaws, <<"key_storage", "user_authentication", "one_key",
                                                 "attested_key">>, "KeyAttestationInvalid")
    <3>1. b = x \o y \o z
      BY DEF ValidateKeyAttestation, Require
    <3>2. Plain(x) /\ Plain(z)
      BY PlainChecks, NameTuples
    <3>3. Plain(y)
      <4>. HIDE DEF alive, same
      <4>. QED
        BY TwoChecks
    <3>. HIDE DEF b, x, y, z
    <3>. QED
      BY <3>1, <3>2, <3>3, PlainConcat
  <2>4. IsSeq(c) /\ ("RandomnessFailure" \in Errors(c) => ~fresh)
    <3>. HIDE DEF fresh
    <3>. QED
      BY OneCheck
  <2>. HIDE DEF a, b, c
  <2>5. IsSeq(checks) /\ ("RandomnessFailure" \in Errors(checks) => ~fresh)
    BY <2>2, <2>3, <2>4, PlainConcat, EndsWith
  <2>. HIDE DEF checks
  <2>6. DOMAIN f = CredFields /\ s \in Seq(Range(s)) /\ CredRunning(f, Cardinality(Polls(s))) /\ CredSent(f, s, seen)
    BY DEF CredInv, Over
  <2>7. fresh <=> sound
    BY <2>6, RandomAssumption, SMTT(60) DEF CredFreshRandom, CredRunning
  <2>8. CASE ~Passing(checks)
    BY <2>1, <2>5, <2>6, <2>7, <2>8, <1>CredRefused
  <2>9. CASE Passing(checks)
    <3>1. DOMAIN w = CredFields
      BY <2>6 DEF CredDrawn
    <3>2. /\ w.used = f.used + 1 /\ w.transaction = f.transaction /\ w.retry = f.retry
          /\ w.nonce = f.nonce /\ w.retired = f.retired /\ w.failure = f.failure
          /\ w.config = f.config /\ w.c_nonce = f.c_nonce
      BY <2>6 DEF CredDrawn, CredFields
    <3>. HIDE DEF w, id
    <3>3. DOMAIN g = CredFields
      BY <3>1
    <3>4. /\ g.used = f.used + 1 /\ g.retry = f.retry /\ g.stage = "SigningCredentialProof"
      BY <3>1, <3>2 DEF CredFields
    <3>5. /\ g.transaction = f.transaction /\ g.nonce = f.nonce /\ g.retired = f.retired
          /\ g.c_nonce = f.c_nonce
      BY <3>1, <3>2 DEF CredFields
    <3>6. g.failure = f.failure /\ g.config = f.config
      BY <3>1, <3>2 DEF CredFields
    <3>7. ~Request(q)
      BY DEF Request, CredAsk
    <3>. HIDE DEF g, q
    <3>8. s \o RequestsIn(<<q>>) = s
      BY <2>6, <3>7, Asked, NothingAdded
    <3>9. g.stage \in CredStages /\ g.stage \notin Over
      BY <3>4 DEF CredStages, Over
    <3>10. CredRunning(g, Cardinality(Polls(s)))
      BY <2>6, <3>4, RandomAssumption, SMTT(60) DEF CredRunning
    <3>11. Nonces(g) = Nonces(f)
      BY <3>5 DEF Nonces
    <3>12. CredSent(g, s, seen)
      <4>1. f.stage \in Early /\ f.stage \in Undeferred /\ f.stage # "AwaitingNonceResponse"
        BY DEF Early, Undeferred
      <4>. QED
        BY <2>6, <3>4, <3>5, <3>6, <3>11, <4>1 DEF CredSent
    <3>13. Measure(g) < Measure(f) /\ Measure(g) >= 0
      BY <2>6, <3>4, RandomAssumption, SMTT(60) DEF Measure, Waits, CredRunning
    <3>14. CredGood(f, s, seen, CredDone(g, <<q>>), sound)
      BY <2>6, <3>3, <3>6, <3>8, <3>9, <3>10, <3>12, <3>13, <1>CredDoneGood
    <3>. QED
      BY <2>1, <2>9, <3>14
  <2>. QED
    BY <2>8, <2>9
(* dpop_signing_stage, for the first credential request and for its      *)
(* repetition.                                                           *)
<1>DpopSigningStageStep.
  ASSUME NEW f, NEW x, NEW s, NEW seen, NEW retry \in 0 .. 1, NEW sound,
         DOMAIN x = CredFields, s \in Seq(Range(s)), x.used = 3 + 3 * retry,
         x.failure = f.failure, x.config = f.config,
         Measure(f) \in Int, Measure(f) >= 2 * (MaxRandom - x.used),
         FirstTerms(s, x.c_nonce, x.config.target), FirstsDiffer(s),
         Cardinality(Firsts(s)) = retry, FirstUnused(s, x.nonce), Polls(s) = {},
         InOrder(s, x.nonce, Nonces(x)), x.c_nonce \notin seen
  PROVE  CredGood(f, s, seen, DpopSigningStage(x, retry, sound), sound)
  <2>. USE <1>DpopSigningStageStep
  <2>. DEFINE fresh == CredFreshRandom(x, 2, sound)
              id == x.used + 2
              w == CredDrawn(x, 2)
              g == [w EXCEPT !.stage = "SigningDpop", !.id = id, !.retry = retry]
              q == [CredAsk("SignDpop", id) EXCEPT !.nonce = x.nonce]
              r == DpopSigningStage(x, retry, sound)
  <2>1. r = IF ~fresh THEN CredLatch(x, "RandomnessFailure") ELSE CredDone(g, <<q>>)
    BY DEF DpopSigningStage
  <2>2. fresh <=> sound
    BY RandomAssumption, SMTT(60) DEF CredFreshRandom
  <2>. HIDE DEF fresh
  <2>3. CASE ~fresh
    BY <2>1, <2>2, <2>3, CredLatchGood
  <2>4. CASE fresh
    <3>1. DOMAIN w = CredFields
      BY DEF CredDrawn
    <3>2. /\ w.used = x.used + 2 /\ w.transaction = x.transaction
          /\ w.nonce = x.nonce /\ w.retired = x.retired /\ w.failure = x.failure
          /\ w.config = x.config /\ w.c_nonce = x.c_nonce
      BY DEF CredDrawn, CredFields
    <3>. HIDE DEF w, id
    <3>3. DOMAIN g = CredFields
      BY <3>1
    <3>4. g.used = x.used + 2 /\ g.retry = retry /\ g.stage = "SigningDpop"
      BY <3>1, <3>2 DEF CredFields
    <3>5. g.nonce = x.nonce /\ g.retired = x.retired /\ g.c_nonce = x.c_nonce
      BY <3>1, <3>2 DEF CredFields
    <3>6. g.failure = f.failure /\ g.config = f.config
      BY <3>1, <3>2 DEF CredFields
    <3>7. ~Request(q)
      BY DEF Request, CredAsk
    <3>. HIDE DEF g, q
    <3>8. s \o RequestsIn(<<q>>) = s
      BY <3>7, Asked, NothingAdded
    <3>9. g.stage \in CredStages /\ g.stage \notin Over
      BY <3>4 DEF CredStages, Over
    <3>10. CredRunning(g, Cardinality(Polls(s)))
      BY <3>4, RandomAssumption, SMTT(60) DEF CredRunning
    <3>11. CredSent(g, s, seen)
      <4>1. Nonces(g) = Nonces(x)
        BY <3>5 DEF Nonces
      <4>2. Cardinality(Firsts(s)) <= 2
        BY SMTT(60)
      <4>3. g.stage \notin Early /\ g.stage # "AwaitingCredentialResponse"
        BY <3>4 DEF Early
      <4>4. g.config.target = x.config.target
        BY <3>6
      <4>. QED
        BY <3>4, <3>5, <4>1, <4>2, <4>3, <4>4 DEF CredSent, PollTerms
    <3>12. Measure(g) < Measure(f) /\ Measure(g) >= 0
      <4>1. Measure(g) = 2 * (MaxRandom - g.used) + 0
        BY <3>4 DEF Measure, Waits
      <4>. QED
        BY <3>4, <4>1, RandomAssumption, SMTT(60)
    <3>13. CredGood(f, s, seen, CredDone(g, <<q>>), sound)
      BY <3>3, <3>6, <3>8, <3>9, <3>10, <3>11, <3>12, <1>CredDoneGood
    <3>. QED
      BY <2>1, <2>4, <3>13
  <2>. QED
    BY <2>3, <2>4
(* The checks of a signature do not look at random values.               *)
<1>SignatureVerdicts.
  ASSUME NEW f, NEW in, NEW e, NEW d, e # "RandomnessFailure", d # "RandomnessFailure"
  PROVE  Plain(SignatureChecks(f, in, e, d))
  <2>. USE <1>SignatureVerdicts
  <2>. DEFINE bound == in.id = f.id /\ "signing_input" \notin in.flaws
              sized == "length" \notin in.flaws
              c == << Require(bound, e), Require(sized, d) >>
  <2>1. SignatureChecks(f, in, e, d) = c
    BY DEF SignatureChecks, Require
  <2>2. Plain(c)
    <3>. HIDE DEF bound, sized
    <3>. QED
      BY TwoChecks
  <2>. HIDE DEF c
  <2>. QED
    BY <2>1, <2>2
(* accept_credential_proof_signature.                                    *)
<1>AcceptCredentialProofSignatureStep.
  ASSUME NEW f, NEW s, NEW seen, NEW in, NEW sound, CredInv(f, s, seen),
         f.stage = "SigningCredentialProof"
  PROVE  CredGood(f, s, seen, AcceptCredentialProofSignature(f, in, sound), sound)
  <2>. USE <1>AcceptCredentialProofSignatureStep
  <2>. DEFINE checks == SignatureChecks(f, in, "CredentialProofSigningMismatch",
                                             "CredentialProofSignatureInvalid")
              r == AcceptCredentialProofSignature(f, in, sound)
  <2>1. r = IF ~Passing(checks) THEN CredLatch(f, FirstError(checks))
            ELSE DpopSigningStage(f, 0, sound)
    BY Verdicts DEF AcceptCredentialProofSignature
  <2>2. Plain(checks)
    BY <1>SignatureVerdicts
  <2>. HIDE DEF checks
  <2>3. DOMAIN f = CredFields /\ s \in Seq(Range(s)) /\ CredRunning(f, Cardinality(Polls(s))) /\ CredSent(f, s, seen)
    BY DEF CredInv, Over
  <2>4. CASE ~Passing(checks)
    BY <2>1, <2>2, <2>3, <2>4, <1>CredRefused DEF Plain
  <2>5. CASE Passing(checks)
    <3>1. /\ f.used = 3 + 3 * 0 /\ 0 \in 0 .. 1 /\ Measure(f) \in Int
          /\ Measure(f) >= 2 * (MaxRandom - f.used)
      BY <2>3, RandomAssumption, SMTT(60) DEF CredRunning, Measure, Waits
    <3>2. Firsts(s) = {} /\ Polls(s) = {} /\ f.c_nonce \notin seen
      BY <2>3 DEF CredSent, Early, Undeferred
    <3>3. Cardinality(Firsts(s)) = 0
      BY <3>2, NoneCounted
    <3>4. /\ FirstTerms(s, f.c_nonce, f.config.target) /\ FirstsDiffer(s)
          /\ InOrder(s, f.nonce, Nonces(f))
      BY <2>3 DEF CredSent
    <3>5. FirstUnused(s, f.nonce)
      BY <3>2 DEF FirstUnused
    <3>6. CredGood(f, s, seen, DpopSigningStage(f, 0, sound), sound)
      BY <2>3, <3>1, <3>2, <3>3, <3>4, <3>5, <1>DpopSigningStageStep
    <3>. QED
      BY <2>1, <2>5, <3>6
  <2>. QED
    BY <2>4, <2>5
(* accept_dpop_signature of the credential flow, which sends the         *)
(* credential request.                                                   *)
<1>CredDpopSignatureStep.
    \A f, s, seen, in, sound :
       /\ CredInv(f, s, seen)
       /\ f.stage = "SigningDpop"
       =>
       CredGood(f, s, seen, CredAcceptDpopSignature(f, in, sound), sound)
  (* A credential request with a nonce of its own.                         *)
  <2>FirstSent.
    ASSUME NEW s, s \in Seq(Range(s)), NEW t, NEW e, Extends(t, s, e), e.kind = "SendCredential",
           FirstTerms(s, e.c_nonce, e.target), FirstsDiffer(s), FirstUnused(s, e.nonce)
    PROVE  /\ FirstTerms(t, e.c_nonce, e.target) /\ FirstsDiffer(t)
           /\ Cardinality(Firsts(t)) = Cardinality(Firsts(s)) + 1
           /\ Polls(t) = Polls(s)
    <3>. USE <2>FirstSent
    <3>1. /\ Firsts(t) = Firsts(s) \cup {Len(s) + 1}
          /\ Cardinality(Firsts(t)) = Cardinality(Firsts(s)) + 1
      BY Counted DEF Firsts
    <3>2. Polls(t) = Polls(s)
      <4>1. e.kind # "SendDeferred"
        OBVIOUS
      <4>. QED
        BY <4>1, Counted DEF Polls
    <3>3. /\ \A i \in Firsts(s) : t[i] = s[i]
          /\ t[Len(s) + 1] = e
      BY DEF Extends, Firsts, OfKind
    <3>4. FirstTerms(t, e.c_nonce, e.target)
      BY <3>1, <3>3 DEF FirstTerms
    <3>5. ASSUME NEW i \in Firsts(t), NEW j \in Firsts(t), i # j PROVE t[i].nonce # t[j].nonce
      <4>1. CASE i \in Firsts(s) /\ j \in Firsts(s)
        BY <3>3, <3>5, <4>1 DEF FirstsDiffer
      <4>2. CASE i \in Firsts(s) /\ j = Len(s) + 1
        BY <3>3, <4>2 DEF FirstUnused
      <4>3. CASE i = Len(s) + 1 /\ j \in Firsts(s)
        BY <3>3, <4>3 DEF FirstUnused
      <4>. QED
        BY <3>1, <3>5, <4>1, <4>2, <4>3
    <3>6. FirstsDiffer(t)
      BY <3>5 DEF FirstsDiffer
    <3>. QED
      BY <3>1, <3>2, <3>4, <3>6
  (* accept_dpop_signature of the credential flow, which sends the         *)
  (* credential request.                                                   *)
  <2>Result.
    ASSUME NEW f, NEW s, NEW seen, NEW in, NEW sound, CredInv(f, s, seen), f.stage = "SigningDpop"
    PROVE  CredGood(f, s, seen, CredAcceptDpopSignature(f, in, sound), sound)
    <3>. USE <2>Result
    <3>. DEFINE a == SignatureChecks(f, in, "DpopSigningMismatch", "DpopSignatureInvalid")
                fresh == CredFreshRandom(f, 1, sound)
                b == << Require(fresh, "RandomnessFailure") >>
                checks == a \o b
                id == f.used + 1
                w == CredDrawn(f, 1)
                g == [w EXCEPT !.stage = "AwaitingCredentialResponse", !.id = id]
                e == [CredAsk("SendCredential", id) EXCEPT !.nonce = f.nonce,
                        !.c_nonce = f.c_nonce, !.target = f.config.target]
                t == s \o <<e>>
                r == CredAcceptDpopSignature(f, in, sound)
    <3>1. r = IF ~Passing(checks) THEN CredLatch(f, FirstError(checks)) ELSE CredDone(g, <<e>>)
      BY Verdicts DEF CredAcceptDpopSignature, Require
    <3>2. Plain(a)
      BY <1>SignatureVerdicts
    <3>3. IsSeq(b) /\ ("RandomnessFailure" \in Errors(b) => ~fresh)
      <4>. HIDE DEF fresh
      <4>. QED
        BY OneCheck
    <3>. HIDE DEF a, b
    <3>4. IsSeq(checks) /\ ("RandomnessFailure" \in Errors(checks) => ~fresh)
      BY <3>2, <3>3, EndsWith
    <3>. HIDE DEF checks
    <3>5. DOMAIN f = CredFields /\ s \in Seq(Range(s)) /\ CredRunning(f, Cardinality(Polls(s))) /\ CredSent(f, s, seen)
      BY DEF CredInv, Over
    <3>6. fresh <=> sound
      BY <3>5, RandomAssumption, SMTT(60) DEF CredFreshRandom, CredRunning
    <3>7. CASE ~Passing(checks)
      BY <3>1, <3>4, <3>5, <3>6, <3>7, <1>CredRefused
    <3>8. CASE Passing(checks)
      <4>1. DOMAIN w = CredFields
        BY <3>5 DEF CredDrawn
      <4>2. /\ w.used = f.used + 1 /\ w.transaction = f.transaction /\ w.retry = f.retry
            /\ w.nonce = f.nonce /\ w.retired = f.retired /\ w.failure = f.failure
            /\ w.config = f.config /\ w.c_nonce = f.c_nonce
        BY <3>5 DEF CredDrawn, CredFields
      <4>. HIDE DEF w, id
      <4>3. DOMAIN g = CredFields
        BY <4>1
      <4>4. g.used = f.used + 1 /\ g.retry = f.retry /\ g.stage = "AwaitingCredentialResponse"
        BY <4>1, <4>2 DEF CredFields
      <4>5. /\ g.transaction = f.transaction /\ g.nonce = f.nonce /\ g.retired = f.retired
            /\ g.c_nonce = f.c_nonce
        BY <4>1, <4>2 DEF CredFields
      <4>6. g.failure = f.failure /\ g.config = f.config
        BY <4>1, <4>2 DEF CredFields
      <4>7. /\ e.kind = "SendCredential" /\ e.nonce = f.nonce /\ e.c_nonce = f.c_nonce
            /\ e.target = f.config.target
        BY DEF CredAsk
      <4>. HIDE DEF g, e
      <4>8. Extends(t, s, e)
        BY <3>5, Extended
      <4>9. s \o RequestsIn(<<e>>) = t
        BY <4>7, Asked DEF Request
      <4>. HIDE DEF t
      <4>10. t \in Seq(Range(t))
        BY <4>8 DEF Extends
      <4>11. g.stage \in CredStages /\ g.stage \notin Over
        BY <4>4 DEF CredStages, Over
      <4>12. /\ FirstTerms(t, e.c_nonce, e.target) /\ FirstsDiffer(t)
             /\ Cardinality(Firsts(t)) = Cardinality(Firsts(s)) + 1
             /\ Polls(t) = Polls(s)
        <5>1. /\ FirstTerms(s, e.c_nonce, e.target) /\ FirstsDiffer(s)
              /\ FirstUnused(s, e.nonce)
          BY <3>5, <4>7 DEF CredSent
        <5>. QED
          BY <3>5, <4>7, <4>8, <5>1, <2>FirstSent
      <4>13. Polls(s) = {} /\ Cardinality(Firsts(s)) = f.retry /\ f.c_nonce \notin seen
        BY <3>5 DEF CredSent, Undeferred
      <4>14. CredRunning(g, Cardinality(Polls(t)))
        BY <3>5, <4>4, RandomAssumption, SMTT(60) DEF CredRunning
      <4>15. InOrder(t, f.nonce, Nonces(f))
        <5>1. InOrder(s, e.nonce, Nonces(f)) /\ e.nonce \in Nonces(f)
          BY <3>5, <4>7 DEF CredSent, Nonces
        <5>2. InOrder(t, e.nonce, Nonces(f))
          BY <3>5, <4>8, <5>1, SentInOrder
        <5>. QED
          BY <4>7, <5>2
      <4>16. CredSent(g, t, seen)
        <5>1. Nonces(g) = Nonces(f)
          BY <4>5 DEF Nonces
        <5>2. Cardinality(Firsts(t)) = f.retry + 1 /\ f.retry \in 0 .. 1
          BY <3>5, <4>12, <4>13 DEF CredRunning
        <5>3. Cardinality(Firsts(t)) <= 2
          BY <5>2, SMTT(60)
        <5>4. g.stage \notin Early /\ g.stage # "SigningDpop" /\ Polls(t) = {}
          BY <4>4, <4>12, <4>13 DEF Early
        <5>5. /\ FirstTerms(t, g.c_nonce, g.config.target) /\ FirstsDiffer(t)
              /\ InOrder(t, g.nonce, Nonces(g)) /\ g.c_nonce \notin seen
              /\ Cardinality(Firsts(t)) = g.retry + 1
          BY <4>4, <4>5, <4>6, <4>7, <4>12, <4>13, <4>15, <5>1, <5>2
        <5>. QED
          BY <5>3, <5>4, <5>5 DEF CredSent, PollTerms
      <4>17. Measure(g) < Measure(f) /\ Measure(g) >= 0
        BY <3>5, <4>4, RandomAssumption, SMTT(60) DEF Measure, Waits, CredRunning
      <4>18. CredGood(f, s, seen, CredDone(g, <<e>>), sound)
        BY <4>3, <4>6, <4>9, <4>10, <4>11, <4>14, <4>16, <4>17, <1>CredDoneGood
      <4>. QED
        BY <3>1, <3>8, <4>18
    <3>. QED
      BY <3>7, <3>8
  <2>. QED
    BY <2>Result
(* What an answer that passes its checks has.                            *)
<1>AnswerVerdict.
    \A f, in, deferred :
       Plain(deferred) =>
          /\ Plain(AnswerChecks(f, in, deferred))
          /\ Passing(AnswerChecks(f, in, deferred)) =>
                /\ ~CredStaleNonce(f, in.nonce)
                /\ Demand(in) => in.nonce # None /\ f.retry < 1
                /\ ~Demand(in) /\ in.status = 202 => Passing(deferred)
                /\ ~Demand(in) /\ in.status # 202 => Matches(in, f.config)
  (* A credential that is accepted is of the format, the type and the      *)
  (* issuer of the configuration.                                          *)
  <2>ImmediateChecks.
    ASSUME NEW in, NEW config
    PROVE  /\ Plain(ParseImmediateCredential(in, config))
           /\ Passing(ParseImmediateCredential(in, config)) => Matches(in, config)
    <3>. USE <2>ImmediateChecks
    <3>. DEFINE a == RequireAll(in.flaws, <<"json">>, "InvalidCredentialResponse")
                b == RequireAll(in.flaws, <<"not_deferred">>, "DeferredIssuanceUnsupported")
                c == RequireAll(in.flaws, <<"no_notification">>, "NotificationUnsupported")
                d == RequireAll(in.flaws, <<"no_reissuance">>, "ReissuanceUnsupported")
                e == RequireAll(in.flaws, <<"no_response_encryption">>, "ResponseEncryptionUnsupported")
                h == RequireAll(in.flaws, <<"credentials">>, "InvalidCredentialResponse")
                j == RequireAll(in.flaws, <<"no_batch">>, "BatchIssuanceUnsupported")
                k == RequireAll(in.flaws, <<"one_credential", "credential_string">>,
                                     "InvalidCredentialResponse")
                mdoc == ValidateMdocPid(in)
                jwt == ValidateSdJwt(in, config)
                last == IF config.format = "MsoMdoc" THEN mdoc ELSE jwt
                head == a \o b \o c \o d \o e \o h \o j \o k
    <3>1. ParseImmediateCredential(in, config) = head \o last
      BY DEF ParseImmediateCredential
    <3>2. Plain(head)
      <4>1. Plain(a) /\ Plain(b) /\ Plain(c) /\ Plain(d)
        BY PlainChecks, NameTuples
      <4>2. Plain(e) /\ Plain(h) /\ Plain(j) /\ Plain(k)
        BY PlainChecks, NameTuples
      <4>. HIDE DEF a, b, c, d, e, h, j, k
      <4>. QED
        BY <4>1, <4>2, PlainConcat
    <3>3. Plain(mdoc) /\ (Passing(mdoc) => in.format = "MsoMdoc" /\ in.type = PidDoctype)
      <4>. DEFINE x == RequireAll(in.flaws, <<"base64url", "issuer_signed", "alg">>,
                                       "CredentialFormatMismatch")
                  good == in.format = "MsoMdoc" /\ in.type = PidDoctype
                  y == << Require(good, "CredentialFormatMismatch") >>
      <4>1. mdoc = x \o y
        BY DEF ValidateMdocPid, Require
      <4>2. Plain(x)
        BY PlainChecks, NameTuples
      <4>3. Plain(y) /\ (Passing(y) => good)
        <5>. HIDE DEF good
        <5>. QED
          BY OneCheck, SMTT(30)
      <4>. HIDE DEF mdoc, x, y
      <4>4. Plain(x \o y) /\ (Passing(x \o y) => Passing(y))
        BY <4>2, <4>3, PlainConcat, EndsWith DEF Plain
      <4>. QED
        BY <4>1, <4>3, <4>4
    <3>4. /\ Plain(jwt)
          /\ Passing(jwt) => in.format = "DcSdJwt" /\ in.type = config.vct /\ in.issuer = config.issuer
      <4>. DEFINE x == RequireAll(in.flaws, <<"separators", "sd_jwt", "no_key_binding", "issuer_jwt",
                                         "alg">>, "CredentialFormatMismatch")
                  good == in.format = "DcSdJwt" /\ in.type = config.vct /\ in.issuer = config.issuer
                  y == << Require(good, "CredentialFormatMismatch") >>
      <4>1. jwt = x \o y
        BY DEF ValidateSdJwt, Require
      <4>2. Plain(x)
        BY PlainChecks, NameTuples
      <4>3. Plain(y) /\ (Passing(y) => good)
        <5>. HIDE DEF good
        <5>. QED
          BY OneCheck, SMTT(30)
      <4>. HIDE DEF jwt, x, y
      <4>4. Plain(x \o y) /\ (Passing(x \o y) => Passing(y))
        BY <4>2, <4>3, PlainConcat, EndsWith DEF Plain
      <4>. QED
        BY <4>1, <4>3, <4>4
    <3>. HIDE DEF head, mdoc, jwt
    <3>5. Plain(last) /\ (Passing(last) => Matches(in, config))
      BY <3>3, <3>4 DEF Matches
    <3>. HIDE DEF last
    <3>6. Plain(head \o last) /\ (Passing(head \o last) => Passing(last))
      BY <3>2, <3>5, PlainConcat, EndsWith DEF Plain
    <3>. QED
      BY <3>1, <3>5, <3>6
  (* What an answer that passes its checks has.                            *)
  <2>Result.
    ASSUME NEW f, NEW in, NEW deferred, Plain(deferred)
    PROVE  /\ Plain(AnswerChecks(f, in, deferred))
           /\ Passing(AnswerChecks(f, in, deferred)) =>
                 /\ ~CredStaleNonce(f, in.nonce)
                 /\ Demand(in) => in.nonce # None /\ f.retry < 1
                 /\ ~Demand(in) /\ in.status = 202 => Passing(deferred)
                 /\ ~Demand(in) /\ in.status # 202 => Matches(in, f.config)
    <3>. USE <2>Result
    <3>. DEFINE new == ~CredStaleNonce(f, in.nonce)
                demands == DemandChecks(f, in)
                answers == AnswerBody(f, in)
                body == Body(f, in, deferred)
    <3>1. Plain(demands) /\ (Passing(demands) => new /\ in.nonce # None /\ f.retry < 1)
      <4>. DEFINE some == in.nonce # None
                  left == f.retry < MaxResourceDpopNonceRetries
                  x == << Require(some, "DpopNonceInvalid") >>
                  y == ParseUseDpopNonceBody(in)
                  z == << Require(left, "DpopNonceRetryLimit"), Require(new, "DpopNonceStale") >>
      <4>1. demands = x \o y \o z
        BY DEF DemandChecks, Require
      <4>2. Plain(y)
        BY <1>CredValidators
      <4>3. Plain(x) /\ (Passing(x) => some)
        <5>. HIDE DEF some
        <5>. QED
          BY OneCheck, SMTT(30)
      <4>4. Plain(z) /\ (Passing(z) => left /\ new)
        <5>. HIDE DEF left, new
        <5>. QED
          BY TwoChecks, SMTT(30)
      <4>. HIDE DEF demands, x, y, z
      <4>5. Plain(x \o y) /\ (Passing(x \o y) => Passing(x))
        BY <4>2, <4>3, PlainConcat, EndsWith DEF Plain
      <4>6. Plain(x \o y \o z) /\ (Passing(x \o y \o z) => Passing(x \o y) /\ Passing(z))
        BY <4>4, <4>5, PlainConcat, EndsWith DEF Plain
      <4>. QED
        BY <4>1, <4>3, <4>4, <4>5, <4>6 DEF MaxResourceDpopNonceRetries
    <3>2. Plain(answers) /\ (Passing(answers) => new)
      <4>. DEFINE silent == in.challenge = None
                  x == << Require(silent, "CredentialRejected"), Require(new, "DpopNonceStale") >>
      <4>1. answers = x
        BY DEF AnswerBody, Require
      <4>2. Plain(x) /\ (Passing(x) => new)
        <5>. HIDE DEF silent, new
        <5>. QED
          BY TwoChecks, SMTT(30)
      <4>. HIDE DEF answers, x
      <4>. QED
        BY <4>1, <4>2
    <3>3. /\ Plain(body)
          /\ Passing(body) /\ in.status = 202 => Passing(deferred)
          /\ Passing(body) /\ in.status # 202 => Matches(in, f.config)
      <4>1. CASE in.status = 202
        <5>1. in.status # 200
          BY <4>1, SMTT(30)
        <5>2. body = deferred
          BY <4>1, <5>1, SMTT(30) DEF Body
        <5>. QED
          BY <4>1, <5>2
      <4>2. CASE in.status = 200
        <5>1. in.status # 202
          BY <4>2, SMTT(30)
        <5>2. body = ParseImmediateCredential(in, f.config)
          BY <4>2, <5>1, SMTT(30) DEF Body
        <5>3. /\ Plain(ParseImmediateCredential(in, f.config))
              /\ Passing(ParseImmediateCredential(in, f.config)) => Matches(in, f.config)
          BY <2>ImmediateChecks
        <5>. HIDE DEF body
        <5>. QED
          BY <5>1, <5>2, <5>3
      <4>3. CASE in.status # 202 /\ in.status # 200
        <5>. DEFINE never == FALSE
                    x == << Require(never, "CredentialRejected") >>
        <5>1. body = x
          BY <4>3 DEF Body, Require
        <5>2. Plain(x) /\ (Passing(x) => never)
          <6>. HIDE DEF never
          <6>. QED
            BY OneCheck, SMTT(30)
        <5>. HIDE DEF body, x
        <5>. QED
          BY <5>1, <5>2
      <4>. QED
        BY <4>1, <4>2, <4>3
    <3>. HIDE DEF demands, answers, body, new
    <3>4. Plain(answers \o body) /\ (Passing(answers \o body) => Passing(answers) /\ Passing(body))
      BY <3>2, <3>3, PlainConcat, EndsWith DEF Plain
    <3>5. CASE Demand(in)
      <4>1. AnswerChecks(f, in, deferred) = demands
        BY <3>5 DEF AnswerChecks, demands
      <4>. QED
        BY <3>1, <3>5, <4>1 DEF new
    <3>6. CASE ~Demand(in)
      <4>1. AnswerChecks(f, in, deferred) = answers \o body
        BY <3>6 DEF AnswerChecks, answers, body
      <4>. QED
        BY <3>2, <3>3, <3>4, <3>6, <4>1 DEF new
    <3>. QED
      BY <3>5, <3>6
  <2>. QED
    BY <2>Result
(* An issuer that defers names one transaction, and names it again.      *)
<1>PostponedStep.
  ASSUME NEW f, NEW s, NEW seen, NEW in, NEW t, NEW sound, CredInv(f, s, seen),
         f.stage \in {"AwaitingCredentialResponse", "AwaitingDeferredResponse"},
         f.stage = "AwaitingDeferredResponse" => in.transaction = f.transaction,
         ~CredStaleNonce(f, in.nonce)
  PROVE  CredGood(f, s, seen,
                  Postponed(RotateCredentialEndpointNonce(f, in.nonce), in, t), sound)
  <2>. USE <1>PostponedStep
  <2>. DEFINE x == RotateCredentialEndpointNonce(f, in.nonce)
              at == t + in.interval
              g == [x EXCEPT !.stage = "Deferred", !.transaction = in.transaction, !.next_poll = at]
  <2>1. DOMAIN f = CredFields /\ s \in Seq(Range(s)) /\ CredRunning(f, Cardinality(Polls(s))) /\ CredSent(f, s, seen)
    BY DEF CredInv, Over
  <2>2. DOMAIN x = CredFields /\ x.failure = f.failure /\ x.config = f.config
    BY <2>1, <1>CredRotated
  <2>3. x.used = f.used /\ x.retry = f.retry /\ x.c_nonce = f.c_nonce
    BY <2>1, <1>CredRotated
  <2>4. InOrder(s, x.nonce, Nonces(x))
    <3>1. InOrder(s, f.nonce, Nonces(f))
      BY <2>1 DEF CredSent
    <3>. QED
      BY <2>1, <3>1, <1>CredRotatedInOrder
  <2>. HIDE DEF x
  <2>5. Postponed(x, in, t) = CredDone(g, <<>>)
    BY DEF Postponed
  <2>. HIDE DEF at
  <2>6. DOMAIN g = CredFields
    BY <2>2
  <2>7. g.failure = f.failure /\ g.config = f.config
    BY <2>2 DEF CredFields
  <2>8. /\ g.stage = "Deferred" /\ g.used = f.used /\ g.retry = f.retry
    BY <2>2, <2>3 DEF CredFields
  <2>9. /\ g.c_nonce = f.c_nonce /\ g.transaction = in.transaction
        /\ g.nonce = x.nonce /\ g.retired = x.retired
    BY <2>2, <2>3 DEF CredFields
  <2>. HIDE DEF g
  <2>10. s \o RequestsIn(<<>>) = s
    BY <2>1, Asked, NothingAdded
  <2>11. g.stage \in CredStages /\ g.stage \notin Over
    BY <2>8 DEF CredStages, Over
  <2>12. Cardinality(Polls(s)) \in Nat
    BY <2>1, Finite DEF Polls
  <2>13. CredRunning(g, Cardinality(Polls(s)))
    <3>. DEFINE n == Cardinality(Polls(s))
    <3>. HIDE DEF n
    <3>1. n \in Nat /\ CredRunning(f, n)
      BY <2>1, <2>12 DEF n
    <3>2. CredRunning(g, n)
      BY <2>8, <3>1, SMTT(60) DEF CredRunning
    <3>. QED
      BY <3>2 DEF n
  <2>14. PollTerms(s, in.transaction)
    <3>1. CASE f.stage = "AwaitingDeferredResponse"
      BY <2>1, <3>1 DEF CredSent
    <3>2. CASE f.stage = "AwaitingCredentialResponse"
      <4>1. Polls(s) = {}
        BY <2>1, <3>2 DEF CredSent, Undeferred
      <4>. QED
        BY <4>1 DEF PollTerms
    <3>. QED
      BY <3>1, <3>2
  <2>15. CredSent(g, s, seen)
    <3>1. /\ g.stage \notin Early /\ g.stage \notin Undeferred /\ g.stage # "SigningDpop"
          /\ g.stage # "AwaitingCredentialResponse"
      BY <2>8 DEF Early, Undeferred
    <3>2. InOrder(s, g.nonce, Nonces(g))
      BY <2>4, <2>9 DEF Nonces
    <3>3. /\ FirstTerms(s, g.c_nonce, g.config.target) /\ FirstsDiffer(s)
          /\ Cardinality(Firsts(s)) <= 2
      BY <2>1, <2>7, <2>9 DEF CredSent
    <3>4. g.c_nonce \notin seen
      BY <2>1, <2>9 DEF CredSent
    <3>5. PollTerms(s, g.transaction)
      BY <2>9, <2>14
    <3>. QED
      BY <3>1, <3>2, <3>3, <3>4, <3>5 DEF CredSent
  <2>16. Measure(g) < Measure(f) /\ Measure(g) >= 0
    BY <2>1, <2>8, RandomAssumption, SMTT(60) DEF Measure, Waits, CredRunning
  <2>17. CredGood(f, s, seen, CredDone(g, <<>>), sound)
    BY <2>1, <2>6, <2>7, <2>10, <2>11, <2>13, <2>15, <2>16, <1>CredDoneGood
  <2>. QED
    BY <2>5, <2>17 DEF x
(* An issuer that delivers ends the flow.                                *)
<1>CompletedStep.
    \A f, s, seen, in, sound :
       /\ CredInv(f, s, seen)
       /\ f.stage \in {"AwaitingCredentialResponse", "AwaitingDeferredResponse"}
       /\ Matches(in, f.config)
       =>
       CredGood(f, s, seen,
                Completed(RotateCredentialEndpointNonce(f, in.nonce), in), sound)
  (* A credential flow that ends with a credential.                        *)
  <2>CredCompleted.
    ASSUME NEW f, NEW s, NEW seen, NEW g, NEW sound, DOMAIN g = CredFields, g.stage = "Complete",
           g.failure = f.failure, g.config = f.config, Issued(g, seen)
    PROVE  CredGood(f, s, seen, CredDone(g, <<>>), sound)
    <3>. USE <2>CredCompleted
    <3>. DEFINE r == CredDone(g, <<>>)
    <3>1. r.flow = g
      BY DEF CredDone
    <3>. HIDE DEF r
    <3>2. "Complete" \in Over /\ "Complete" \in CredStages
      BY DEF Over, CredStages
    <3>3. After(r, s) = <<>> /\ <<>> \in Seq(Range(<<>>))
      BY <3>1, <3>2, NoneCounted DEF After
    <3>4. CredInv(r.flow, After(r, s), seen)
      BY <3>1, <3>2, <3>3 DEF CredInv
    <3>. QED
      BY <3>1, <3>2, <3>4 DEF CredGood, r
  (* An issuer that delivers ends the flow.                                *)
  <2>Result.
    ASSUME NEW f, NEW s, NEW seen, NEW in, NEW sound, CredInv(f, s, seen),
           f.stage \in {"AwaitingCredentialResponse", "AwaitingDeferredResponse"},
           Matches(in, f.config)
    PROVE  CredGood(f, s, seen,
                    Completed(RotateCredentialEndpointNonce(f, in.nonce), in), sound)
    <3>. USE <2>Result
    <3>. DEFINE x == RotateCredentialEndpointNonce(f, in.nonce)
                issued == [format |-> in.format, type |-> in.type, issuer |-> in.issuer,
                           c_nonce |-> x.c_nonce]
                g == [x EXCEPT !.stage = "Complete", !.issued = issued]
    <3>1. DOMAIN f = CredFields /\ CredSent(f, s, seen)
      BY DEF CredInv, Over
    <3>2. /\ DOMAIN x = CredFields /\ x.failure = f.failure /\ x.config = f.config
          /\ x.c_nonce = f.c_nonce
      BY <3>1, <1>CredRotated
    <3>. HIDE DEF x
    <3>3. Completed(x, in) = CredDone(g, <<>>)
      BY DEF Completed
    <3>4. /\ issued.format = in.format /\ issued.type = in.type /\ issued.issuer = in.issuer
          /\ issued.c_nonce = x.c_nonce
      OBVIOUS
    <3>. HIDE DEF issued
    <3>5. DOMAIN g = CredFields /\ g.stage = "Complete" /\ g.issued = issued
      BY <3>2 DEF CredFields
    <3>6. g.failure = f.failure /\ g.config = f.config
      BY <3>2 DEF CredFields
    <3>. HIDE DEF g
    <3>7. f.c_nonce \notin seen
      BY <3>1 DEF CredSent
    <3>8. Issued(g, seen)
      BY <3>2, <3>4, <3>5, <3>6, <3>7 DEF Issued, Matches
    <3>9. CredGood(f, s, seen, CredDone(g, <<>>), sound)
      BY <3>5, <3>6, <3>8, <2>CredCompleted
    <3>. QED
      BY <3>3, <3>9 DEF x
  <2>. QED
    BY <2>Result
(* accept_credential_response: a demand for a nonce, a deferral or the   *)
(* credential.                                                           *)
<1>AcceptCredentialResponseStep.
  ASSUME NEW f, NEW s, NEW seen, NEW in, NEW t, NEW sound, CredInv(f, s, seen),
         f.stage = "AwaitingCredentialResponse"
  PROVE  CredGood(f, s, seen, AcceptCredentialResponse(f, in, t, sound), sound)
  <2>. USE <1>AcceptCredentialResponseStep
  <2>. DEFINE supported == << Require(f.config.deferred, "DeferredIssuanceUnsupported") >>
              deferral == ParseDeferredCredential(in)
              deferred == supported \o deferral
              head == AnswerHead(f, in)
              answer == AnswerChecks(f, in, deferred)
              checks == head \o answer
              x == RotateCredentialEndpointNonce(f, in.nonce)
              r == AcceptCredentialResponse(f, in, t, sound)
  <2>1. r = IF ~Passing(checks) THEN CredLatch(f, FirstError(checks))
            ELSE IF Demand(in) THEN DpopSigningStage(x, f.retry + 1, sound)
            ELSE IF in.status = 202 THEN Postponed(x, in, t)
            ELSE Completed(x, in)
    <3>1. r = IF ~Passes(checks) THEN CredLatch(f, FirstError(checks))
              ELSE IF Demand(in) THEN DpopSigningStage(x, f.retry + 1, sound)
              ELSE IF in.status = 202 THEN Postponed(x, in, t)
              ELSE Completed(x, in)
      BY SMTT(60) DEF AcceptCredentialResponse, AnswerChecks, Body, Demand
    <3>2. Passes(checks) <=> Passing(checks)
      BY Verdicts
    <3>. HIDE DEF checks, r, x
    <3>. QED
      BY <3>1, <3>2, SMTT(30)
  <2>2. Plain(head) /\ Plain(deferral)
    BY <1>CredValidators
  <2>3. Plain(supported)
    BY PlainChecks, NameTuples
  <2>. HIDE DEF supported, deferral, head
  <2>4. Plain(deferred)
    BY <2>2, <2>3, PlainConcat
  <2>. HIDE DEF deferred
  <2>5. /\ Plain(answer)
        /\ Passing(answer) =>
              /\ ~CredStaleNonce(f, in.nonce)
              /\ Demand(in) => in.nonce # None /\ f.retry < 1
              /\ ~Demand(in) /\ in.status # 202 => Matches(in, f.config)
    BY <2>4, <1>AnswerVerdict
  <2>. HIDE DEF answer
  <2>6. Plain(checks) /\ (Passing(checks) => Passing(answer))
    BY <2>2, <2>5, PlainConcat, EndsWith DEF Plain
  <2>. HIDE DEF checks
  <2>7. DOMAIN f = CredFields /\ s \in Seq(Range(s)) /\ CredRunning(f, Cardinality(Polls(s))) /\ CredSent(f, s, seen)
    BY DEF CredInv, Over
  <2>8. CASE ~Passing(checks)
    BY <2>1, <2>6, <2>7, <2>8, <1>CredRefused DEF Plain
  <2>9. CASE Passing(checks) /\ Demand(in)
    <3>1. in.nonce # None /\ f.retry < 1 /\ ~CredStaleNonce(f, in.nonce)
      BY <2>5, <2>6, <2>9
    <3>2. DOMAIN x = CredFields /\ x.failure = f.failure /\ x.config = f.config
      BY <2>7, <1>CredRotated
    <3>3. x.used = f.used /\ x.c_nonce = f.c_nonce
      BY <2>7, <1>CredRotated
    <3>4. InOrder(s, x.nonce, Nonces(x)) /\ x.nonce \notin Nonces(f)
      <4>1. InOrder(s, f.nonce, Nonces(f))
        BY <2>7 DEF CredSent
      <4>2. InOrder(s, x.nonce, Nonces(x)) /\ (in.nonce # None => x.nonce \notin Nonces(f))
        BY <2>7, <3>1, <4>1, <1>CredRotatedInOrder
      <4>. QED
        BY <3>1, <4>2
    <3>. HIDE DEF x
    <3>5. /\ f.retry + 1 \in 0 .. 1 /\ x.used = 3 + 3 * (f.retry + 1) /\ Measure(f) \in Int
          /\ Measure(f) >= 2 * (MaxRandom - x.used)
      BY <2>7, <3>1, <3>3, RandomAssumption, SMTT(60) DEF CredRunning, Measure, Waits
    <3>6. /\ Polls(s) = {} /\ x.c_nonce \notin seen /\ Cardinality(Firsts(s)) = f.retry + 1
      BY <2>7, <3>3 DEF CredSent, Undeferred
    <3>7. FirstTerms(s, x.c_nonce, x.config.target) /\ FirstsDiffer(s)
      BY <2>7, <3>2, <3>3 DEF CredSent
    <3>8. FirstUnused(s, x.nonce)
      BY <2>7, <3>4 DEF CredSent, InOrder, Among, FirstUnused, Firsts, OfKind
    <3>9. CredGood(f, s, seen, DpopSigningStage(x, f.retry + 1, sound), sound)
      BY <2>7, <3>2, <3>4, <3>5, <3>6, <3>7, <3>8, <1>DpopSigningStageStep
    <3>. QED
      BY <2>1, <2>9, <3>9
  <2>10. CASE Passing(checks) /\ ~Demand(in) /\ in.status = 202
    <3>1. CredGood(f, s, seen, Postponed(x, in, t), sound)
      <4>1. /\ f.stage \in {"AwaitingCredentialResponse", "AwaitingDeferredResponse"}
            /\ f.stage # "AwaitingDeferredResponse" /\ ~CredStaleNonce(f, in.nonce)
        BY <2>5, <2>6, <2>10
      <4>. QED
        BY <4>1, <1>PostponedStep
    <3>2. r = Postponed(x, in, t)
      BY <2>1, <2>10, SMTT(30)
    <3>. QED
      BY <3>1, <3>2
  <2>11. CASE Passing(checks) /\ ~Demand(in) /\ in.status # 202
    <3>1. CredGood(f, s, seen, Completed(x, in), sound)
      <4>1. /\ f.stage \in {"AwaitingCredentialResponse", "AwaitingDeferredResponse"}
            /\ Matches(in, f.config)
        BY <2>5, <2>6, <2>11
      <4>. QED
        BY <4>1, <1>CompletedStep
    <3>2. r = Completed(x, in)
      BY <2>1, <2>11, SMTT(30)
    <3>. QED
      BY <3>1, <3>2
  <2>. QED
    BY <2>8, <2>9, <2>10, <2>11
(* A flow runs out of random values only after the polls the budget must *)
(* allow.                                                                *)
<1>Guaranteed.
  ASSUME NEW p \in Nat, 12 + 3 * p > MaxRandom
  PROVE  p >= GuaranteedPolls
  BY <1>Guaranteed, RandomAssumption, SMTT(60) DEF GuaranteedPolls
(* deferred_dpop_signing_stage, for a poll and for its repetition.       *)
<1>DeferredDpopSigningStageStep.
  ASSUME NEW f, NEW x, NEW s, NEW seen, NEW retry \in 0 .. 1, NEW sound,
         DOMAIN x = CredFields, s \in Seq(Range(s)),
         x.used \in Nat, x.used <= 9 + 3 * Cardinality(Polls(s)),
         x.failure = f.failure, x.config = f.config,
         Measure(f) \in Int, Measure(f) >= 2 * (MaxRandom - x.used),
         FirstTerms(s, x.c_nonce, x.config.target), FirstsDiffer(s),
         Cardinality(Firsts(s)) <= 2, PollTerms(s, x.transaction),
         InOrder(s, x.nonce, Nonces(x)), x.c_nonce \notin seen
  PROVE  CredGood(f, s, seen, DeferredDpopSigningStage(x, retry, sound), sound)
  <2>. USE <1>DeferredDpopSigningStageStep
  <2>. DEFINE deferred == x.config.deferred
              fresh == CredFreshRandom(x, 2, sound)
              checks == << Require(deferred, "DeferredIssuanceUnsupported"),
                           Require(fresh, "RandomnessFailure") >>
              id == x.used + 2
              w == CredDrawn(x, 2)
              g == [w EXCEPT !.stage = "SigningDeferredDpop", !.id = id, !.retry = retry]
              q == [CredAsk("SignDpop", id) EXCEPT !.nonce = x.nonce]
              r == DeferredDpopSigningStage(x, retry, sound)
  <2>1. r = IF ~Passing(checks) THEN CredLatch(x, FirstError(checks)) ELSE CredDone(g, <<q>>)
    BY Verdicts DEF DeferredDpopSigningStage, Require
  <2>2. /\ IsSeq(checks) /\ ("RandomnessFailure" \in Errors(checks) => ~fresh)
        /\ Passing(checks) => fresh
    <3>. HIDE DEF fresh, deferred
    <3>. QED
      BY TwoChecks, SMTT(30)
  <2>. HIDE DEF checks
  <2>3. Cardinality(Polls(s)) \in Nat
    BY Finite DEF Polls
  <2>4. fresh => x.used + 2 <= MaxRandom
    BY SMTT(60) DEF CredFreshRandom
  <2>5. ~fresh => ~sound \/ Cardinality(Polls(s)) >= GuaranteedPolls
    <3>. DEFINE n == Cardinality(Polls(s))
    <3>. HIDE DEF n
    <3>1. n \in Nat /\ x.used <= 9 + 3 * n
      BY <2>3 DEF n
    <3>2. ~fresh /\ sound => 12 + 3 * n > MaxRandom
      BY <3>1, RandomAssumption, SMTT(60) DEF CredFreshRandom
    <3>3. ~fresh => ~sound \/ n >= GuaranteedPolls
      BY <3>1, <3>2, <1>Guaranteed
    <3>. QED
      BY <3>3 DEF n
  <2>. HIDE DEF fresh
  <2>6. CASE ~Passing(checks)
    BY <2>1, <2>2, <2>5, <2>6, <1>CredRefused
  <2>7. CASE Passing(checks)
    <3>1. DOMAIN w = CredFields
      BY DEF CredDrawn
    <3>2. /\ w.used = x.used + 2 /\ w.transaction = x.transaction
          /\ w.nonce = x.nonce /\ w.retired = x.retired /\ w.failure = x.failure
          /\ w.config = x.config /\ w.c_nonce = x.c_nonce
      BY DEF CredDrawn, CredFields
    <3>. HIDE DEF w, id
    <3>3. DOMAIN g = CredFields
      BY <3>1
    <3>4. g.used = x.used + 2 /\ g.retry = retry /\ g.stage = "SigningDeferredDpop"
      BY <3>1, <3>2 DEF CredFields
    <3>5. /\ g.nonce = x.nonce /\ g.retired = x.retired /\ g.c_nonce = x.c_nonce
          /\ g.transaction = x.transaction
      BY <3>1, <3>2 DEF CredFields
    <3>6. g.failure = f.failure /\ g.config = f.config
      BY <3>1, <3>2 DEF CredFields
    <3>7. ~Request(q)
      BY DEF Request, CredAsk
    <3>. HIDE DEF g, q
    <3>8. s \o RequestsIn(<<q>>) = s
      BY <3>7, Asked, NothingAdded
    <3>9. g.stage \in CredStages /\ g.stage \notin Over
      BY <3>4 DEF CredStages, Over
    <3>10. x.used + 2 <= MaxRandom
      BY <2>2, <2>4, <2>7
    <3>11. CredRunning(g, Cardinality(Polls(s)))
      <4>. DEFINE n == Cardinality(Polls(s))
      <4>. HIDE DEF n
      <4>1. n \in Nat /\ x.used <= 9 + 3 * n
        BY <2>3 DEF n
      <4>2. CredRunning(g, n)
        BY <3>4, <3>10, <4>1, RandomAssumption, SMTT(60) DEF CredRunning
      <4>. QED
        BY <4>2 DEF n
    <3>12. CredSent(g, s, seen)
      <4>1. Nonces(g) = Nonces(x)
        BY <3>5 DEF Nonces
      <4>2. /\ g.stage \notin Early /\ g.stage # "AwaitingCredentialResponse"
            /\ g.stage # "SigningDpop" /\ g.stage \notin Undeferred
        BY <3>4 DEF Early, Undeferred
      <4>3. g.config.target = x.config.target
        BY <3>6
      <4>. QED
        BY <3>5, <4>1, <4>2, <4>3 DEF CredSent
    <3>13. Measure(g) < Measure(f) /\ Measure(g) >= 0
      <4>1. Measure(g) = 2 * (MaxRandom - g.used) + 0
        BY <3>4 DEF Measure, Waits
      <4>. QED
        BY <3>4, <3>10, <4>1, RandomAssumption, SMTT(60)
    <3>14. CredGood(f, s, seen, CredDone(g, <<q>>), sound)
      BY <3>3, <3>6, <3>8, <3>9, <3>11, <3>12, <3>13, <1>CredDoneGood
    <3>. QED
      BY <2>1, <2>7, <3>14
  <2>. QED
    BY <2>6, <2>7
(* accept_deferred_dpop_signature, which sends the poll.                 *)
<1>AcceptDeferredDpopSignatureStep.
    \A f, s, seen, in, sound :
       /\ CredInv(f, s, seen)
       /\ f.stage = "SigningDeferredDpop"
       =>
       CredGood(f, s, seen, AcceptDeferredDpopSignature(f, in, sound), sound)
  (* A poll for the transaction of the earlier ones.                       *)
  <2>PollSent.
    ASSUME NEW s, s \in Seq(Range(s)), NEW t, NEW e, Extends(t, s, e), e.kind = "SendDeferred",
           NEW c, NEW target, FirstTerms(s, c, target), FirstsDiffer(s), PollTerms(s, e.transaction)
    PROVE  /\ FirstTerms(t, c, target) /\ FirstsDiffer(t) /\ Firsts(t) = Firsts(s)
           /\ Cardinality(Polls(t)) = Cardinality(Polls(s)) + 1
           /\ PollTerms(t, e.transaction)
    <3>. USE <2>PollSent
    <3>1. /\ Polls(t) = Polls(s) \cup {Len(s) + 1}
          /\ Cardinality(Polls(t)) = Cardinality(Polls(s)) + 1
      BY Counted DEF Polls
    <3>2. Firsts(t) = Firsts(s)
      BY Counted DEF Firsts
    <3>3. /\ \A i \in Firsts(s) : t[i] = s[i]
          /\ \A i \in Polls(s) : t[i] = s[i]
          /\ t[Len(s) + 1] = e
      BY DEF Extends, Firsts, Polls, OfKind
    <3>4. FirstTerms(t, c, target)
      BY <3>2, <3>3 DEF FirstTerms
    <3>5. FirstsDiffer(t)
      BY <3>2, <3>3 DEF FirstsDiffer
    <3>6. PollTerms(t, e.transaction)
      BY <3>1, <3>3 DEF PollTerms
    <3>. QED
      BY <3>1, <3>2, <3>4, <3>5, <3>6
  (* accept_deferred_dpop_signature, which sends the poll.                 *)
  <2>Result.
    ASSUME NEW f, NEW s, NEW seen, NEW in, NEW sound, CredInv(f, s, seen),
           f.stage = "SigningDeferredDpop"
    PROVE  CredGood(f, s, seen, AcceptDeferredDpopSignature(f, in, sound), sound)
    <3>. USE <2>Result
    <3>. DEFINE a == SignatureChecks(f, in, "DpopSigningMismatch", "DpopSignatureInvalid")
                deferred == f.config.deferred
                fresh == CredFreshRandom(f, 1, sound)
                b == << Require(deferred, "DeferredIssuanceUnsupported"),
                        Require(fresh, "RandomnessFailure") >>
                checks == a \o b
                id == f.used + 1
                w == CredDrawn(f, 1)
                g == [w EXCEPT !.stage = "AwaitingDeferredResponse", !.id = id]
                e == [CredAsk("SendDeferred", id) EXCEPT !.nonce = f.nonce,
                        !.transaction = f.transaction]
                t == s \o <<e>>
                r == AcceptDeferredDpopSignature(f, in, sound)
    <3>1. r = IF ~Passing(checks) THEN CredLatch(f, FirstError(checks)) ELSE CredDone(g, <<e>>)
      BY Verdicts DEF AcceptDeferredDpopSignature, Require
    <3>2. Plain(a)
      BY <1>SignatureVerdicts
    <3>3. /\ IsSeq(b) /\ ("RandomnessFailure" \in Errors(b) => ~fresh)
          /\ Passing(b) => fresh
      <4>. HIDE DEF fresh, deferred
      <4>. QED
        BY TwoChecks, SMTT(30)
    <3>. HIDE DEF a, b
    <3>4. /\ IsSeq(checks) /\ ("RandomnessFailure" \in Errors(checks) => ~fresh)
          /\ Passing(checks) => fresh
      BY <3>2, <3>3, EndsWith
    <3>. HIDE DEF checks
    <3>5. DOMAIN f = CredFields /\ s \in Seq(Range(s)) /\ CredRunning(f, Cardinality(Polls(s))) /\ CredSent(f, s, seen)
      BY DEF CredInv, Over
    <3>6. Cardinality(Polls(s)) \in Nat
      BY <3>5, Finite DEF Polls
    <3>7. fresh => f.used + 1 <= MaxRandom
      BY SMTT(60) DEF CredFreshRandom
    <3>8. ~fresh => ~sound \/ Cardinality(Polls(s)) >= GuaranteedPolls
      <4>. DEFINE n == Cardinality(Polls(s))
      <4>. HIDE DEF n
      <4>1. n \in Nat /\ CredRunning(f, n)
        BY <3>5, <3>6 DEF n
      <4>2. ~fresh /\ sound => 12 + 3 * n > MaxRandom
        BY <4>1, RandomAssumption, SMTT(60) DEF CredFreshRandom, CredRunning
      <4>3. ~fresh => ~sound \/ n >= GuaranteedPolls
        BY <4>1, <4>2, <1>Guaranteed
      <4>. QED
        BY <4>3 DEF n
    <3>. HIDE DEF fresh
    <3>9. CASE ~Passing(checks)
      BY <3>1, <3>4, <3>5, <3>8, <3>9, <1>CredRefused
    <3>10. CASE Passing(checks)
      <4>1. DOMAIN w = CredFields
        BY <3>5 DEF CredDrawn
      <4>2. /\ w.used = f.used + 1 /\ w.transaction = f.transaction /\ w.retry = f.retry
            /\ w.nonce = f.nonce /\ w.retired = f.retired /\ w.failure = f.failure
            /\ w.config = f.config /\ w.c_nonce = f.c_nonce
        BY <3>5 DEF CredDrawn, CredFields
      <4>. HIDE DEF w, id
      <4>3. DOMAIN g = CredFields
        BY <4>1
      <4>4. g.used = f.used + 1 /\ g.retry = f.retry /\ g.stage = "AwaitingDeferredResponse"
        BY <4>1, <4>2 DEF CredFields
      <4>5. /\ g.transaction = f.transaction /\ g.nonce = f.nonce /\ g.retired = f.retired
            /\ g.c_nonce = f.c_nonce
        BY <4>1, <4>2 DEF CredFields
      <4>6. g.failure = f.failure /\ g.config = f.config
        BY <4>1, <4>2 DEF CredFields
      <4>7. e.kind = "SendDeferred" /\ e.nonce = f.nonce /\ e.transaction = f.transaction
        BY DEF CredAsk
      <4>. HIDE DEF g, e
      <4>8. Extends(t, s, e)
        BY <3>5, Extended
      <4>9. s \o RequestsIn(<<e>>) = t
        BY <4>7, Asked DEF Request
      <4>. HIDE DEF t
      <4>10. t \in Seq(Range(t))
        BY <4>8 DEF Extends
      <4>11. g.stage \in CredStages /\ g.stage \notin Over
        BY <4>4 DEF CredStages, Over
      <4>12. /\ FirstTerms(t, f.c_nonce, f.config.target) /\ FirstsDiffer(t)
             /\ Firsts(t) = Firsts(s)
             /\ Cardinality(Polls(t)) = Cardinality(Polls(s)) + 1
             /\ PollTerms(t, e.transaction)
        <5>1. /\ FirstTerms(s, f.c_nonce, f.config.target) /\ FirstsDiffer(s)
              /\ PollTerms(s, e.transaction)
          BY <3>5, <4>7 DEF CredSent
        <5>. QED
          BY <3>5, <4>7, <4>8, <5>1, <2>PollSent, SMTT(30)
      <4>13. f.used + 1 <= MaxRandom
        BY <3>4, <3>7, <3>10
      <4>14. CredRunning(g, Cardinality(Polls(t)))
        <5>. DEFINE n == Cardinality(Polls(s))
                    m == Cardinality(Polls(t))
        <5>. HIDE DEF n, m
        <5>1. n \in Nat /\ CredRunning(f, n) /\ m = n + 1
          BY <3>5, <3>6, <4>12 DEF n, m
        <5>2. CredRunning(g, m)
          BY <4>4, <4>13, <5>1, RandomAssumption, SMTT(60) DEF CredRunning
        <5>. QED
          BY <5>2 DEF m
      <4>15. InOrder(t, f.nonce, Nonces(f))
        <5>1. InOrder(s, e.nonce, Nonces(f)) /\ e.nonce \in Nonces(f)
          BY <3>5, <4>7 DEF CredSent, Nonces
        <5>2. InOrder(t, e.nonce, Nonces(f))
          BY <3>5, <4>8, <5>1, SentInOrder
        <5>. QED
          BY <4>7, <5>2
      <4>16. CredSent(g, t, seen)
        <5>1. Nonces(g) = Nonces(f)
          BY <4>5 DEF Nonces
        <5>2. Cardinality(Firsts(t)) <= 2 /\ f.c_nonce \notin seen
          BY <3>5, <4>12 DEF CredSent
        <5>3. /\ g.stage \notin Early /\ g.stage # "SigningDpop"
              /\ g.stage # "AwaitingCredentialResponse" /\ g.stage \notin Undeferred
          BY <4>4 DEF Early, Undeferred
        <5>4. /\ FirstTerms(t, g.c_nonce, g.config.target) /\ FirstsDiffer(t)
              /\ InOrder(t, g.nonce, Nonces(g)) /\ g.c_nonce \notin seen
              /\ PollTerms(t, g.transaction)
          BY <4>5, <4>6, <4>7, <4>12, <4>15, <5>1, <5>2
        <5>. QED
          BY <5>2, <5>3, <5>4 DEF CredSent
      <4>17. Measure(g) < Measure(f) /\ Measure(g) >= 0
        BY <3>5, <4>4, <4>13, RandomAssumption, SMTT(60) DEF Measure, Waits, CredRunning
      <4>18. CredGood(f, s, seen, CredDone(g, <<e>>), sound)
        BY <4>3, <4>6, <4>9, <4>10, <4>11, <4>14, <4>16, <4>17, <1>CredDoneGood
      <4>. QED
        BY <3>1, <3>10, <4>18
    <3>. QED
      BY <3>9, <3>10
  <2>. QED
    BY <2>Result
(* accept_deferred_response.                                             *)
<1>AcceptDeferredResponseStep.
  ASSUME NEW f, NEW s, NEW seen, NEW in, NEW t, NEW sound, CredInv(f, s, seen),
         f.stage = "AwaitingDeferredResponse"
  PROVE  CredGood(f, s, seen, AcceptDeferredResponse(f, in, t, sound), sound)
  <2>. USE <1>AcceptDeferredResponseStep
  <2>. DEFINE supported == << Require(f.config.deferred, "DeferredIssuanceUnsupported") >>
              deferral == ParseDeferredCredential(in)
              same == in.transaction = f.transaction
              repeated == << Require(same, "InvalidCredentialResponse") >>
              deferred == deferral \o repeated
              head == AnswerHead(f, in)
              answer == AnswerChecks(f, in, deferred)
              checks == supported \o head \o answer
              x == RotateCredentialEndpointNonce(f, in.nonce)
              r == AcceptDeferredResponse(f, in, t, sound)
  <2>1. r = IF ~Passing(checks) THEN CredLatch(f, FirstError(checks))
            ELSE IF Demand(in) THEN DeferredDpopSigningStage(x, f.retry + 1, sound)
            ELSE IF in.status = 202 THEN Postponed(x, in, t)
            ELSE Completed(x, in)
    <3>0. repeated = << Require(in.transaction = f.transaction, "InvalidCredentialResponse") >>
      BY DEF Require
    <3>. HIDE DEF repeated
    <3>1. r = IF ~Passes(checks) THEN CredLatch(f, FirstError(checks))
              ELSE IF Demand(in) THEN DeferredDpopSigningStage(x, f.retry + 1, sound)
              ELSE IF in.status = 202 THEN Postponed(x, in, t)
              ELSE Completed(x, in)
      BY <3>0, SMTT(60) DEF AcceptDeferredResponse, AnswerChecks, Body, Demand
    <3>2. Passes(checks) <=> Passing(checks)
      BY Verdicts
    <3>. HIDE DEF checks, r, x
    <3>. QED
      BY <3>1, <3>2, SMTT(30)
  <2>2. Plain(head) /\ Plain(deferral)
    BY <1>CredValidators
  <2>3. Plain(supported)
    BY PlainChecks, NameTuples
  <2>4. Plain(repeated) /\ (Passing(repeated) => same)
    <3>. HIDE DEF same
    <3>. QED
      BY OneCheck, SMTT(30)
  <2>. HIDE DEF supported, deferral, repeated, head
  <2>5. Plain(deferred) /\ (Passing(deferred) => same)
    BY <2>2, <2>4, PlainConcat, EndsWith DEF Plain
  <2>. HIDE DEF deferred
  <2>6. /\ Plain(answer)
        /\ Passing(answer) =>
              /\ ~CredStaleNonce(f, in.nonce)
              /\ Demand(in) => in.nonce # None /\ f.retry < 1
              /\ ~Demand(in) /\ in.status = 202 => Passing(deferred)
              /\ ~Demand(in) /\ in.status # 202 => Matches(in, f.config)
    BY <2>5, <1>AnswerVerdict
  <2>. HIDE DEF answer
  <2>7. Plain(checks) /\ (Passing(checks) => Passing(answer))
    <3>1. Plain(supported \o head)
      BY <2>2, <2>3, PlainConcat
    <3>. QED
      BY <2>6, <3>1, PlainConcat, EndsWith DEF Plain
  <2>. HIDE DEF checks
  <2>8. DOMAIN f = CredFields /\ s \in Seq(Range(s)) /\ CredRunning(f, Cardinality(Polls(s))) /\ CredSent(f, s, seen)
    BY DEF CredInv, Over
  <2>9. CASE ~Passing(checks)
    BY <2>1, <2>7, <2>8, <2>9, <1>CredRefused DEF Plain
  <2>10. CASE Passing(checks) /\ Demand(in)
    <3>1. f.retry < 1 /\ ~CredStaleNonce(f, in.nonce)
      BY <2>6, <2>7, <2>10
    <3>2. DOMAIN x = CredFields /\ x.failure = f.failure /\ x.config = f.config
      BY <2>8, <1>CredRotated
    <3>3. x.used = f.used /\ x.c_nonce = f.c_nonce /\ x.transaction = f.transaction
      BY <2>8, <1>CredRotated
    <3>4. InOrder(s, x.nonce, Nonces(x))
      <4>1. InOrder(s, f.nonce, Nonces(f))
        BY <2>8 DEF CredSent
      <4>. QED
        BY <2>8, <3>1, <4>1, <1>CredRotatedInOrder
    <3>. HIDE DEF x
    <3>5. /\ f.retry + 1 \in 0 .. 1 /\ x.used \in Nat /\ Measure(f) \in Int
          /\ x.used <= 9 + 3 * Cardinality(Polls(s))
          /\ Measure(f) >= 2 * (MaxRandom - x.used)
      <4>. DEFINE n == Cardinality(Polls(s))
      <4>. HIDE DEF n
      <4>1. CredRunning(f, n)
        BY <2>8 DEF n
      <4>2. /\ f.retry + 1 \in 0 .. 1 /\ x.used \in Nat /\ Measure(f) \in Int
            /\ x.used <= 9 + 3 * n /\ Measure(f) >= 2 * (MaxRandom - x.used)
        BY <3>1, <3>3, <4>1, RandomAssumption, SMTT(60) DEF CredRunning, Measure, Waits
      <4>. QED
        BY <4>2 DEF n
    <3>6. x.c_nonce \notin seen /\ Cardinality(Firsts(s)) <= 2 /\ PollTerms(s, x.transaction)
      BY <2>8, <3>3 DEF CredSent
    <3>7. FirstTerms(s, x.c_nonce, x.config.target) /\ FirstsDiffer(s)
      BY <2>8, <3>2, <3>3 DEF CredSent
    <3>8. CredGood(f, s, seen, DeferredDpopSigningStage(x, f.retry + 1, sound), sound)
      BY <2>8, <3>2, <3>4, <3>5, <3>6, <3>7, <1>DeferredDpopSigningStageStep
    <3>. QED
      BY <2>1, <2>10, <3>8
  <2>11. CASE Passing(checks) /\ ~Demand(in) /\ in.status = 202
    <3>1. CredGood(f, s, seen, Postponed(x, in, t), sound)
      <4>1. /\ f.stage \in {"AwaitingCredentialResponse", "AwaitingDeferredResponse"}
            /\ same /\ ~CredStaleNonce(f, in.nonce)
        BY <2>5, <2>6, <2>7, <2>11
      <4>. QED
        BY <4>1, <1>PostponedStep
    <3>2. r = Postponed(x, in, t)
      BY <2>1, <2>11, SMTT(30)
    <3>. QED
      BY <3>1, <3>2
  <2>12. CASE Passing(checks) /\ ~Demand(in) /\ in.status # 202
    <3>1. CredGood(f, s, seen, Completed(x, in), sound)
      <4>1. /\ f.stage \in {"AwaitingCredentialResponse", "AwaitingDeferredResponse"}
            /\ Matches(in, f.config)
        BY <2>6, <2>7, <2>12
      <4>. QED
        BY <4>1, <1>CompletedStep
    <3>2. r = Completed(x, in)
      BY <2>1, <2>12, SMTT(30)
    <3>. QED
      BY <3>1, <3>2
  <2>. QED
    BY <2>9, <2>10, <2>11, <2>12
(* A poll of a deferred credential.                                      *)
<1>PollStep.
  ASSUME NEW f, NEW s, NEW seen, NEW sound, CredInv(f, s, seen), f.stage = "Deferred"
  PROVE  CredGood(f, s, seen, DeferredDpopSigningStage(f, 0, sound), sound)
  <2>. USE <1>PollStep
  <2>1. DOMAIN f = CredFields /\ s \in Seq(Range(s)) /\ CredRunning(f, Cardinality(Polls(s))) /\ CredSent(f, s, seen)
    BY DEF CredInv, Over
  <2>2. /\ 0 \in 0 .. 1 /\ f.used \in Nat /\ Measure(f) \in Int
        /\ f.used <= 9 + 3 * Cardinality(Polls(s))
        /\ Measure(f) >= 2 * (MaxRandom - f.used)
    <3>. DEFINE n == Cardinality(Polls(s))
    <3>. HIDE DEF n
    <3>1. CredRunning(f, n)
      BY <2>1 DEF n
    <3>2. /\ 0 \in 0 .. 1 /\ f.used \in Nat /\ Measure(f) \in Int
          /\ f.used <= 9 + 3 * n /\ Measure(f) >= 2 * (MaxRandom - f.used)
      BY <3>1, RandomAssumption, SMTT(60) DEF CredRunning, Measure, Waits
    <3>. QED
      BY <3>2 DEF n
  <2>3. /\ FirstTerms(s, f.c_nonce, f.config.target) /\ FirstsDiffer(s)
        /\ Cardinality(Firsts(s)) <= 2 /\ PollTerms(s, f.transaction)
        /\ InOrder(s, f.nonce, Nonces(f)) /\ f.c_nonce \notin seen
    BY <2>1 DEF CredSent
  <2>. QED
    BY <2>1, <2>2, <2>3, <1>DeferredDpopSigningStageStep
(* Every input a credential flow may meet at its stage, and any other    *)
(* input.                                                                *)
<1>Transition.
  ASSUME NEW f, NEW s, NEW seen, NEW in, NEW t, NEW sound, CredInv(f, s, seen)
  PROVE  CredGood(f, s, seen, CredTransition(f, in, t, seen, sound), sound)
  <2>. USE <1>Transition
  <2>. DEFINE r == CredTransition(f, in, t, seen, sound)
  <2>1. CASE f.stage = "AwaitingNonceResponse" /\ in.kind = "NonceResponse"
    <3>1. r = AcceptNonceResponse(f, in, seen, sound)
      BY <2>1 DEF CredTransition
    <3>. QED
      BY <2>1, <3>1, <1>AcceptNonceResponseStep
  <2>2. CASE f.stage = "AwaitingKeyAttestation" /\ in.kind = "KeyAttestation"
    <3>1. r = AcceptKeyAttestation(f, in, t, sound)
      BY <2>2 DEF CredTransition
    <3>. QED
      BY <2>2, <3>1, <1>AcceptKeyAttestationStep
  <2>3. CASE f.stage = "SigningCredentialProof" /\ in.kind = "CredentialProofSignature"
    <3>1. r = AcceptCredentialProofSignature(f, in, sound)
      BY <2>3 DEF CredTransition
    <3>. QED
      BY <2>3, <3>1, <1>AcceptCredentialProofSignatureStep
  <2>4. CASE f.stage = "SigningDpop" /\ in.kind = "DpopSignature"
    <3>1. r = CredAcceptDpopSignature(f, in, sound)
      BY <2>4 DEF CredTransition
    <3>. QED
      BY <2>4, <3>1, <1>CredDpopSignatureStep
  <2>5. CASE f.stage = "AwaitingCredentialResponse" /\ in.kind = "CredentialResponse"
    <3>1. r = AcceptCredentialResponse(f, in, t, sound)
      BY <2>5 DEF CredTransition
    <3>. QED
      BY <2>5, <3>1, <1>AcceptCredentialResponseStep
  <2>6. CASE f.stage = "Deferred" /\ in.kind = "PollDeferred"
    <3>1. r = DeferredDpopSigningStage(f, 0, sound)
      BY <2>6 DEF CredTransition
    <3>. QED
      BY <2>6, <3>1, <1>PollStep
  <2>7. CASE f.stage = "SigningDeferredDpop" /\ in.kind = "DpopSignature"
    <3>1. r = AcceptDeferredDpopSignature(f, in, sound)
      BY <2>7 DEF CredTransition
    <3>. QED
      BY <2>7, <3>1, <1>AcceptDeferredDpopSignatureStep
  <2>8. CASE f.stage = "AwaitingDeferredResponse" /\ in.kind = "CredentialResponse"
    <3>1. r = AcceptDeferredResponse(f, in, t, sound)
      BY <2>8 DEF CredTransition
    <3>. QED
      BY <2>8, <3>1, <1>AcceptDeferredResponseStep
  <2>9. CASE /\ ~(f.stage = "AwaitingNonceResponse" /\ in.kind = "NonceResponse")
             /\ ~(f.stage = "AwaitingKeyAttestation" /\ in.kind = "KeyAttestation")
             /\ ~(f.stage = "SigningCredentialProof" /\ in.kind = "CredentialProofSignature")
             /\ ~(f.stage = "SigningDpop" /\ in.kind = "DpopSignature")
             /\ ~(f.stage = "AwaitingCredentialResponse" /\ in.kind = "CredentialResponse")
             /\ ~(f.stage = "Deferred" /\ in.kind = "PollDeferred")
             /\ ~(f.stage = "SigningDeferredDpop" /\ in.kind = "DpopSignature")
             /\ ~(f.stage = "AwaitingDeferredResponse" /\ in.kind = "CredentialResponse")
    <3>1. r = CredLatch(f, "UnexpectedInput")
      BY <2>9 DEF CredTransition
    <3>2. DOMAIN f = CredFields
      BY DEF CredInv
    <3>3. CredGood(f, s, seen, CredLatch(f, "UnexpectedInput"), sound)
      BY <3>2, CredLatchGood
    <3>. QED
      BY <3>1, <3>3
  <2>. QED
    BY <2>1, <2>2, <2>3, <2>4, <2>5, <2>6, <2>7, <2>8, <2>9
<1>. QED
  BY <1>Transition

(* validate_token_lifetime passes only in the lifetime of the token.       *)
LEMMA TokenVerdict ==
  ASSUME NEW grant, NEW t
  PROVE  LET c == ValidateTokenLifetime(grant, t)
         IN  /\ Plain(c) /\ (Passing(c) => Alive(grant, t))
             /\ Errors(c) \subseteq {"InvalidClock", "TokenExpired"}
<1>. DEFINE h == grant.issued > 0 /\ t >= grant.issued
            k == grant.expires = None \/ t < grant.issued + grant.expires
            r == Require(h, "InvalidClock")
            q == Require(k, "TokenExpired")
            c == << r, q >>
<1>1. ValidateTokenLifetime(grant, t) = c
  BY DEF ValidateTokenLifetime, Require
<1>2. k <=> Alive(grant, t)
  BY DEF Alive
<1>. HIDE DEF h, k
<1>3. c \in Seq({r, q}) /\ DOMAIN c = {1, 2} /\ c[1] = r /\ c[2] = q
  BY SMTT(60)
<1>4. r.error = "InvalidClock" /\ q.holds = k /\ q.error = "TokenExpired"
  BY DEF Require
<1>. HIDE DEF c, r, q
<1>5. IsSeq(c)
  BY <1>3 DEF IsSeq
<1>6. Passing(c) => k
  BY <1>3, <1>4 DEF Passing
<1>7. Errors(c) \subseteq {"InvalidClock", "TokenExpired"}
  BY <1>3, <1>4 DEF Errors
<1>. QED
  BY <1>1, <1>2, <1>5, <1>6, <1>7 DEF Plain

(* A step of the credential flow, the checks of the clock, of the token    *)
(* and of a flow that is over included.                                    *)
LEMMA CredStepKeeps ==
  ASSUME FiniteFacts, NEW f, NEW s, NEW seen, NEW in, NEW t, NEW sound, CredInv(f, s, seen)
  PROVE  LET r == CredStep(f, in, t, seen, sound)
         IN  CredKept(f, s, seen, r, t, sound) /\ Latched(f, r)
<1>. DEFINE r == CredStep(f, in, t, seen, sound)
            at == [f EXCEPT !.last = t]
            clock == << Require(CredValidateClock(t) /\ t >= f.last, "InvalidClock") >>
            life == ValidateTokenLifetime(f.config.grant, t)
            checks == clock \o life
            Refused(e) == [flow |-> at, effects |-> <<>>, error |-> e]
<1>1. DOMAIN f = CredFields
  BY DEF CredInv
<1>2. r = IF ~Passing(checks) THEN CredLatch(f, FirstError(checks))
          ELSE IF f.stage \in Over THEN Refused("AlreadyTerminal")
          ELSE IF in.kind = "PollDeferred" /\ f.stage = "Deferred" /\ t < f.next_poll
          THEN Refused("DeferredPollTooEarly")
          ELSE CredTransition(at, in, t, seen, sound)
  BY Verdicts DEF CredStep, CredTerminal, Over
<1>3. /\ Plain(life) /\ (Passing(life) => Alive(f.config.grant, t))
      /\ Errors(life) \subseteq {"InvalidClock", "TokenExpired"}
  BY TokenVerdict
<1>4. IsSeq(clock) /\ Plain(clock) /\ Errors(clock) \subseteq {"InvalidClock"}
  <2>. DEFINE h == CredValidateClock(t) /\ t >= f.last
  <2>1. clock = << Require(h, "InvalidClock") >>
    BY DEF Require
  <2>. HIDE DEF clock, h
  <2>. QED
    BY <2>1, OneCheck
<1>. HIDE DEF clock, life
<1>5. /\ IsSeq(checks) /\ (Passing(checks) => Alive(f.config.grant, t))
      /\ Errors(checks) \subseteq {"InvalidClock", "TokenExpired"}
  <2>1. IsSeq(life)
    BY <1>3 DEF Plain
  <2>2. /\ IsSeq(checks) /\ (Passing(checks) => Passing(life))
        /\ Errors(checks) \subseteq Errors(clock) \cup Errors(life)
    BY <1>4, <2>1, Concatenated
  <2>. QED
    BY <1>3, <1>4, <2>2
<1>. HIDE DEF checks
<1>6. CASE ~Passing(checks)
  <2>. DEFINE e == FirstError(checks)
              l == CredLatch(f, e)
  <2>1. e \in {"InvalidClock", "TokenExpired"}
    BY <1>5, <1>6, FailsWith
  <2>. HIDE DEF e
  <2>2. r = l
    BY <1>2, <1>6 DEF e
  <2>3. CredGood(f, s, seen, l, sound)
    <3>1. e # "RandomnessFailure"
      BY <2>1
    <3>. QED
      BY <1>1, <3>1, CredLatchGood
  <2>4. l.flow.stage = "Failed" /\ l.flow.failure = e /\ l.effects = <<>>
    BY <1>1 DEF CredLatch, CredFields
  <2>. HIDE DEF l
  <2>5. Latched(f, l)
    BY <2>1, <2>4 DEF Latched, Over
  <2>6. CredKept(f, s, seen, l, t, sound)
    <3>1. RequestsIn(l.effects) = <<>> /\ l.flow.stage \in Over
      BY <2>4, Asked DEF Over
    <3>. QED
      BY <2>3, <3>1 DEF CredGood, CredKept
  <2>. QED
    BY <2>2, <2>5, <2>6
<1>7. DOMAIN at = CredFields /\ at.last = t
  BY <1>1 DEF CredFields
<1>8. /\ at.stage = f.stage /\ at.failure = f.failure /\ at.config = f.config
      /\ at.c_nonce = f.c_nonce /\ at.transaction = f.transaction /\ at.retry = f.retry
      /\ at.nonce = f.nonce /\ at.retired = f.retired /\ at.used = f.used
      /\ at.issued = f.issued
  BY <1>1 DEF CredFields
<1>9. at = [f EXCEPT !.last = at.last]
  BY <1>7
<1>. HIDE DEF at
<1>10. ASSUME f.stage \notin Over PROVE CredInv(at, s, seen)
  <2>1. f.stage \in CredStages /\ s \in Seq(Range(s)) /\ CredRunning(f, Cardinality(Polls(s))) /\ CredSent(f, s, seen)
    BY <1>10 DEF CredInv
  <2>2. CredRunning(at, Cardinality(Polls(s)))
    BY <1>8, <2>1 DEF CredRunning
  <2>3. Nonces(at) = Nonces(f)
    BY <1>8 DEF Nonces
  <2>4. CredSent(at, s, seen)
    BY <1>8, <2>1, <2>3 DEF CredSent
  <2>. QED
    BY <1>7, <1>8, <1>10, <2>1, <2>2, <2>4 DEF CredInv, Over
<1>11. ASSUME f.stage \in Over PROVE CredInv(at, <<>>, seen)
  <2>1. f.stage \in CredStages /\ (f.stage = "Complete" => Issued(f, seen))
    BY <1>11 DEF CredInv
  <2>2. at.stage = "Complete" => Issued(at, seen)
    BY <1>8, <2>1 DEF Issued
  <2>. QED
    BY <1>7, <1>8, <1>11, <2>1, <2>2, NoneCounted DEF CredInv
<1>12. ASSUME NEW e PROVE CredKept(f, s, seen, Refused(e), t, sound) /\ Latched(f, Refused(e))
  <2>. DEFINE q == Refused(e)
  <2>1. q.flow = at /\ q.effects = <<>>
    OBVIOUS
  <2>. HIDE DEF q
  <2>2. RequestsIn(q.effects) = <<>>
    BY <2>1, Asked
  <2>3. CredInv(q.flow, After(q, s), seen)
    <3>1. CASE f.stage \in Over
      BY <1>8, <1>11, <2>1, <3>1 DEF After
    <3>2. CASE f.stage \notin Over
      <4>1. s \o <<>> = s
        BY NothingAdded DEF CredInv
      <4>. QED
        BY <1>8, <1>10, <2>1, <2>2, <3>2, <4>1 DEF After
    <3>. QED
      BY <3>1, <3>2
  <2>4. CredKept(f, s, seen, q, t, sound)
    BY <1>8, <1>9, <2>1, <2>2, <2>3 DEF CredKept
  <2>5. Latched(f, q)
    BY <1>8, <1>9, <2>1 DEF Latched
  <2>. QED
    BY <2>4, <2>5 DEF q
<1>13. CASE Passing(checks) /\ f.stage \in Over
  BY <1>2, <1>12, <1>13
<1>14. CASE Passing(checks) /\ f.stage \notin Over
  <2>1. CASE in.kind = "PollDeferred" /\ f.stage = "Deferred" /\ t < f.next_poll
    BY <1>2, <1>12, <1>14, <2>1
  <2>2. CASE ~(in.kind = "PollDeferred" /\ f.stage = "Deferred" /\ t < f.next_poll)
    <3>. DEFINE q == CredTransition(at, in, t, seen, sound)
    <3>1. r = q
      BY <1>2, <1>14, <2>2
    <3>2. CredGood(at, s, seen, q, sound)
      BY <1>10, <1>14, CredTransitionStep
    <3>3. Measure(at) = Measure(f)
      BY <1>8 DEF Measure
    <3>. HIDE DEF q
    <3>4. CredKept(f, s, seen, q, t, sound)
      BY <1>5, <1>8, <1>14, <3>2, <3>3 DEF CredGood, CredKept
    <3>5. Latched(f, q)
      BY <1>14 DEF Latched
    <3>. QED
      BY <3>1, <3>4, <3>5
  <2>. QED
    BY <2>1, <2>2
<1>. QED
  BY <1>6, <1>13, <1>14

(* A credential flow begins with the request for a c_nonce.                *)
LEMMA CredBegins ==
  ASSUME FiniteFacts, NEW config, NEW t, NEW seen, NEW sound, CredBegin(config, t, sound).error = None
  PROVE  LET r == CredBegin(config, t, sound)
         IN  /\ CredInv(r.flow, RequestsIn(r.effects), seen)
             /\ r.flow.config = config /\ r.flow.failure = None
<1>. DEFINE empty == [stage |-> "Failed", failure |-> "UnexpectedInput", config |-> config,
                      id |-> 0, c_nonce |-> None, transaction |-> None,
                      next_poll |-> 0, retry |-> 0, nonce |-> None, retired |-> {},
                      used |-> 0, last |-> t, issued |-> None]
            clock == << Require(CredValidateClock(t), "InvalidClock") >>
            life == ValidateTokenLifetime(config.grant, t)
            fresh == << Require(CredFreshRandom(empty, 1, sound), "RandomnessFailure") >>
            checks == clock \o life \o fresh
            w == CredDrawn(empty, 1)
            g == [w EXCEPT !.stage = "AwaitingNonceResponse", !.failure = None, !.id = 1]
            e == CredAsk("SendNonce", 1)
            s == <<>> \o <<e>>
            r == CredBegin(config, t, sound)
<1>1. r = IF ~Passing(checks) THEN CredLatch(empty, FirstError(checks))
          ELSE CredDone(g, <<e>>)
  BY Verdicts DEF CredBegin
<1>2. IsSeq(checks) /\ Errors(checks) \subseteq {"InvalidClock", "TokenExpired", "RandomnessFailure"}
  <2>1. IsSeq(clock) /\ Errors(clock) \subseteq {"InvalidClock"}
    <3>. DEFINE h == CredValidateClock(t)
    <3>1. clock = << Require(h, "InvalidClock") >>
      BY DEF Require
    <3>. HIDE DEF clock, h
    <3>. QED
      BY <3>1, OneCheck
  <2>2. IsSeq(fresh) /\ Errors(fresh) \subseteq {"RandomnessFailure"}
    <3>. DEFINE h == CredFreshRandom(empty, 1, sound)
    <3>1. fresh = << Require(h, "RandomnessFailure") >>
      BY DEF Require
    <3>. HIDE DEF fresh, h
    <3>. QED
      BY <3>1, OneCheck
  <2>3. IsSeq(life) /\ Errors(life) \subseteq {"InvalidClock", "TokenExpired"}
    BY TokenVerdict DEF Plain
  <2>. HIDE DEF clock, life, fresh
  <2>4. IsSeq(clock \o life) /\ Errors(clock \o life) \subseteq Errors(clock) \cup Errors(life)
    BY <2>1, <2>3, Concatenated
  <2>5. IsSeq(checks) /\ Errors(checks) \subseteq Errors(clock \o life) \cup Errors(fresh)
    BY <2>2, <2>4, Concatenated
  <2>. QED
    BY <2>1, <2>2, <2>3, <2>4, <2>5
<1>. HIDE DEF checks
<1>3. r = CredDone(g, <<e>>)
  <2>1. CASE ~Passing(checks)
    <3>1. FirstError(checks) # None
      BY <1>2, <2>1, FailsWith, NoneAssumption
    <3>2. r.error = FirstError(checks)
      <4>. HIDE DEF empty, r
      <4>. QED
        BY <1>1, <2>1 DEF CredLatch
    <3>. QED
      BY <3>1, <3>2
  <2>. HIDE DEF r, g, e
  <2>. QED
    BY <1>1, <2>1
<1>4. r.flow = g /\ r.effects = <<e>>
  <2>. HIDE DEF r, g, e
  <2>. QED
    BY <1>3 DEF CredDone
<1>5. DOMAIN empty = CredFields
  BY DEF CredFields
<1>6. /\ empty.used = 0 /\ empty.nonce = None /\ empty.retired = {} /\ empty.retry = 0
      /\ empty.config = config
  OBVIOUS
<1>. HIDE DEF empty
<1>7. DOMAIN w = CredFields
  BY <1>5 DEF CredDrawn
<1>8. /\ w.used = empty.used + 1 /\ w.nonce = None /\ w.retired = {} /\ w.retry = 0
      /\ w.config = config
  BY <1>5, <1>6 DEF CredDrawn, CredFields
<1>. HIDE DEF w
<1>9. DOMAIN g = CredFields
  BY <1>7
<1>10. /\ g.used = w.used /\ g.nonce = None /\ g.retired = {} /\ g.retry = 0
       /\ g.config = config /\ g.failure = None /\ g.stage = "AwaitingNonceResponse"
  BY <1>7, <1>8 DEF CredFields
<1>11. e.kind = "SendNonce" /\ e.nonce = None
  BY DEF CredAsk
<1>. HIDE DEF g, e
<1>12. RequestsIn(<<e>>) = s
  <2>1. RequestsIn(<<e>>) = <<e>>
    BY <1>11, Asked DEF Request
  <2>2. <<>> \o <<e>> = <<e>>
    BY SMTT(60)
  <2>. QED
    BY <2>1, <2>2
<1>13. <<>> \in Seq(Range(<<>>)) /\ DOMAIN <<>> = {}
  <2>1. DOMAIN <<>> = {}
    BY SMTT(60)
  <2>. QED
    BY <2>1, NoneCounted
<1>14. Extends(s, <<>>, e)
  BY <1>13, Extended
<1>. HIDE DEF s
<1>15. s \in Seq(Range(s)) /\ Firsts(s) = {} /\ Polls(s) = {}
  <2>1. s \in Seq(Range(s))
    BY <1>14 DEF Extends
  <2>2. \A i \in DOMAIN s : s[i] = e
    BY <1>13, <1>14 DEF Extends
  <2>3. Firsts(s) = {} /\ Polls(s) = {}
    BY <1>11, <2>2 DEF Firsts, Polls, OfKind
  <2>. QED
    BY <2>1, <2>3
<1>16. InOrder(s, g.nonce, Nonces(g))
  <2>1. InOrder(<<>>, None, Nonces(g)) /\ None \in Nonces(g)
    BY <1>13 DEF InOrder, Among, Runs, RunsOn, Nonces
  <2>2. InOrder(s, e.nonce, Nonces(g))
    BY <1>11, <1>13, <1>14, <2>1, SentInOrder
  <2>. QED
    BY <1>10, <1>11, <2>2
<1>17. g.used = 1
  BY <1>6, <1>8, <1>10, SMTT(60)
<1>18. CredRunning(g, Cardinality(Polls(s)))
  BY <1>10, <1>17, RandomAssumption, SMTT(60) DEF CredRunning
<1>19. CredSent(g, s, seen)
  <2>1. Cardinality(Firsts(s)) <= 2
    <3>1. Cardinality(Firsts(s)) = 0
      BY <1>15, NoneCounted
    <3>. QED
      BY <3>1, SMTT(60)
  <2>. QED
    BY <1>10, <1>15, <1>16, <2>1 DEF CredSent, FirstTerms, FirstsDiffer, PollTerms
<1>20. g.stage \in CredStages /\ g.stage \notin Over
  BY <1>10 DEF CredStages, Over
<1>21. CredInv(g, s, seen)
  BY <1>9, <1>15, <1>18, <1>19, <1>20 DEF CredInv, Over
<1>. QED
  BY <1>4, <1>10, <1>12, <1>21

(* Documents that pass lead to a plan the wallet can carry out.            *)
LEMMA DiscoveredPlan ==
  \A d \in Documents :
     Passes(Discovered(Parsed(d), d.choice).checks) =>
        Planned(Discovered(Parsed(d), d.choice).value, d.choice.policy)
(* The plan Longer lists.                                                *)
<1>LongTuples.
  ASSUME NEW a, NEW b, NEW c, NEW d, NEW e, NEW f, NEW g, NEW h,
         NEW i, NEW j, NEW k, NEW l, NEW m, NEW n, NEW o, NEW p
  PROVE  /\ IsSeq(<<a, b, c, d, e, f>>)
         /\ IsSeq(<<a, b, c, d, e, f, g, h>>)
         /\ IsSeq(<<a, b, c, d, e, f, g, h, i, j, k, l, m, n, o, p>>)
  <2>. USE <1>LongTuples
  <2>1. <<a, b, c, d, e, f>> \in Seq({a, b, c, d, e, f})
    BY SMTT(60)
  <2>2. <<a, b, c, d, e, f, g, h>> \in Seq({a, b, c, d, e, f, g, h})
    BY SMTT(60)
  <2>3. <<a, b, c, d, e, f, g, h, i, j, k, l, m, n, o, p>> \in
          Seq({a, b, c, d, e, f, g, h, i, j, k, l, m, n, o, p})
    BY SMTT(60)
  <2>. QED
    BY <2>1, <2>2, <2>3 DEF IsSeq
(* A function over the first numbers is a sequence.                      *)
<1>Numbered.
  ASSUME NEW n \in Nat, NEW f, f = [k \in 1 .. n |-> f[k]]
  PROVE  f \in Seq(Range(f)) /\ Len(f) = n /\ IsSeq(f)
  <2>. USE <1>Numbered
  <2>1. f \in [1 .. n -> Range(f)]
    BY DEF Range
  <2>2. f \in Seq(Range(f)) /\ Len(f) = n
    BY <2>1, SMTT(60)
  <2>. QED
    BY <2>2 DEF IsSeq
(* The checks of select_authorization_server are a sequence, however     *)
(* many servers there are.                                               *)
<1>ServerChecks.
  ASSUME NEW offer, NEW issuer, NEW servers, NEW scope, Len(servers) \in Nat
  PROVE  IsSeq(SelectAuthorizationServer(offer, issuer, servers, scope).checks)
  <2>. USE <1>ServerChecks
  <2>. DEFINE n == 2 * Len(servers)
              advertised == Range(issuer.servers)
              many == Len(issuer.servers) > 1
              auto == many /\ offer.server = None
              complete == /\ Len(servers) = Len(issuer.servers)
                          /\ advertised \subseteq {servers[i].issuer : i \in DOMAIN servers}
              candidates == Candidates(servers, scope)
              target == IF offer.server # None THEN offer.server
                        ELSE IF ~many THEN issuer.servers[1]
                        ELSE IF candidates = {} THEN None
                        ELSE servers[Min(candidates)].issuer
              named == {i \in DOMAIN servers : servers[i].issuer = target}
              Repeats(i) == \E j \in 1..(i - 1) : servers[j].issuer = servers[i].issuer
              OfServer(i, first) ==
                 IF first
                 THEN Require(servers[i].issuer \in advertised, "AuthorizationServerNotAdvertised")
                 ELSE Require(~Repeats(i), "AmbiguousAuthorizationServer")
              a == Require(offer.issuer = issuer.issuer, "OfferIssuerMismatch")
              b == Require(AuthorizationCodeEligible(offer), "AuthorizationCodeRequired")
              each == [k \in 1 .. n |-> OfServer((k + 1) \div 2, k % 2 = 1)]
              c1 == Require(offer.server = None \/ many, "AuthorizationServerHintNotAllowed")
              c2 == Require(offer.server = None \/ offer.server \in advertised,
                            "AuthorizationServerHintMismatch")
              c3 == Require(auto => complete, "AuthorizationServerMetadataMissing")
              c4 == Require(auto => Cardinality(candidates) = 1, "AmbiguousAuthorizationServer")
              c5 == Require(named # {}, "AuthorizationServerMetadataMissing")
              c6 == Require(\A i \in named : AuthorizationServerSupportsScope(servers[i], scope),
                            "ScopeUnsupportedByAuthorizationServer")
              all == <<a, b>> \o each \o <<c1, c2, c3, c4, c5, c6>>
              value == IF named = {} THEN None ELSE servers[Min(named)]
  <2>1. SelectAuthorizationServer(offer, issuer, servers, scope) =
          [checks |-> all, value |-> value]
    BY DEF SelectAuthorizationServer
  <2>2. n \in Nat
    BY SMTT(60)
  <2>3. each = [k \in 1 .. n |-> each[k]]
    OBVIOUS
  <2>. HIDE DEF a, b, each, c1, c2, c3, c4, c5, c6, value
  <2>. HIDE DEF all
  <2>4. SelectAuthorizationServer(offer, issuer, servers, scope).checks = all
    BY <2>1, SMTT(30)
  <2>5. IsSeq(each)
    <3>. HIDE DEF n
    <3>. QED
      BY <2>2, <2>3, <1>Numbered
  <2>6. IsSeq(<<a, b>>) /\ IsSeq(<<c1, c2, c3, c4, c5, c6>>)
    BY NameTuples, <1>LongTuples
  <2>7. IsSeq(<<a, b>> \o each)
    BY <2>5, <2>6, Concatenated
  <2>8. IsSeq(all)
    BY <2>6, <2>7, Concatenated DEF all
  <2>. QED
    BY <2>4, <2>8
(* select_german_first_enrolment accepts only the two PID formats.       *)
<1>GermanPlan.
  ASSUME NEW offer, NEW issuer, NEW servers, NEW id, Len(servers) \in Nat,
         Passes(SelectGermanFirstEnrolment(offer, issuer, servers, id).checks)
  PROVE  Planned(SelectGermanFirstEnrolment(offer, issuer, servers, id).value, None)
  <2>. USE <1>GermanPlan
  <2>. DEFINE configuration == ConfigurationOf(issuer, id)
              choice == SelectAuthorizationServer(offer, issuer, servers, configuration.scope)
              server == choice.value
              proofs == configuration.proofs
              jwt == proofs # None /\ proofs.jwt
              attested == jwt /\ proofs.attestation # None
              a1 == Require(AuthorizationCodeEligible(offer), "AuthorizationCodeRequired")
              a2 == Require(offer.issuer = issuer.issuer, "OfferIssuerMismatch")
              a3 == Require(id \in offer.ids, "ConfigurationNotOffered")
              a4 == Require(id \in DOMAIN issuer.configurations, "ConfigurationUnknown")
              a5 == Require(~issuer.request_encryption_required,
                            "CredentialRequestEncryptionRequired")
              a6 == Require(~issuer.response_encryption_required,
                            "CredentialResponseEncryptionRequired")
              a7 == Require(issuer.nonce_endpoint, "NonceEndpointMissing")
              a8 == Require(configuration.scope # None, "ScopeMissing")
              a9 == Require(configuration.bindings # None, "BindingMethodMissing")
              a10 == Require(configuration.algorithms # None, "CredentialSigningAlgorithmMissing")
              a11 == Require(jwt, "JwtProofMissing")
              a12 == Require(jwt => "ES256" \in proofs.algorithms, "ProofAlgorithmMissing")
              a13 == Require(jwt => proofs.algorithms \cap CoseAlgorithms = {},
                             "MixedAlgorithmIdentifiers")
              a14 == Require(attested, "KeyAttestationMissing")
              a15 == Require(attested => "high_storage" \in proofs.attestation,
                             "HighKeyStorageMissing")
              a16 == Require(attested => "high_user_authentication" \in proofs.attestation,
                             "HighUserAuthenticationMissing")
              a == <<a1, a2, a3, a4, a5, a6, a7, a8, a9, a10, a11, a12, a13, a14, a15, a16>>
              p == PidFormatChecks(configuration)
              c == choice.checks
              d1 == Require(Has(server, "authorization_code"), "AuthorizationCodeUnsupported")
              d2 == Require(Has(server, "response_type_code"), "ResponseTypeCodeUnsupported")
              d3 == Require(Has(server, "authorization_endpoint"), "AuthorizationEndpointMissing")
              d4 == Require(Has(server, "token_endpoint"), "TokenEndpointMissing")
              d5 == Require(Has(server, "par_endpoint"), "ParUnsupported")
              d6 == Require(Has(server, "pkce_s256"), "PkceS256Unsupported")
              d7 == Require(Has(server, "dpop_es256"), "DpopEs256Unsupported")
              d8 == Require(Has(server, "response_issuer"),
                            "AuthorizationResponseIssuerUnsupported")
              d == <<d1, d2, d3, d4, d5, d6, d7, d8>>
              all == a \o p \o c \o d
              value == PlanOf(offer, issuer, server, id, PidFormat(configuration), PidVct)
              r == SelectGermanFirstEnrolment(offer, issuer, servers, id)
  <2>1. r = [checks |-> all, value |-> value]
    BY DEF SelectGermanFirstEnrolment
  <2>2. IsSeq(c)
    BY <1>ServerChecks
  <2>. HIDE DEF a1, a2, a3, a4, a5, a6, a7, a8, a9, a10, a11, a12, a13, a14, a15, a16
  <2>3. IsSeq(a)
    BY <1>LongTuples
  <2>. HIDE DEF a, d1, d2, d3, d4, d5, d6, d7, d8
  <2>4. IsSeq(d)
    BY <1>LongTuples
  <2>. HIDE DEF c, d, choice, server, configuration
  <2>5. IsSeq(p) /\ (Passing(p) => PidFormat(configuration) # None)
    <3>. DEFINE mdoc == PidFormat(configuration) = "MsoMdoc"
                alien == IF mdoc THEN JoseAlgorithms ELSE CoseAlgorithms
                known == PidFormat(configuration) # None
                p1 == Require(known, "UnsupportedPidConfiguration")
                p2 == Require(Lists(configuration.bindings, IF mdoc THEN "cose_key" ELSE "jwk"),
                              "BindingMethodMissing")
                p3 == Require(\A x \in alien : ~Lists(configuration.algorithms, x),
                              "MixedAlgorithmIdentifiers")
                p4 == Require(Lists(configuration.algorithms, IF mdoc THEN "Cose-7" ELSE "ES256"),
                              "CredentialSigningAlgorithmMissing")
    <3>1. p = <<p1, p2, p3, p4>>
      BY DEF PidFormatChecks
    <3>2. p1.holds = known
      BY DEF Require
    <3>. HIDE DEF p1, p2, p3, p4, p
    <3>3. IsSeq(p)
      BY <3>1, NameTuples
    <3>4. 1 \in DOMAIN p /\ p[1] = p1
      BY <3>1, SMTT(30)
    <3>5. Passing(p) => p1.holds
      BY <3>4 DEF Passing
    <3>. QED
      BY <3>2, <3>3, <3>5
  <2>. HIDE DEF p
  <2>6. IsSeq(all) /\ (Passing(all) => Passing(p))
    <3>1. IsSeq(a \o p) /\ (Passing(a \o p) => Passing(p))
      BY <2>3, <2>5, Concatenated
    <3>2. IsSeq(a \o p \o c) /\ (Passing(a \o p \o c) => Passing(a \o p))
      BY <2>2, <3>1, Concatenated
    <3>3. IsSeq(a \o p \o c \o d) /\ (Passing(a \o p \o c \o d) => Passing(a \o p \o c))
      BY <2>4, <3>2, Concatenated
    <3>. QED
      BY <3>1, <3>2, <3>3
  <2>7. value.format = PidFormat(configuration)
    BY DEF PlanOf
  <2>. HIDE DEF all, value
  <2>8. r.checks = all /\ r.value = value
    <3>. HIDE DEF r
    <3>. QED
      BY <2>1
  <2>9. PidFormat(configuration) # None
    BY <2>5, <2>6, <2>8, Verdicts
  <2>10. PidFormat(configuration) \in {"MsoMdoc", "DcSdJwt"}
    BY <2>9 DEF PidFormat
  <2>. QED
    BY <2>7, <2>8, <2>10 DEF Planned
(* select_policy_registered_sd_jwt makes a plan for the type of the      *)
(* policy.                                                               *)
<1>PolicyPlan.
  ASSUME NEW offer, NEW issuer, NEW servers, NEW policy
  PROVE  Planned(SelectPolicyRegisteredSdJwt(offer, issuer, servers, policy).value, policy)
  <2>. USE <1>PolicyPlan
  <2>. DEFINE configuration == ConfigurationOf(issuer, policy.id)
              choice == SelectAuthorizationServer(offer, issuer, servers, configuration.scope)
              value == PlanOf(offer, issuer, choice.value, policy.id, "DcSdJwt", policy.vct)
              r == SelectPolicyRegisteredSdJwt(offer, issuer, servers, policy)
  <2>1. r.value = value
    BY DEF SelectPolicyRegisteredSdJwt
  <2>2. value.format = "DcSdJwt" /\ value.vct = policy.vct
    BY DEF PlanOf
  <2>. HIDE DEF r, value
  <2>3. Planned(value, policy)
    BY <2>2 DEF Planned
  <2>. QED
    BY <2>1, <2>3 DEF r
(* Documents that pass lead to a plan the wallet can carry out.          *)
<1>Plan.
  ASSUME NEW d \in Documents, Passes(Discovered(Parsed(d), d.choice).checks)
  PROVE  Planned(Discovered(Parsed(d), d.choice).value, d.choice.policy)
  <2>. USE <1>Plan
  <2>. DEFINE parsed == Parsed(d)
              servers == parsed.servers
              metadata == [i \in DOMAIN d.servers |->
                             ParseAuthorizationServerMetadata(d.servers[i], d.expected[i])]
              offer == parsed.offer
              issuer == parsed.issuer
              selected == Discovered(parsed, d.choice)
  <2>1. servers = [i \in DOMAIN metadata |-> metadata[i].value]
    BY DEF Parsed, Gathered
  <2>2. DOMAIN metadata = DOMAIN d.servers
    OBVIOUS
  <2>3. PICK n \in Nat : DOMAIN d.servers = 1 .. n
    BY DocumentsAssumption, SMTT(60)
  <2>. HIDE DEF metadata, parsed
  <2>4. servers = [i \in 1 .. n |-> metadata[i].value]
    BY <2>1, <2>2, <2>3
  <2>5. Len(servers) \in Nat
    <3>. HIDE DEF servers
    <3>1. servers = [i \in 1 .. n |-> servers[i]]
      BY <2>4
    <3>. QED
      BY <3>1, <1>Numbered, SMTT(30)
  <2>. HIDE DEF servers, offer, issuer
  <2>6. Passes(parsed.checks) /\ selected = Selection(parsed, d.choice)
    <3>1. Passes(selected.checks)
      BY DEF parsed
    <3>2. selected = IF Passes(parsed.checks) THEN Selection(parsed, d.choice) ELSE parsed
      BY DEF Discovered
    <3>. HIDE DEF selected
    <3>. QED
      BY <3>1, <3>2
  <2>7. Passes(selected.checks)
    BY DEF parsed
  <2>8. CASE d.choice.policy = None
    <3>. DEFINE r == SelectGermanFirstEnrolment(offer, issuer, servers, d.choice.id)
    <3>1. selected = r
      BY <2>6, <2>8 DEF Selection, offer, issuer, servers
    <3>2. Planned(r.value, None)
      <4>. HIDE DEF selected
      <4>1. Passes(r.checks)
        BY <2>7, <3>1
      <4>. QED
        BY <2>5, <4>1, <1>GermanPlan
    <3>. HIDE DEF r
    <3>. QED
      BY <2>8, <3>1, <3>2 DEF parsed
  <2>9. CASE d.choice.policy # None
    <3>. DEFINE r == SelectPolicyRegisteredSdJwt(offer, issuer, servers, d.choice.policy)
    <3>1. selected = r
      BY <2>6, <2>9 DEF Selection, offer, issuer, servers
    <3>2. Planned(r.value, d.choice.policy)
      BY <1>PolicyPlan
    <3>. HIDE DEF r
    <3>. QED
      BY <3>1, <3>2 DEF parsed
  <2>. QED
    BY <2>8, <2>9
<1>. QED
  BY <1>Plan

(* The invariant holds before an enrolment.                                *)
LEMMA InitHolds == Init => IInv
<1>. SUFFICES ASSUME Init PROVE IInv
  OBVIOUS
<1>1. phase = "discover" /\ docs \in Documents /\ held = Earlier
  BY DEF Init
<1>2. held \in Seq(Range(held)) /\ Distinct(held)
  BY <1>1, EarlierAssumption DEF Distinct
<1>. QED
  BY <1>1, <1>2 DEF IInv

(* Every input of the authorization is a step of its flow,                 *)
LEMMA AuthAnswered ==
  ASSUME AnswerAuthorization \/ DisturbAuthorization
  PROVE  phase = "authorize" /\ AuthStepped
  BY DEF AnswerAuthorization, DisturbAuthorization, AuthStepped

(* and every input of the credential flow a step of that one.              *)
LEMMA CredAnswered ==
  ASSUME AnswerCredential \/ Poll \/ DisturbCredential
  PROVE  phase = "obtain" /\ CredStepped
  BY DEF AnswerCredential, Poll, DisturbCredential, CredStepped

(* What the application takes over from a step.                            *)
LEMMA SteppedTo ==
  ASSUME NEW r, NEW sound, Stepped(r, sound)
  PROVE  /\ flow' = r.flow /\ sent' = After(r, sent)
         /\ ~sound /\ r.error = "RandomnessFailure" => faulty'
         /\ phase' = phase /\ docs' = docs /\ plan' = plan /\ held' = held /\ Seen' = Seen
<1>1. flow' = r.flow /\ sent' = After(r, sent)
  BY DEF Stepped, After, Over
<1>2. ~sound /\ r.error = "RandomnessFailure" => faulty'
  BY DEF Stepped
<1>3. phase' = phase /\ docs' = docs /\ plan' = plan /\ held' = held
  BY DEF Stepped
<1>4. Seen' = Seen
  BY <1>3 DEF Seen
<1>. QED
  BY <1>1, <1>2, <1>3, <1>4

(* So every step keeps it.                                                 *)
LEMMA NextHolds ==
  ASSUME FiniteFacts
  PROVE  IInv /\ [Next]_vars => IInv'
(* The steps keep the invariant: those of the authorization,             *)
<1>AuthStepHolds.
  ASSUME IInv, phase = "authorize", AuthStepped
  PROVE  IInv'
  <2>. USE <1>AuthStepHolds
  <2>1. PICK in, sound : Stepped(AuthStep(flow, in, now, sound), sound)
    BY DEF AuthStepped
  <2>. DEFINE r == AuthStep(flow, in, now, sound)
  <2>2. AuthInv(flow, sent)
    BY DEF IInv
  <2>3. AuthGood(flow, sent, r, sound)
    BY <2>2, AuthStepKeeps
  <2>. HIDE DEF r
  <2>4. /\ flow' = r.flow /\ sent' = After(r, sent)
        /\ phase' = phase /\ docs' = docs /\ plan' = plan /\ held' = held
    BY <2>1, SteppedTo DEF r
  <2>5. AuthInv(flow', sent')
    BY <2>3, <2>4 DEF AuthGood
  <2>. QED
    BY <2>4, <2>5 DEF IInv
(* those of the credential flow,                                         *)
<1>CredStepHolds.
  ASSUME IInv, phase = "obtain", CredStepped
  PROVE  IInv'
  <2>. USE <1>CredStepHolds
  <2>1. PICK in, sound : Stepped(CredStep(flow, in, now, Seen, sound), sound)
    BY DEF CredStepped
  <2>. DEFINE r == CredStep(flow, in, now, Seen, sound)
  <2>2. CredInv(flow, sent, Seen) /\ ConfigOf(flow.config, plan)
    BY DEF IInv
  <2>3. CredKept(flow, sent, Seen, r, now, sound)
    BY <2>2, CredStepKeeps
  <2>. HIDE DEF r
  <2>4. /\ flow' = r.flow /\ sent' = After(r, sent)
        /\ phase' = phase /\ docs' = docs /\ plan' = plan /\ held' = held /\ Seen' = Seen
    BY <2>1, SteppedTo DEF r
  <2>5. CredInv(flow', sent', Seen') /\ ConfigOf(flow'.config, plan')
    <3>1. CredInv(r.flow, After(r, sent), Seen) /\ r.flow.config = flow.config
      BY <2>3 DEF CredKept
    <3>2. CredInv(flow', sent', Seen')
      BY <2>4, <3>1
    <3>3. ConfigOf(flow'.config, plan')
      BY <2>2, <2>4, <3>1
    <3>. QED
      BY <3>2, <3>3
  <2>. QED
    BY <2>4, <2>5 DEF IInv
(* the choice of a plan and the begin of the authorization,              *)
<1>BeginAuthorizationHolds.
  ASSUME IInv, NEW sound, BeginAuthorization(sound)
  PROVE  IInv'
  <2>. USE <1>BeginAuthorizationHolds
  <2>. DEFINE parsed == Parsed(docs)
              selected == Discovered(parsed, docs.choice)
              config == AuthConfig(parsed.offer, selected.value, docs.choice)
              begun == AuthBegin(selected.value, now, sound)
  <2>1. phase = "discover" /\ docs \in Documents /\ held' = held
    BY DEF BeginAuthorization, IInv
  <2>2. IF Passes(selected.checks)
        THEN BeginWith(Passes(config), begun, selected.value)
        ELSE phase' = "over" /\ UNCHANGED <<plan, flow, sent>>
    BY DEF BeginAuthorization
  <2>3. Passes(selected.checks) => Planned(selected.value, docs.choice.policy)
    BY <2>1, DiscoveredPlan
  <2>4. begun.error = None => AuthInv(begun.flow, RequestsIn(begun.effects))
    BY AuthBegins
  <2>. HIDE DEF selected, config, begun
  <2>5. CASE phase' = "over"
    BY <2>1, <2>5 DEF IInv
  <2>6. CASE phase' # "over"
    <3>1. /\ Passes(selected.checks) /\ begun.error = None /\ phase' = "authorize"
          /\ plan' = [chosen |-> selected.value, policy |-> docs.choice.policy]
          /\ flow' = begun.flow /\ sent' = RequestsIn(begun.effects)
      BY <2>2, <2>6 DEF BeginWith
    <3>2. plan'.chosen = selected.value /\ plan'.policy = docs.choice.policy
      BY <3>1
    <3>3. Planned(plan'.chosen, plan'.policy)
      BY <2>3, <3>1, <3>2
    <3>4. AuthInv(flow', sent')
      BY <2>4, <3>1
    <3>. QED
      BY <2>1, <3>1, <3>3, <3>4 DEF IInv
  <2>. QED
    BY <2>5, <2>6
(* (the configuration of the credential flow is taken from the plan)     *)
<1>ConfigsOf.
  ASSUME NEW grant, NEW chosen, NEW selection
  PROVE  LET c == FromAuthorization(grant, chosen, selection).value
             d == FromGenericAuthorization(grant, chosen, selection).value
         IN  /\ c.format = chosen.format /\ c.issuer = chosen.issuer /\ c.vct = PidVct
             /\ d.format = chosen.format /\ d.issuer = chosen.issuer /\ d.vct = chosen.vct
  <2>. USE <1>ConfigsOf
  <2>. DEFINE config == FromAuthorization(grant, chosen, selection)
              c == config.value
              d == FromGenericAuthorization(grant, chosen, selection).value
  <2>1. c.format = chosen.format /\ c.issuer = chosen.issuer /\ c.vct = PidVct
    BY DEF FromAuthorization
  <2>2. /\ "value" \in DOMAIN config
        /\ {"format", "issuer", "vct"} \subseteq DOMAIN c
    BY DEF FromAuthorization
  <2>3. FromGenericAuthorization(grant, chosen, selection) =
          [config EXCEPT !.value = [c EXCEPT !.vct = chosen.vct]]
    BY DEF FromGenericAuthorization
  <2>. HIDE DEF config
  <2>4. d = [c EXCEPT !.vct = chosen.vct]
    BY <2>2, <2>3
  <2>. HIDE DEF c, d
  <2>5. d.format = c.format /\ d.issuer = c.issuer /\ d.vct = chosen.vct
    BY <2>2, <2>4
  <2>. QED
    BY <2>1, <2>5 DEF c, d, config
(* the begin of the credential flow,                                     *)
<1>BeginCredentialHolds.
  ASSUME IInv, NEW selection, NEW sound, BeginCredential(selection, sound)
  PROVE  IInv'
  <2>. USE <1>BeginCredentialHolds
  <2>. DEFINE config == IF plan.policy = None
                        THEN FromAuthorization(flow.grant, plan.chosen, selection)
                        ELSE FromGenericAuthorization(flow.grant, plan.chosen, selection)
              begun == CredBegin(config.value, now, sound)
  <2>1. phase = "authorize" /\ held' = held /\ plan' = plan
    BY DEF BeginCredential
  <2>2. \/ phase' = "over"
        \/ /\ begun.error = None /\ phase' = "obtain"
           /\ flow' = begun.flow /\ sent' = RequestsIn(begun.effects)
    BY DEF BeginCredential
  <2>3. Planned(plan.chosen, plan.policy)
    BY <2>1 DEF IInv
  <2>4. ConfigOf(config.value, plan)
    <3>1. CASE plan.policy = None
      <4>1. config = FromAuthorization(flow.grant, plan.chosen, selection)
        BY <3>1
      <4>. HIDE DEF config
      <4>. QED
        BY <3>1, <4>1, <1>ConfigsOf, SMTT(30) DEF ConfigOf
    <3>2. CASE plan.policy # None
      <4>1. config = FromGenericAuthorization(flow.grant, plan.chosen, selection)
        BY <3>2
      <4>. HIDE DEF config
      <4>2. plan.chosen.vct = plan.policy.vct
        BY <2>3, <3>2 DEF Planned
      <4>. QED
        BY <3>2, <4>1, <4>2, <1>ConfigsOf, SMTT(30) DEF ConfigOf
    <3>. QED
      BY <3>1, <3>2
  <2>. HIDE DEF config
  <2>5. begun.error = None => /\ CredInv(begun.flow, RequestsIn(begun.effects), Seen)
                              /\ begun.flow.config = config.value
    BY CredBegins, SMTT(30)
  <2>. HIDE DEF begun
  <2>6. Seen' = Seen
    BY <2>1 DEF Seen
  <2>7. CASE phase' = "over"
    BY <2>1, <2>7 DEF IInv
  <2>8. CASE phase' # "over"
    <3>1. /\ begun.error = None /\ phase' = "obtain"
          /\ flow' = begun.flow /\ sent' = RequestsIn(begun.effects)
      BY <2>2, <2>8
    <3>2. CredInv(flow', sent', Seen')
      BY <2>5, <2>6, <3>1
    <3>3. ConfigOf(flow'.config, plan')
      BY <2>1, <2>4, <2>5, <3>1
    <3>. QED
      BY <2>1, <2>3, <3>1, <3>2, <3>3 DEF IInv
  <2>. QED
    BY <2>7, <2>8
(* the ingestion of the credential, whose c_nonce is new,                *)
<1>IngestHolds.
  ASSUME IInv, Ingest
  PROVE  IInv'
  <2>. USE <1>IngestHolds
  <2>1. phase = "obtain" /\ phase' = "over"
    BY DEF Ingest
  <2>2. held \in Seq(Range(held)) /\ Distinct(held)
    BY DEF IInv
  <2>3. held' \in Seq(Range(held')) /\ Distinct(held')
    <3>1. CASE held' = held
      BY <2>2, <3>1
    <3>2. CASE held' # held
      <4>1. flow.stage = "Complete" /\ held' = Append(held, flow.issued)
        BY <3>2 DEF Ingest, IntoCredential
      <4>2. flow.issued.c_nonce \notin Seen
        BY <2>1, <4>1 DEF IInv, CredInv, Issued
      <4>3. held' = held \o <<flow.issued>>
        BY <2>2, <4>1, SMTT(60)
      <4>. DEFINE e == flow.issued
                  t == held \o <<e>>
      <4>. HIDE DEF e
      <4>4. Extends(t, held, e)
        BY <2>2, Extended
      <4>5. \A i \in DOMAIN held : held[i].c_nonce # e.c_nonce
        BY <4>2 DEF Seen, e
      <4>. HIDE DEF t
      <4>6. Distinct(t)
        <5>. SUFFICES ASSUME NEW i \in DOMAIN t, NEW j \in DOMAIN t, i # j
                      PROVE  t[i].c_nonce # t[j].c_nonce
          BY DEF Distinct
        <5>1. CASE i \in DOMAIN held /\ j \in DOMAIN held
          BY <2>2, <4>4, <5>1 DEF Extends, Distinct
        <5>2. CASE i \in DOMAIN held /\ j \notin DOMAIN held
          BY <4>4, <4>5, <5>2 DEF Extends
        <5>3. CASE i \notin DOMAIN held /\ j \in DOMAIN held
          BY <4>4, <4>5, <5>3 DEF Extends
        <5>4. CASE i \notin DOMAIN held /\ j \notin DOMAIN held
          BY <4>4, <5>4 DEF Extends
        <5>. QED
          BY <5>1, <5>2, <5>3, <5>4
      <4>7. t \in Seq(Range(t)) /\ held' = t
        BY <4>3, <4>4 DEF Extends, t, e
      <4>. QED
        BY <4>6, <4>7
    <3>. QED
      BY <3>1, <3>2
  <2>. QED
    BY <2>1, <2>3 DEF IInv
(* and what only concerns the clock.                                     *)
<1>UnchangedHolds.
  ASSUME IInv, UNCHANGED <<phase, docs, plan, flow, sent, held>>
  PROVE  IInv'
  <2>. USE <1>UnchangedHolds
  <2>1. /\ phase' = phase /\ docs' = docs /\ plan' = plan /\ flow' = flow /\ sent' = sent
        /\ held' = held
    OBVIOUS
  <2>2. Seen' = Seen
    BY <2>1 DEF Seen
  <2>. QED
    BY <2>1, <2>2 DEF IInv
(* So every step keeps it.                                               *)
<1>Holds. IInv /\ [Next]_vars => IInv'
  <2>. SUFFICES ASSUME IInv, [Next]_vars PROVE IInv'
    OBVIOUS
  <2>1. ASSUME NEW sound, BeginAuthorization(sound) PROVE IInv'
    BY <2>1, <1>BeginAuthorizationHolds
  <2>2. CASE AnswerAuthorization \/ DisturbAuthorization
    BY <2>2, AuthAnswered, <1>AuthStepHolds
  <2>3. ASSUME NEW selection, NEW sound, BeginCredential(selection, sound) PROVE IInv'
    BY <2>3, <1>BeginCredentialHolds
  <2>4. CASE AnswerCredential \/ Poll \/ DisturbCredential
    BY <2>4, CredAnswered, <1>CredStepHolds
  <2>5. CASE Ingest
    BY <2>5, <1>IngestHolds
  <2>6. CASE Tick
    BY <2>6, <1>UnchangedHolds DEF Tick
  <2>7. CASE SetBack
    BY <2>7, <1>UnchangedHolds DEF SetBack
  <2>8. CASE UNCHANGED vars
    BY <2>8, <1>UnchangedHolds DEF vars
  <2>. QED
    BY <2>1, <2>2, <2>3, <2>4, <2>5, <2>6, <2>7, <2>8 DEF Next
<1>. QED
  BY <1>Holds

(* The invariant says that nothing is repeated that must be fresh.         *)
LEMMA Fresh == FiniteFacts /\ IInv => RetriesRepeatNothing
<1>. SUFFICES ASSUME FiniteFacts, IInv PROVE TokenRetriesAreFresh /\ RequestsKeepTheirTerms
  BY DEF RetriesRepeatNothing
<1>0. \A kind : Of(kind) = OfKind(sent, kind)
  BY DEF Of, OfKind
<1>1. ASSUME phase \in {"authorize", "obtain"}, flow.stage \in Over PROVE sent = <<>>
  BY <1>1 DEF IInv, AuthInv, CredInv
<1>2. DOMAIN <<>> = {} /\ Cardinality({}) = 0
  <2>1. DOMAIN <<>> = {}
    BY SMTT(60)
  <2>. QED
    BY <2>1, NoneCounted
<1>3. TokenRetriesAreFresh
  <2>. SUFFICES ASSUME phase = "authorize"
                PROVE  /\ Cardinality(Tokens(sent)) <= 1 + MaxDpopNonceRetries
                       /\ \A i, j \in Tokens(sent) : i # j => sent[i].nonce # sent[j].nonce
                       /\ \A i, j \in Tokens(sent) : sent[i].code = sent[j].code
                       /\ \A i, j \in DOMAIN sent : i # j => sent[i].pop # sent[j].pop
    BY <1>0 DEF TokenRetriesAreFresh, Tokens
  <2>1. CASE flow.stage \in Over
    <3>1. DOMAIN sent = {} /\ Tokens(sent) = {}
      BY <1>1, <1>2, <2>1 DEF Tokens, OfKind
    <3>2. Cardinality(Tokens(sent)) = 0
      BY <1>2, <3>1
    <3>3. Cardinality(Tokens(sent)) <= 1 + MaxDpopNonceRetries
      BY <3>2, SMTT(60) DEF MaxDpopNonceRetries
    <3>. QED
      BY <3>1, <3>3
  <2>2. CASE flow.stage \notin Over
    <3>1. AuthRunning(flow) /\ PopsFresh(flow, sent) /\ TokensFresh(flow, sent)
      BY <2>2 DEF IInv, AuthInv
    <3>2. Cardinality(Tokens(sent)) <= 1 + MaxDpopNonceRetries
      <4>1. Cardinality(Tokens(sent)) = TokenCount(flow) /\ flow.retry \in 0 .. 2
        BY <3>1 DEF TokensFresh, AuthRunning
      <4>2. TokenCount(flow) <= 3
        BY <4>1, SMTT(60) DEF TokenCount
      <4>. QED
        BY <4>1, <4>2, SMTT(60) DEF MaxDpopNonceRetries
    <3>3. /\ \A i, j \in Tokens(sent) : i # j => sent[i].nonce # sent[j].nonce
          /\ \A i, j \in Tokens(sent) : sent[i].code = sent[j].code
      BY <3>1 DEF TokensFresh, TokenTerms
    <3>4. \A i, j \in DOMAIN sent : i # j => sent[i].pop # sent[j].pop
      BY <3>1 DEF PopsFresh, PopsUsed
    <3>. QED
      BY <3>2, <3>3, <3>4
  <2>. QED
    BY <2>1, <2>2
<1>4. RequestsKeepTheirTerms
  <2>. SUFFICES ASSUME phase = "obtain"
                PROVE  /\ Cardinality(Firsts(sent)) <= 1 + MaxResourceDpopNonceRetries
                       /\ \A i, j \in Firsts(sent) :
                             /\ sent[i].c_nonce = sent[j].c_nonce /\ sent[i].c_nonce \notin Seen
                             /\ sent[i].target = sent[j].target
                             /\ i # j => sent[i].nonce # sent[j].nonce
                       /\ \A i, j \in Polls(sent) : sent[i].transaction = sent[j].transaction
                       /\ \A i, j, k \in DOMAIN sent :
                             i < j /\ j < k /\ sent[i].nonce = sent[k].nonce
                             => sent[j].nonce = sent[k].nonce
    BY <1>0 DEF RequestsKeepTheirTerms, Firsts, Polls
  <2>1. CASE flow.stage \in Over
    <3>1. DOMAIN sent = {} /\ Firsts(sent) = {} /\ Polls(sent) = {}
      BY <1>1, <1>2, <2>1 DEF Firsts, Polls, OfKind
    <3>2. Cardinality(Firsts(sent)) = 0
      BY <1>2, <3>1
    <3>3. Cardinality(Firsts(sent)) <= 1 + MaxResourceDpopNonceRetries
      BY <3>2, SMTT(60) DEF MaxResourceDpopNonceRetries
    <3>. QED
      BY <3>1, <3>3
  <2>2. CASE flow.stage \notin Over
    <3>1. CredSent(flow, sent, Seen)
      BY <2>2 DEF IInv, CredInv
    <3>2. Cardinality(Firsts(sent)) <= 2
      BY <3>1 DEF CredSent
    <3>3. Cardinality(Firsts(sent)) <= 1 + MaxResourceDpopNonceRetries
      BY <3>2, SMTT(60) DEF MaxResourceDpopNonceRetries
    <3>4. Firsts(sent) # {} => flow.c_nonce \notin Seen
      BY <3>1 DEF CredSent, Early
    <3>5. /\ FirstTerms(sent, flow.c_nonce, flow.config.target) /\ FirstsDiffer(sent)
          /\ PollTerms(sent, flow.transaction) /\ Runs(sent)
      BY <3>1 DEF CredSent, InOrder
    <3>6. \A i, j \in Firsts(sent) :
             /\ sent[i].c_nonce = sent[j].c_nonce /\ sent[i].c_nonce \notin Seen
             /\ sent[i].target = sent[j].target
             /\ i # j => sent[i].nonce # sent[j].nonce
      BY <3>4, <3>5 DEF FirstTerms, FirstsDiffer
    <3>7. \A i, j \in Polls(sent) : sent[i].transaction = sent[j].transaction
      BY <3>5 DEF PollTerms
    <3>. QED
      BY <3>3, <3>5, <3>6, <3>7 DEF Runs
  <2>. QED
    BY <2>1, <2>2
<1>. QED
  BY <1>3, <1>4

(* The invariant says that a credential is the one that was planned.       *)
LEMMA Matching == IInv => CredentialMatchesPlan
<1>. SUFFICES ASSUME IInv PROVE CredentialMatchesPlan
  OBVIOUS
<1>1. \A i, j \in DOMAIN held : i # j => held[i].c_nonce # held[j].c_nonce
  BY DEF IInv, Distinct
<1>2. ASSUME phase = "obtain", flow.stage = "Complete"
      PROVE  /\ flow.issued.format = plan.chosen.format
             /\ flow.issued.type = CASE plan.chosen.format = "MsoMdoc" -> PidDoctype
                                    [] plan.policy # None -> plan.policy.vct
                                    [] OTHER -> PidVct
             /\ flow.issued.format = "DcSdJwt" => flow.issued.issuer = plan.chosen.issuer
  <2>1. /\ Planned(plan.chosen, plan.policy) /\ ConfigOf(flow.config, plan)
        /\ Issued(flow, Seen)
    BY <1>2 DEF IInv, CredInv
  <2>2. CASE plan.chosen.format = "MsoMdoc"
    <3>1. plan.policy = None /\ flow.config.format = "MsoMdoc"
      BY <2>1, <2>2 DEF Planned, ConfigOf
    <3>2. flow.issued.format = "MsoMdoc" /\ flow.issued.type = PidDoctype
      BY <2>1, <3>1 DEF Issued
    <3>. QED
      BY <2>2, <3>1, <3>2
  <2>3. CASE plan.chosen.format # "MsoMdoc"
    <3>1. plan.chosen.format = "DcSdJwt" /\ flow.config.format # "MsoMdoc"
      BY <2>1, <2>3 DEF Planned, ConfigOf
    <3>2. /\ flow.issued.format = "DcSdJwt" /\ flow.issued.type = flow.config.vct
          /\ flow.issued.issuer = flow.config.issuer
      BY <2>1, <3>1 DEF Issued
    <3>3. /\ flow.config.issuer = plan.chosen.issuer
          /\ flow.config.vct = IF plan.policy = None THEN PidVct ELSE plan.policy.vct
      BY <2>1 DEF ConfigOf
    <3>4. flow.issued.type = CASE plan.chosen.format = "MsoMdoc" -> PidDoctype
                               [] plan.policy # None -> plan.policy.vct
                               [] OTHER -> PidVct
      BY <2>3, <3>2, <3>3
    <3>. QED
      BY <3>1, <3>2, <3>3, <3>4
  <2>. QED
    BY <2>2, <2>3
<1>. QED
  BY <1>1, <1>2 DEF CredentialMatchesPlan

(* All steps do.                                                           *)
LEMMA StepKept ==
  ASSUME FiniteFacts
  PROVE  IInv /\ [Next]_vars => Kept
(* Setting the clock of a flow changes only the clock.                   *)
<1>ClockOnly.
  ASSUME NEW f, NEW t
  PROVE  OnlyClock(f, [f EXCEPT !.last = t]) /\ OnlyClock(f, f)
  BY <1>ClockOnly DEF OnlyClock
(* Steps of the authorization do what the action properties say,         *)
<1>AuthStepKept.
  ASSUME IInv, phase = "authorize", AuthStepped
  PROVE  Kept
  <2>. USE <1>AuthStepKept
  <2>1. PICK in, sound : Stepped(AuthStep(flow, in, now, sound), sound)
    BY DEF AuthStepped
  <2>. DEFINE r == AuthStep(flow, in, now, sound)
  <2>2. AuthInv(flow, sent)
    BY DEF IInv
  <2>3. AuthGood(flow, sent, r, sound) /\ Latched(flow, r)
    BY <2>2, AuthStepKeeps
  <2>. HIDE DEF r
  <2>4. /\ flow' = r.flow /\ sent' = After(r, sent) /\ phase' = phase
        /\ (~sound /\ r.error = "RandomnessFailure" => faulty')
    <3>1. Stepped(r, sound)
      BY <2>1 DEF r
    <3>2. flow' = r.flow /\ sent' = After(r, sent) /\ phase' = phase
      BY <3>1, SteppedTo
    <3>3. ~sound /\ r.error = "RandomnessFailure" => faulty'
      BY <3>1 DEF Stepped
    <3>. QED
      BY <3>2, <3>3
  <2>5. ASSUME flow.stage \in Over
        PROVE  /\ flow'.stage \in Over /\ sent' = <<>>
               /\ flow'.stage = "Complete" => OnlyClock(flow, flow')
               /\ flow'.failure # flow.failure => flow'.failure \in {"InvalidClock", "TokenExpired"}
    <3>1. flow'.stage \in Over /\ sent' = <<>>
      BY <2>3, <2>4, <2>5 DEF Latched, After
    <3>2. flow'.stage = "Complete" => OnlyClock(flow, flow')
      <4>1. flow'.stage = "Complete" => flow' = [flow EXCEPT !.last = r.flow.last]
        BY <2>3, <2>4, <2>5 DEF Latched
      <4>2. OnlyClock(flow, [flow EXCEPT !.last = r.flow.last])
        BY <1>ClockOnly
      <4>. QED
        BY <4>1, <4>2
    <3>3. flow'.failure # flow.failure => flow'.failure \in {"InvalidClock", "TokenExpired"}
      BY <2>3, <2>4, <2>5 DEF Latched
    <3>. QED
      BY <3>1, <3>2, <3>3
  <2>6. flow'.stage \notin Over => Measure(flow') < Measure(flow) /\ Measure(flow') >= 0
    BY <2>3, <2>4 DEF AuthGood
  <2>7. flow.failure # "RandomnessFailure" /\ flow'.failure = "RandomnessFailure" => faulty'
    BY <2>3, <2>4 DEF AuthGood
  <2>. QED
    BY <2>4, <2>5, <2>6, <2>7 DEF Kept, Over
(* so do the steps of the credential flow,                               *)
<1>CredStepKept.
  ASSUME IInv, phase = "obtain", CredStepped
  PROVE  Kept
  <2>. USE <1>CredStepKept
  <2>1. PICK in, sound : Stepped(CredStep(flow, in, now, Seen, sound), sound)
    BY DEF CredStepped
  <2>. DEFINE r == CredStep(flow, in, now, Seen, sound)
  <2>2. CredInv(flow, sent, Seen)
    BY DEF IInv
  <2>3. CredKept(flow, sent, Seen, r, now, sound) /\ Latched(flow, r)
    BY <2>2, CredStepKeeps
  <2>. HIDE DEF r
  <2>4. /\ flow' = r.flow /\ sent' = After(r, sent) /\ phase' = phase
        /\ (~sound /\ r.error = "RandomnessFailure" => faulty')
    <3>1. Stepped(r, sound)
      BY <2>1 DEF r
    <3>2. flow' = r.flow /\ sent' = After(r, sent) /\ phase' = phase
      BY <3>1, SteppedTo
    <3>3. ~sound /\ r.error = "RandomnessFailure" => faulty'
      BY <3>1 DEF Stepped
    <3>. QED
      BY <3>2, <3>3
  <2>5. ASSUME flow.stage \in Over
        PROVE  /\ flow'.stage \in Over /\ sent' = <<>>
               /\ flow'.stage = "Complete" => OnlyClock(flow, flow')
               /\ flow'.failure # flow.failure => flow'.failure \in {"InvalidClock", "TokenExpired"}
    <3>1. flow'.stage \in Over /\ sent' = <<>>
      BY <2>3, <2>4, <2>5 DEF Latched, After
    <3>2. flow'.stage = "Complete" => OnlyClock(flow, flow')
      <4>1. flow'.stage = "Complete" => flow' = [flow EXCEPT !.last = r.flow.last]
        BY <2>3, <2>4, <2>5 DEF Latched
      <4>2. OnlyClock(flow, [flow EXCEPT !.last = r.flow.last])
        BY <1>ClockOnly
      <4>. QED
        BY <4>1, <4>2
    <3>3. flow'.failure # flow.failure => flow'.failure \in {"InvalidClock", "TokenExpired"}
      BY <2>3, <2>4, <2>5 DEF Latched
    <3>. QED
      BY <3>1, <3>2, <3>3
  <2>6. flow'.stage \notin Over /\ ~OnlyClock(flow, flow') =>
          Measure(flow') < Measure(flow) /\ Measure(flow') >= 0
    <3>1. flow'.stage \notin Over =>
            \/ flow' = [flow EXCEPT !.last = r.flow.last]
            \/ Measure(flow') < Measure(flow) /\ Measure(flow') >= 0
      BY <2>3, <2>4 DEF CredKept
    <3>2. OnlyClock(flow, [flow EXCEPT !.last = r.flow.last])
      BY <1>ClockOnly
    <3>. QED
      BY <3>1, <3>2
  <2>7. flow.failure # "RandomnessFailure" /\ flow'.failure = "RandomnessFailure" =>
          faulty' \/ Cardinality(Of("SendDeferred")) >= GuaranteedPolls
    <3>1. Of("SendDeferred") = Polls(sent)
      BY DEF Of, Polls, OfKind
    <3>. QED
      BY <2>3, <2>4, <3>1 DEF CredKept
  <2>8. Len(sent') > Len(sent) => Alive(flow.config.grant, now)
    <3>1. CASE RequestsIn(r.effects) # <<>>
      BY <2>3, <3>1 DEF CredKept
    <3>2. CASE RequestsIn(r.effects) = <<>>
      <4>1. sent \in Seq(Range(sent))
        BY <2>2 DEF CredInv
      <4>2. sent' = <<>> \/ sent' = sent
        <5>1. sent \o <<>> = sent
          BY <4>1, NothingAdded
        <5>. QED
          BY <2>4, <3>2, <5>1 DEF After
      <4>3. ~(Len(sent') > Len(sent))
        <5>. DEFINE t == sent'
        <5>. HIDE DEF t
        <5>1. t = <<>> \/ t = sent
          BY <4>2 DEF t
        <5>2. ~(Len(t) > Len(sent))
          BY <4>1, <5>1, SMTT(60)
        <5>. QED
          BY <5>2 DEF t
      <4>. QED
        BY <4>3
    <3>. QED
      BY <3>1, <3>2
  <2>. QED
    BY <2>4, <2>5, <2>6, <2>7, <2>8 DEF Kept, Over, Alive
(* and the steps between the flows and those of the clock.               *)
<1>OtherStepKept.
  ASSUME IInv,
         \/ \E sound : BeginAuthorization(sound)
         \/ \E selection, sound : BeginCredential(selection, sound)
         \/ Ingest \/ Tick \/ SetBack \/ UNCHANGED vars
  PROVE  Kept
  <2>. USE <1>OtherStepKept
  <2>1. ASSUME NEW sound, BeginAuthorization(sound) PROVE Kept
    BY <2>1 DEF BeginAuthorization, Kept, Running
  <2>2. ASSUME NEW selection, NEW sound, BeginCredential(selection, sound) PROVE Kept
    <3>. DEFINE config == IF plan.policy = None
                          THEN FromAuthorization(flow.grant, plan.chosen, selection)
                          ELSE FromGenericAuthorization(flow.grant, plan.chosen, selection)
                begun == CredBegin(config.value, now, sound)
    <3>1. phase = "authorize" /\ phase' \in {"over", "obtain"}
      BY <2>2 DEF BeginCredential
    <3>2. flow' = None \/ (begun.error = None /\ flow' = begun.flow)
      BY <2>2 DEF BeginCredential
    <3>. HIDE DEF config
    <3>3. begun.error = None => begun.flow.failure = None
      BY CredBegins, SMTT(30)
    <3>. HIDE DEF begun
    <3>4. flow' # None => flow'.failure # "RandomnessFailure"
      BY <3>2, <3>3, NoneAssumption
    <3>5. phase' # phase /\ phase # "obtain"
      BY <3>1
    <3>. QED
      BY <3>4, <3>5 DEF Kept
  <2>3. CASE Ingest
    <3>1. phase' # phase /\ flow' = None /\ sent' = sent
      BY <2>3 DEF Ingest
    <3>2. phase = "obtain" => ~(Len(sent') > Len(sent))
      <4>1. phase = "obtain" => sent \in Seq(Range(sent))
        BY DEF IInv, CredInv
      <4>2. sent \in Seq(Range(sent)) => ~(Len(sent) > Len(sent))
        BY SMTT(60)
      <4>. QED
        BY <3>1, <4>1, <4>2
    <3>. QED
      BY <3>1, <3>2 DEF Kept
  <2>4. CASE Tick \/ SetBack \/ UNCHANGED vars
    <3>1. phase' = phase /\ flow' = flow /\ sent' = sent
      BY <2>4 DEF Tick, SetBack, vars
    <3>2. phase = "obtain" => ~(Len(sent') > Len(sent))
      <4>1. phase = "obtain" => sent \in Seq(Range(sent))
        BY DEF IInv, CredInv
      <4>2. sent \in Seq(Range(sent)) => ~(Len(sent) > Len(sent))
        BY SMTT(60)
      <4>. QED
        BY <3>1, <4>1, <4>2
    <3>3. Running /\ flow.stage \in Over => sent = <<>>
      BY DEF IInv, AuthInv, CredInv, Running
    <3>4. OnlyClock(flow, flow')
      BY <3>1, <1>ClockOnly
    <3>. QED
      BY <3>1, <3>2, <3>3, <3>4 DEF Kept, Over
  <2>. QED
    BY <2>1, <2>2, <2>3, <2>4
(* All steps do.                                                         *)
<1>Kept. IInv /\ [Next]_vars => Kept
  <2>. SUFFICES ASSUME IInv, [Next]_vars PROVE Kept
    OBVIOUS
  <2>1. CASE AnswerAuthorization \/ DisturbAuthorization
    BY <2>1, AuthAnswered, <1>AuthStepKept
  <2>2. CASE AnswerCredential \/ Poll \/ DisturbCredential
    BY <2>2, CredAnswered, <1>CredStepKept
  <2>3. CASE \/ \E sound : BeginAuthorization(sound)
             \/ \E selection, sound : BeginCredential(selection, sound)
             \/ Ingest \/ Tick \/ SetBack \/ UNCHANGED vars
    BY <2>3, <1>OtherStepKept
  <2>. QED
    BY <2>1, <2>2, <2>3 DEF Next
<1>. QED
  BY <1>Kept

-----------------------------------------------------------------------------
(* The theorems *)
INSTANCE FiniteSetTheorems

(* The facts the lemmas assume, from the library.                          *)
LEMMA FiniteFactsHold == FiniteFacts
<1>1. ASSUME NEW T \in SUBSET Nat, T # {} PROVE \E n \in T : \A m \in T : n <= m
  <2>1. PICK n \in T : \A m \in T : ~(<<m, n>> \in OpToRel(<, Nat))
    BY <1>1, NatLessThanWellFounded, WFMin
  <2>2. \A m \in T : <<m, n>> \in OpToRel(<, Nat) <=> m < n
    BY SMTT(60) DEF OpToRel
  <2>3. \A m \in T : ~(m < n)
    BY <2>1, <2>2
  <2>. QED
    BY <2>3, SMTT(60)
<1>2. ASSUME NEW n \in Nat PROVE IsFiniteSet(1 .. n)
  BY FS_Interval, SMTT(60)
<1>3. ASSUME NEW S, IsFiniteSet(S)
      PROVE  Cardinality(S) \in Nat /\ \A T \in SUBSET S : IsFiniteSet(T)
  BY <1>3, FS_CardinalityType, FS_Subset
<1>4. ASSUME NEW S, NEW x, IsFiniteSet(S), x \notin S
      PROVE  Cardinality(S \cup {x}) = Cardinality(S) + 1
  BY <1>4, FS_AddElement
<1>5. Cardinality({}) = 0
  BY FS_EmptySet
<1>. QED
  BY <1>1, <1>2, <1>3, <1>4, <1>5 DEF FiniteFacts

(* The invariant holds in every reachable state, however many servers,     *)
(* nonces, transactions, polls and earlier credentials there are.          *)
THEOREM InductiveInvariant == Spec => []IInv
<1>1. Init => IInv
  BY InitHolds
<1>2. IInv /\ [Next]_vars => IInv'
  BY FiniteFactsHold, NextHolds
<1>. QED
  BY <1>1, <1>2, PTL DEF Spec

(* RetriesRepeatNothing: neither a demanded nonce, a lost answer nor a     *)
(* deferral makes the flows of authorization.rs and credential.rs repeat a *)
(* nonce, a client authentication or a term of an earlier request.         *)
THEOREM RetriesAreFresh == Spec => []RetriesRepeatNothing
  BY InductiveInvariant, FiniteFactsHold, Fresh, PTL

(* CredentialMatchesPlan: the credential of a completed flow is of the     *)
(* format, type and issuer of the plan made from the offer, and no c_nonce *)
(* is consumed by two credentials.                                         *)
THEOREM CredentialIsPlanned == Spec => []CredentialMatchesPlan
  BY InductiveInvariant, Matching, PTL

(* TerminalLatch: a flow that is over stays over and sends nothing, and    *)
(* only the clock or the end of the token's life turns it into a failure.  *)
THEOREM OverStaysOver == Spec => TerminalLatch
<1>1. IInv /\ [Next]_vars =>
        (Running /\ flow.stage \in {"Complete", "Failed"} /\ phase' = phase =>
           /\ flow'.stage \in {"Complete", "Failed"}
           /\ sent' = <<>>
           /\ flow'.stage = "Complete" => OnlyClock(flow, flow')
           /\ flow'.failure # flow.failure => flow'.failure \in {"InvalidClock", "TokenExpired"})
  BY FiniteFactsHold, StepKept DEF Kept
<1>. QED
  BY <1>1, InductiveInvariant, PTL DEF Spec, TerminalLatch

(* ExpiredTokenNeverSent: no request for the credential leaves when the    *)
(* token has expired.                                                      *)
THEOREM TokenAlive == Spec => ExpiredTokenNeverSent
<1>1. IInv /\ [Next]_vars =>
        (phase = "obtain" /\ Len(sent') > Len(sent) =>
           LET token == flow.config.grant
           IN  token.expires = None \/ now < token.issued + token.expires)
  BY FiniteFactsHold, StepKept DEF Kept
<1>. QED
  BY <1>1, InductiveInvariant, PTL DEF Spec, ExpiredTokenNeverSent

(* AnswersAreFinite: every answer that leaves a flow running brings it     *)
(* nearer to its end.                                                      *)
THEOREM FinitelyManyAnswers == Spec => AnswersAreFinite
<1>1. IInv /\ [Next]_vars =>
        (/\ Running /\ phase' = phase /\ flow'.stage \notin {"Complete", "Failed"}
         /\ ~OnlyClock(flow, flow')
         => Measure(flow') < Measure(flow) /\ Measure(flow') >= 0)
  BY FiniteFactsHold, StepKept DEF Kept
<1>. QED
  BY <1>1, InductiveInvariant, PTL DEF Spec, AnswersAreFinite

(* BudgetSuffices: with a sound source of randomness an authorization      *)
(* never runs out of random values, and a credential flow not before the   *)
(* polls its budget must allow.                                            *)
THEOREM RandomnessSuffices == Spec => BudgetSuffices
<1>1. IInv /\ [Next]_vars =>
        (/\ Running /\ flow' # None
         /\ flow.failure # "RandomnessFailure" /\ flow'.failure = "RandomnessFailure"
         /\ faulty' = FALSE
         => phase = "obtain" /\ Cardinality(Of("SendDeferred")) >= GuaranteedPolls)
  BY FiniteFactsHold, StepKept DEF Kept
<1>. QED
  BY <1>1, InductiveInvariant, PTL DEF Spec, BudgetSuffices

=============================================================================
