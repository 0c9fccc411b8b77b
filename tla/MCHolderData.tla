---------------------------- MODULE MCHolderData ----------------------------
(***************************************************************************)
(* The wallets HolderData is checked on.  Each scene is the set of inputs  *)
(* that meet one wallet: the issuers' certificates in good and bad         *)
(* bundles, credentials with nested disclosures, calendars, status lists,  *)
(* trusted lists that change, a log at its limits, and commits, crashes    *)
(* and restores.                                                           *)
(***************************************************************************)
EXTENDS HolderData

-----------------------------------------------------------------------------
(* Certificates *)

Far == 2000000000
Host == <<"eu", "example", "pid">>

Uri(labels) == [form |-> "uri", labels |-> labels, canonical |-> TRUE, origin |-> TRUE]
Scope(form, scope, labels) == [form |-> form, scope |-> scope, labels |-> labels]

Cert(subject, issuer, key, signer) ==
    [id |-> 1, flaws |-> {}, subject |-> subject, issuer |-> issuer, ski |-> <<key>>,
     aki |-> <<signer>>, key |-> key, signer |-> signer, notBefore |-> 1, notAfter |-> Far,
     isCa |-> TRUE, pathLen |-> <<>>, names |-> {}, permitted |-> {}, excluded |-> {},
     policies |-> <<>>, mappings |-> <<>>, requireExplicitPolicy |-> <<>>,
     inhibitPolicyMapping |-> <<>>, inhibitAnyPolicy |-> <<>>]

Root(name) == Cert(<<"eu", name>>, <<"eu", name>>, name, name)
RootA == Root("A")
RootB == Root("B")
RootS == Root("S")

Sub == Cert(<<"eu", "sub">>, <<"eu", "A">>, "sub", "A")
Cross == Cert(<<"eu", "sub">>, <<"eu", "B">>, "sub", "B")
Leaf == [Cert(<<"eu", "leaf">>, <<"eu", "sub">>, "leaf", "sub") EXCEPT
            !.isCa = FALSE, !.names = {Uri(Host)}]
StatusLeaf == [Cert(<<"eu", "status">>, <<"eu", "S">>, "status", "S") EXCEPT !.isCa = FALSE]

(* Relying parties: a reader below the anchor, one below an authority in a   *)
(* bundle led by that authority, one that is not for readers, one without a  *)
(* policy, and one that expires.                                             *)
RootR == Root("R")
Reader == [Cert(<<"eu", "reader">>, <<"eu", "R">>, "reader", "R") EXCEPT
              !.isCa = FALSE, !.policies = <<{"rp"}>>]
ReaderSub == [Cert(<<"eu", "readers">>, <<"eu", "R">>, "readers", "R") EXCEPT
                 !.policies = <<{"any"}>>]
SubReader == [Reader EXCEPT !.issuer = <<"eu", "readers">>, !.aki = <<"readers">>,
                            !.signer = "readers"]
Readers ==
    {<<Reader>>, <<ReaderSub, SubReader>>, <<[Reader EXCEPT !.flaws = {"reader-authentication"}]>>,
     <<[Reader EXCEPT !.policies = <<>>]>>, <<[Reader EXCEPT !.notAfter = 15]>>}

(* Two authorities above the leaf, the upper one with constraints. *)
Top(pathLen, permitted, excluded) ==
    [Cert(<<"eu", "top">>, <<"eu", "A">>, "top", "A") EXCEPT
        !.pathLen = pathLen, !.permitted = permitted, !.excluded = excluded]
UnderTop == Cert(<<"eu", "sub">>, <<"eu", "top">>, "sub", "top")
Rollover == [UnderTop EXCEPT !.subject = <<"eu", "top">>, !.key = "top2", !.ski = <<"top2">>]
UnderRollover == Cert(<<"eu", "sub">>, <<"eu", "top">>, "sub", "top2")
SubWith(permitted, excluded) == [Sub EXCEPT !.permitted = permitted, !.excluded = excluded]
Stranger == [Cert(<<"eu", "stranger">>, <<"eu", "Z">>, "stranger", "Z") EXCEPT !.isCa = FALSE]
Loop == Cert(<<"eu", "A2">>, <<"eu", "sub">>, "A2", "sub")
BackLoop == Cert(<<"eu", "sub">>, <<"eu", "A2">>, "sub", "A2")

Policed(cert, policies) == [cert EXCEPT !.policies = <<policies>>]
Mail == [form |-> "email", labels |-> Append(Host, "info"), canonical |-> TRUE, origin |-> FALSE]

(* Bundles: the first ones valid, in any order; then one deviation each. *)
Bundles ==
    <<<<Leaf, Sub>>, <<Sub, Leaf>>, <<Leaf>>, <<Leaf, Sub, Sub>>, <<Leaf, Sub, RootA>>,
      <<Leaf, Sub, Stranger>>, <<Leaf, Cross, Sub>>,
      <<UnderTop, Top(<<>>, {}, {}), Leaf>>, <<Top(<<1>>, {}, {}), UnderTop, Leaf>>,
      <<Leaf, UnderTop, Top(<<0>>, {}, {})>>,
      <<Leaf, UnderRollover, Rollover, Top(<<1>>, {}, {})>>,
      <<Leaf, Sub, UnderTop, Top(<<>>, {}, {})>>,
      <<Leaf, BackLoop, Loop, Sub>>, <<Leaf, Cross, Sub, Stranger, Loop>>,
      <<Leaf, [Sub EXCEPT !.notAfter = 9], Cross>>, <<Leaf, [Sub EXCEPT !.notBefore = 15]>>,
      <<[Leaf EXCEPT !.notAfter = 15], Sub>>,
      <<Leaf, [Sub EXCEPT !.isCa = FALSE]>>, <<[Leaf EXCEPT !.isCa = TRUE], Sub>>,
      <<[Leaf EXCEPT !.signer = "A"], Sub>>, <<[Leaf EXCEPT !.aki = <<"A">>], Sub>>,
      <<Leaf, [Sub EXCEPT !.flaws = {"key-cert-sign"}]>>,
      <<[Leaf EXCEPT !.flaws = {"digital-signature"}], Sub>>,
      <<Leaf, [Sub EXCEPT !.flaws = {"der"}]>>, <<Leaf, [Sub EXCEPT !.flaws = {"policies"}]>>,
      <<[Leaf EXCEPT !.flaws = {"compatible-signature"}], Sub>>,
      <<[Leaf EXCEPT !.names = {Uri(Host), Uri(<<"eu", "other">>)}], Sub>>,
      <<[Leaf EXCEPT !.names = {[Uri(Host) EXCEPT !.origin = FALSE]}], Sub>>,
      <<Leaf, SubWith({Scope("uri", "host", Host)}, {})>>,
      <<Leaf, SubWith({Scope("uri", "below", <<"eu", "example">>)}, {})>>,
      <<Leaf, SubWith({Scope("uri", "below", Host)}, {})>>,
      <<Leaf, SubWith({}, {Scope("uri", "host", Host)})>>,
      <<[Leaf EXCEPT !.names = {[Uri(Host) EXCEPT !.canonical = FALSE]}],
        SubWith({Scope("uri", "host", Host)}, {})>>,
      <<Leaf, SubWith({Scope("directory", "subtree", <<"eu">>)}, {Scope("dns", "subtree", Host)})>>,
      <<Leaf, UnderTop, Top(<<>>, {Scope("directory", "subtree", <<"eu", "sub">>)}, {})>>,
      <<[Leaf EXCEPT !.names = @ \union {Mail}], SubWith({Scope("email", "host", Host)}, {})>>,
      <<[Leaf EXCEPT !.names = @ \union {Mail}],
        SubWith({Scope("email", "mailbox", Append(Host, "office"))}, {})>>,
      <<Leaf, [Sub EXCEPT !.requireExplicitPolicy = <<0>>]>>,
      <<Policed(Leaf, {"p"}), [Policed(Sub, {"p"}) EXCEPT !.requireExplicitPolicy = <<0>>]>>,
      <<Policed(Leaf, {"q"}), [Policed(Sub, {"p"}) EXCEPT !.requireExplicitPolicy = <<0>>]>>,
      <<Policed(Leaf, {"q"}),
        [Policed(Sub, {"p"}) EXCEPT !.requireExplicitPolicy = <<0>>,
                                    !.mappings = <<[from |-> "p", to |-> "q"]>>]>>,
      <<Policed(Leaf, {"any"}),
        [Policed(Sub, {"p"}) EXCEPT !.requireExplicitPolicy = <<0>>, !.inhibitAnyPolicy = <<0>>]>>,
      <<Policed(Leaf, {"any"}), [Policed(Sub, {"any"}) EXCEPT !.requireExplicitPolicy = <<0>>]>>,
      <<Policed(Leaf, {"q"}), [Policed(UnderTop, {"p"}) EXCEPT
                                  !.mappings = <<[from |-> "p", to |-> "q"]>>],
        [Policed(Top(<<>>, {}, {}), {"p"}) EXCEPT !.inhibitPolicyMapping = <<0>>]>>>>

-----------------------------------------------------------------------------
(* Trusted lists *)

Anchor(cert, service) == [cert |-> cert, service |-> service, status |-> "granted"]

List(sequence, validUntil, anchors) ==
    [flaws |-> {}, signer |-> "operator", sequence |-> sequence, validFrom |-> 1,
     validUntil |-> validUntil, anchors |-> anchors]

AnchorsA == <<Anchor(RootA, "PidProvider"), Anchor(RootA, "AttestationProvider"),
              Anchor(RootS, "StatusProvider"), Anchor(RootR, "RelyingPartyAccess")>>
WithdrawnA == <<[Anchor(RootA, "PidProvider") EXCEPT !.status = "withdrawn"],
                Anchor(RootA, "AttestationProvider"), Anchor(RootS, "StatusProvider"),
                Anchor(RootR, "RelyingPartyAccess")>>
AnchorsAB == Append(AnchorsA, Anchor(RootB, "PidProvider"))

Loaded(list) == [list |-> list, operatorKey |-> "operator"]

Attestation(key, until) ==
    [wua |-> [flaws |-> {}, signer |-> "provider", validUntil |-> until, level |-> "High",
              key |-> key],
     providerKey |-> "provider"]

-----------------------------------------------------------------------------
(* SD-JWT credentials *)

Scalar(value) == [kind |-> "scalar", value |-> value]
Object(members, sd) == [kind |-> "object", members |-> members, sd |-> sd]
Array(items) == [kind |-> "array", items |-> items]
Hole(digest) == [kind |-> "hole", digest |-> digest]
Member(digest, name, value) == [digest |-> digest, name |-> <<name>>, value |-> value]
Element(digest, value) == [digest |-> digest, name |-> <<>>, value |-> value]

Control(type) ==
    [iss |-> Host, vct |-> type, key |-> <<"k">>, issuedAt |-> <<5>>, notBefore |-> <<>>,
     expires |-> <<>>, status |-> <<>>]

SdJwtDoc(rank, type, payload, disclosures) ==
    [rank |-> rank, size |-> 2, flaws |-> {}, jwt |-> rank, signer |-> "leaf",
     control |-> Control(type), payload |-> payload, disclosures |-> disclosures,
     keyBinding |-> FALSE, evidence |-> <<>>]

Street == Member("h3", "street", Scalar(1))
City == Member("h4", "city", Scalar(2))
Address == Member("h1", "address", Object([country |-> Scalar(3)], <<"h3", "h4">>))
Nations == Member("h2", "nations", Array(<<Hole("h5"), Scalar(4), Hole("h6")>>))
Nation1 == Element("h5", Scalar(5))
Nation2 == Element("h6", Object([code |-> Scalar(6)], <<"h7">>))
NationNote == Member("h7", "note", Scalar(7))

Person == Object([age |-> Scalar(8)], <<"h1", "h2", "h8">>)
AllOfPerson == <<Street, City, Address, Nations, Nation1, Nation2, NationNote>>

PlainPid == SdJwtDoc(1, "pid", Object([age |-> Scalar(8)], <<>>), <<>>)
FullPid == SdJwtDoc(2, "pid", Person, AllOfPerson)
LessPid == [SdJwtDoc(3, "pid", Person, <<Address, City, Nations, Nation1>>) EXCEPT !.jwt = 2]
Diploma(rank, type) == SdJwtDoc(rank, type, Object([degree |-> Scalar(9)], <<>>), <<>>)

Offer(doc, chain) ==
    [format |-> "dc+sd-jwt", doc |-> doc, chain |-> chain, assertion |-> Host]

-----------------------------------------------------------------------------
(* mdoc credentials *)

Date(year, month, day) ==
    [year |-> year, month |-> month, day |-> day, hour |-> 0, minute |-> 0, second |-> 0,
     fraction |-> <<>>, offset |-> 0]

Items(element) ==
    {[namespace |-> "n1", id |-> 1, element |-> "family", value |-> 1],
     [namespace |-> "n1", id |-> 2, element |-> "portrait", value |-> 2],
     [namespace |-> "n2", id |-> 3, element |-> element, value |-> 3]}

MdocDoc(rank, type, until) ==
    [rank |-> rank, size |-> 2, flaws |-> {}, signer |-> "leaf", x5chain |-> <<<<Leaf, Sub>>>>,
     mso |-> [doctype |-> type, digests |-> Items("family"), signed |-> Date(1970, 1, 1),
              validFrom |-> Date(1970, 1, 1), validUntil |-> until, deviceKey |-> <<"k">>,
              status |-> <<>>],
     items |-> Items("family"), hybrid |-> "none"]

MdocOffer(doc) == [format |-> "mso_mdoc", doc |-> doc, chain |-> <<>>, assertion |-> Host]
Licence == MdocDoc(1, "mdl", Date(2030, 1, 1))

-----------------------------------------------------------------------------
(* Requests *)

Claim(path) == [id |-> <<>>, path |-> path, values |-> <<>>]
Named(id, claim) == [claim EXCEPT !.id = <<id>>]
OneOf(values, claim) == [claim EXCEPT !.values = <<values>>]
N(name) == [name |-> name]
At(index) == [index |-> index]
Every == [any |-> TRUE]

Ask(id, format, types, claims) ==
    [id |-> id, format |-> format, types |-> types, claims |-> claims, claimSets |-> <<>>,
     multiple |-> FALSE]
AskPid(claims) == Ask("q", "dc+sd-jwt", {"pid"}, claims)
AskMdoc(claims) == Ask("q", "mso_mdoc", {"mdl"}, claims)

Dcql(credentials, sets) ==
    [query |-> <<[flaws |-> {}, credentials |-> credentials, credentialSets |-> sets]>>,
     claims |-> <<>>, rp |-> <<Reader>>]
Only(credential) == Dcql(<<credential>>, <<>>)
Plain(names) == [query |-> <<>>, claims |-> names, rp |-> <<Reader>>]

DisclosureRequests ==
    {Only(AskPid(claims)) : claims \in
        {<<>>,
         <<Claim(<<N("age")>>)>>,
         <<Claim(<<N("address")>>)>>,
         <<Claim(<<N("address"), N("country")>>)>>,
         <<Claim(<<N("address"), N("city")>>)>>,
         <<Claim(<<N("nations")>>)>>,
         <<Claim(<<N("nations"), Every>>)>>,
         <<Claim(<<N("nations"), At(1)>>)>>,
         <<Claim(<<N("nations"), At(2)>>), Claim(<<N("address"), N("street")>>)>>,
         <<Claim(<<N("nations"), Every, N("code")>>)>>,
         <<OneOf({Scalar(4), Scalar(5)}, Claim(<<N("nations"), Every>>))>>,
         <<OneOf({Scalar(9)}, Claim(<<N("age")>>))>>,
         <<Claim(<<N("family")>>)>>}}
    \union {Plain(<<>>), Plain(<<"age">>), Plain(<<"address", "nations">>), Plain(<<"family">>)}
    \union {Only([AskPid(<<Named("a", Claim(<<N("address"), N("street")>>)),
                           Named("b", Claim(<<N("age")>>))>>) EXCEPT
                     !.claimSets = <<<<<<"a", "b">>, <<"b">>>>>>]),
            Only([AskPid(<<Claim(<<N("age")>>)>>) EXCEPT !.multiple = TRUE]),
            Only([AskPid(<<>>) EXCEPT !.types = {"pid", "diploma"}]),
            Only(Ask("q", "ldp_vc", {}, <<>>))}

MdocRequests ==
    {Only(AskMdoc(claims)) : claims \in
        {<<>>,
         <<Claim(<<N("n1"), N("family")>>)>>,
         <<Claim(<<N("n1"), N("portrait")>>), Claim(<<N("n2"), N("family")>>)>>,
         <<OneOf({1, 2}, Claim(<<N("n2"), N("family")>>))>>,
         <<OneOf({1, 3}, Claim(<<N("n2"), N("family")>>))>>,
         <<Claim(<<N("n1")>>)>>}}

(* Sets of queries: a shared option is cheaper than each set's own. *)
Queries ==
    <<Ask("a", "dc+sd-jwt", {"diploma"}, <<>>), Ask("b", "dc+sd-jwt", {"pid"}, <<>>),
      Ask("c", "mso_mdoc", {"mdl"}, <<>>)>>
Set(options) == [options |-> options, required |-> TRUE]
Optional(options) == [options |-> options, required |-> FALSE]

PlanRequests ==
    {Dcql(Queries, sets) : sets \in
        {<<>>,
         <<<<Set(<<<<"a">>, <<"b">>>>), Set(<<<<"b">>, <<"c">>>>)>>>>,
         <<<<Set(<<<<"a">>, <<"c">>>>), Set(<<<<"b">>, <<"c">>>>)>>>>,
         <<<<Set(<<<<"a", "b">>, <<"c">>>>), Optional(<<<<"a">>>>)>>>>,
         <<<<Set(<<<<"a", "b">>, <<"b", "c">>, <<"a", "c">>>>)>>>>,
         <<<<Optional(<<<<"a">>>>)>>>>}}

-----------------------------------------------------------------------------
(* Scenes *)

Nothing ==
    [clocks |-> {}, keys |-> {}, wuas |-> {}, lists |-> {}, tokens |-> {}, offers |-> {},
     requests |-> {}, entries |-> {}, redactions |-> {}, wipes |-> FALSE, nonces |-> {},
     durable |-> FALSE]

Settled == [Nothing EXCEPT !.clocks = {10}, !.keys = {"k"},
                           !.lists = {Loaded(List(1, Far, AnchorsA))}]

Meets(list, doc, chain) ==
    [Settled EXCEPT !.lists = {Loaded(list)}, !.offers = {Offer(doc, chain)}]

(* Every bundle under one anchor of the trust domain, and under two. *)
BundleScenes ==
    [b \in DOMAIN Bundles |->
        [Meets(List(1, Far, AnchorsA), PlainPid, Bundles[b]) EXCEPT !.clocks = {10, 20}]]
        \o [b \in DOMAIN Bundles |-> Meets(List(1, Far, AnchorsAB), PlainPid, Bundles[b])]

SelectionScenes ==
    <<[Settled EXCEPT !.offers = {Offer(FullPid, <<Leaf, Sub>>), Offer(LessPid, <<Leaf, Sub>>)},
                      !.requests = DisclosureRequests],
      [Settled EXCEPT !.offers = {MdocOffer(Licence)}, !.requests = MdocRequests],
      [Settled EXCEPT !.offers = {Offer(PlainPid, <<Leaf, Sub>>), MdocOffer(Licence),
                                  Offer(Diploma(3, "diploma"), <<Leaf, Sub>>)},
                      !.requests = PlanRequests]>>

(* The trusted list, the key and the clock change under a held credential. *)
EvidenceScenes ==
    <<[Settled EXCEPT !.clocks = {10, 20}, !.keys = {"k", "other"},
                      !.lists = {Loaded(List(1, 15, AnchorsA)), Loaded(List(2, Far, WithdrawnA)),
                                 Loaded(List(3, Far, AnchorsAB))},
                      !.offers = {Offer(PlainPid, <<Leaf, Sub>>)},
                      !.requests = {Plain(<<"age">>)}],
      [Settled EXCEPT !.lists =
           {Loaded([List(1, Far, AnchorsA) EXCEPT !.flaws = {f}]) : f \in {"seq", "anchor-cert"}}
               \union {[list |-> List(1, Far, AnchorsA), operatorKey |-> "other"],
                       Loaded(List(1, 9, AnchorsA)), Loaded(List(2, Far, AnchorsA))},
                      !.offers = {Offer(PlainPid, <<Leaf, Sub>>)}],
      [Settled EXCEPT !.clocks = {10, 20}, !.offers = {Offer(PlainPid, <<Leaf, Sub>>)},
                      !.lists = {Loaded(List(1, Far, AnchorsA)),
                                 Loaded(List(2, Far, <<Anchor(RootA, "PidProvider")>>))},
                      !.requests = {[Plain(<<"age">>) EXCEPT !.rp = chain] : chain \in Readers}]>>

(* Documents that are refused, one deviation each. *)
BadSdJwts ==
    {[PlainPid EXCEPT !.flaws = {f}] : f \in
        {"utf8", "known-alg", "es256", "typ", "disclosure-form", "required-controls",
         "iss-text", "portrait", "epoch-claims", "cnf-jwk", "status-uri"}}
    \union {[PlainPid EXCEPT !.signer = "sub"], [PlainPid EXCEPT !.keyBinding = TRUE],
            [PlainPid EXCEPT !.control.iss = <<"eu", "other">>],
            [PlainPid EXCEPT !.control.vct = "unknown"], [PlainPid EXCEPT !.control.vct = "mdl"],
            [PlainPid EXCEPT !.control.vct = "proof"], [PlainPid EXCEPT !.control.key = <<>>],
            [PlainPid EXCEPT !.control.key = <<"other">>],
            [PlainPid EXCEPT !.control.issuedAt = <<13>>],
            [PlainPid EXCEPT !.control.notBefore = <<11>>],
            [PlainPid EXCEPT !.control.expires = <<10>>],
            [PlainPid EXCEPT !.payload = Object([name |-> Scalar(1)], <<>>)],
            [FullPid EXCEPT !.disclosures = Tail(@) \o <<Member("h9", "more", Scalar(1))>>],
            [FullPid EXCEPT !.disclosures = <<Street, City>>],
            [FullPid EXCEPT !.disclosures = <<Member("h8", "age", Scalar(1))>>],
            [FullPid EXCEPT !.disclosures = <<Member("h8", "iss", Scalar(1))>>],
            [FullPid EXCEPT !.disclosures = <<Element("h8", Scalar(1))>>],
            [FullPid EXCEPT !.disclosures = <<City, City>>],
            [FullPid EXCEPT !.payload = Object([age |-> Scalar(8)], <<"h1", "h1">>)]}

Proof(evidence) == [Diploma(4, "proof") EXCEPT !.evidence = evidence]
Observed(at, until) == <<[observedAt |-> at, freshUntil |-> until]>>

BadMdocs ==
    {[Licence EXCEPT !.flaws = {f}] : f \in
        {"canonical-cbor", "item-value", "payload", "mso-map", "version", "cose-key", "x5chain"}}
    \union {[Licence EXCEPT !.signer = "sub"], [Licence EXCEPT !.x5chain = <<>>],
            [Licence EXCEPT !.mso.digests = {}], [Licence EXCEPT !.hybrid = "partial"],
            [Licence EXCEPT !.hybrid = "invalid"], [Licence EXCEPT !.mso.doctype = "pid-mdoc"],
            [Licence EXCEPT !.mso.validUntil.month = 13], [Licence EXCEPT !.items = {}],
            [Licence EXCEPT !.mso.validFrom = Date(2031, 1, 1)],
            [Licence EXCEPT !.mso.deviceKey = <<>>]}

DocumentScenes ==
    <<[Settled EXCEPT !.offers = {Offer(doc, <<Leaf, Sub>>) : doc \in BadSdJwts}
                                     \union {[Offer(PlainPid, <<Leaf, Sub>>) EXCEPT
                                                !.assertion = <<"eu", "other">>]}],
      [Settled EXCEPT !.keys = {"k", "short"},
                      !.offers = {MdocOffer(doc) : doc \in BadMdocs}
                                     \union {Offer(Proof(e), <<Leaf, Sub>>) : e \in
                                                {<<>>, Observed(10, 20), Observed(5, 10)}}]>>

(* Status lists: two references, tokens of different age, and a full cache. *)
Token(uri, issuedAt, expires, ttl, list) ==
    [uri |-> uri, chain |-> <<StatusLeaf>>,
     token |-> [flaws |-> {}, signer |-> "status", subject |-> uri, issuedAt |-> issuedAt,
                expires |-> expires, ttl |-> ttl, bits |-> 2, list |-> list]]
Reference(uri, index) == <<[uri |-> uri, index |-> index]>>
WithStatus(reference) == [PlainPid EXCEPT !.control.status = reference]
AskAge == Only(AskPid(<<Claim(<<N("age")>>)>>))
AskFamily == Only(AskMdoc(<<Claim(<<N("n1"), N("family")>>)>>))

StatusScene(reference, clocks, tokens) ==
    [Settled EXCEPT !.clocks = clocks, !.tokens = tokens, !.requests = {AskAge},
                    !.offers = {Offer(WithStatus(reference), <<Leaf, Sub>>)}]

StatusScenes ==
    <<StatusScene(Reference("u", 1), {10, 14, 28, 31},
                  {Token("u", 8, <<>>, <<30>>, <<0>>), Token("u", 12, <<30>>, <<>>, <<4>>)}),
      StatusScene(Reference("u", 4), {10, 14, 28}, {Token("u", 8, <<>>, <<>>, <<255, 0>>)}),
      StatusScene(Reference("u", 4), {10}, {Token("u", 8, <<>>, <<>>, <<0>>)}),
      StatusScene(Reference("u", 3), {10, 29},
                  {Token("u", 8, <<10>>, <<>>, <<0>>), Token("u", 9, <<>>, <<40>>, <<0>>),
                   [Token("u", 9, <<>>, <<40>>, <<0>>) EXCEPT !.token.signer = "leaf"]}),
      [StatusScene(Reference("u", 0), {10}, {Token("u", 8, <<>>, <<>>, <<0>>)}) EXCEPT
          !.lists = {Loaded(List(1, Far, AnchorsA)),
                     Loaded(List(2, Far, <<Anchor(RootA, "PidProvider")>>))}],
      StatusScene(Reference("w", 0), {10, 15},
                  {Token(uri, 8, <<>>, <<>>, <<0>>) : uri \in {"u", "v", "w"}}),
      [Settled EXCEPT !.tokens = {Token("u", 8, <<>>, <<>>, <<16>>)}, !.requests = {AskFamily},
                      !.offers = {MdocOffer([Licence EXCEPT !.mso.status = Reference("u", i),
                                                            !.flaws = flaws]) :
                                     i \in {1, 2}, flaws \in {{}, {"status-uri"}}}]>>

(* Calendars: the clock around the start and the end of an mdoc's validity. *)
Time(date, hour, offset, fraction) ==
    [date EXCEPT !.hour = hour, !.offset = offset, !.fraction = fraction]
Around(date) == {Instant(date) - 1, Instant(date), Instant(date) + 1}

Calendar(from, until) ==
    [Settled EXCEPT !.clocks = {10} \union Around(from) \union Around(until),
                    !.lists = {Loaded(List(1, Far, AnchorsA))},
                    !.offers = {MdocOffer([MdocDoc(1, "mdl", until) EXCEPT !.mso.validFrom = from])}]

CalendarScenes ==
    <<Calendar(Date(1972, 2, 29), Time(Date(1999, 12, 31), 23, 0, <<0, 5>>)),
      Calendar(Time(Date(2000, 2, 29), 1, 90, <<>>), Time(Date(2000, 3, 1), 0, -600, <<0>>)),
      Calendar(Time(Date(2023, 12, 31), 23, -60, <<9>>), Time(Date(2024, 2, 29), 12, 0, <<>>))>>
(* The log at its limits: entries of several sizes, redactions and a wipe. *)
Entry(kind, counterparty, paths, payment) ==
    [kind |-> kind, counterparty |-> counterparty, consentHash |-> <<1>>, claimPaths |-> paths,
     outcome |-> "Completed", payment |-> payment]
Shown(counterparty, paths) == Entry("Presentation", counterparty, paths, <<>>)
Paid(payee, amount) ==
    Entry("Payment", payee, <<>>, <<[payee |-> payee, amount |-> amount, currency |-> 3]>>)

LogScenes ==
    <<[Nothing EXCEPT !.clocks = {10}, !.redactions = {0, 1}, !.wipes = TRUE,
                      !.entries = {Shown(1, <<>>), Shown(2, <<3, 1>>), Paid(1, 5)}],
      [Nothing EXCEPT !.clocks = {10}, !.entries =
          {Shown(0, <<>>), Shown(5, <<>>), Shown(1, <<1, 1>>), Shown(1, <<4>>), Paid(1, 0),
           Shown(4, <<3, 2>>), Paid(3, 1), Shown(4, <<>>)}]>>

(* Commits, crashes and restores. *)
Durable == [Settled EXCEPT !.wuas = {Attestation("k", Far)}, !.durable = TRUE]
Nonce(kind, nonce) == [kind |-> kind, nonce |-> nonce]

DurableScenes ==
    <<[Durable EXCEPT !.clocks = {10, 20},
                      !.nonces = {Nonce("presentation", 1), Nonce("presentation", 2)}],
      [Durable EXCEPT !.lists = {Loaded(List(1, Far, AnchorsA)), Loaded(List(2, Far, AnchorsA))},
                      !.nonces = {Nonce("qes", 1)}],
      [Durable EXCEPT !.wuas = {Attestation("k", 15), Attestation("other", Far)},
                      !.clocks = {10, 20}, !.keys = {"k", "other"}],
      [Durable EXCEPT !.entries = {Shown(1, <<1>>)}, !.redactions = {0}],
      [Durable EXCEPT !.entries = {Shown(1, <<>>)}, !.wipes = TRUE],
      [Durable EXCEPT !.offers = {Offer(FullPid, <<Leaf, Sub>>), Offer(PlainPid, <<Leaf, Sub>>),
                                  MdocOffer(Licence)}]>>

MCScenes ==
    BundleScenes \o SelectionScenes \o EvidenceScenes \o DocumentScenes \o StatusScenes
        \o CalendarScenes \o LogScenes \o DurableScenes

MCCatalogue ==
    [pid |-> [format |-> "dc+sd-jwt", service |-> "Pid", issuers |-> {Host},
              mandatory |-> {"age"}],
     diploma |-> [format |-> "dc+sd-jwt", service |-> "Attestation", issuers |-> {Host},
                  mandatory |-> {"degree"}],
     proof |-> [format |-> "dc+sd-jwt", service |-> "Attestation", issuers |-> {Host},
                mandatory |-> {}],
     mdl |-> [format |-> "mso_mdoc", service |-> "Attestation", issuers |-> {Host},
              mandatory |-> {<<"n1", "family">>}]]
MCTextBytes == [t \in 0..5 |-> t]

=============================================================================
