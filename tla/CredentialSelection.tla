------------------------- MODULE CredentialSelection -------------------------
(***************************************************************************)
(* Which held credentials answer a presentation request, what of them is   *)
(* disclosed, and whether their status and their evidence still allow it   *)
(* (crates/wallet-core).                                                   *)
(*                                                                         *)
(* A core has the fields now, trust, key, credentials, mdocs and status.   *)
(* A session has the relying party, the request (a sequence of at most one *)
(* DCQL query, and the plain claim names asked for without one) and the    *)
(* frozen selection.                                                       *)
(***************************************************************************)
EXTENDS CredentialEvidence, SequencesExt

CONSTANTS
    MAX_CREDENTIAL_QUERIES, MAX_CLAIMS_PER_QUERY, MAX_SETS, MAX_OPTIONS, MAX_PATH_DEPTH,
    MAX_STATUS_AGE_SECONDS, DEFAULT_CACHE_TTL_SECONDS, CLOCK_SKEW_SECONDS,
    MAX_PRESENTATIONS_PER_DCQL_QUERY, MAX_STATUS_LISTS_PER_PRESENTATION

Query == INSTANCE Dcql
Status == INSTANCE StatusList

Found(items) == [error |-> "none", items |-> items]
NotFound(error) == [error |-> error, items |-> <<>>]

-----------------------------------------------------------------------------
(* Selection for one query *)

(* The first current candidate, or all of them for a query for multiple     *)
(* credentials.  With none, the error of the first candidate is reported.   *)
Chosen(candidates, verdicts, multiple) ==
    LET current == {i \in DOMAIN candidates : Passes(verdicts[i])}
        order == SetToSortSeq(current, <)
    IN  IF candidates = <<>> THEN NotFound("NoEligibleCredential")
        ELSE IF current = {} THEN NotFound(Eligibility(FirstError(verdicts[1])))
        ELSE IF ~multiple THEN Found(<<candidates[Min(current)]>>)
        ELSE IF Cardinality(current) > MAX_PRESENTATIONS_PER_DCQL_QUERY
        THEN NotFound("NoEligibleCredential")
        ELSE Found([i \in DOMAIN order |-> candidates[order[i]]])
SelectCurrent(core, candidates, multiple) ==
    Chosen(candidates,
           [i \in DOMAIN candidates |-> CredentialIsCurrent(core, candidates[i])], multiple)

(* What is presented of a selected credential. *)
PreparedCredential(id, stored, selection) ==
    [query |-> id,
     source |-> [format |-> stored.provenance.format, holding |-> stored.holding,
                 authenticated |-> stored.authenticated],
     selection |-> selection]

(* A claim's values filter its matches, and a claim without a match is absent. *)
AllowedPaths(stored, claim) ==
    {m.path : m \in {n \in Sd!MatchingValues(stored.authenticated[1].value, claim.path) :
        \A k \in DOMAIN claim.values : n.value \in claim.values[k]}}

SelectSdJwt(core, query, claims) ==
    LET Eligible(stored) ==
            /\ query.types = {} \/ stored.provenance.raw.control.vct \in query.types
            /\ \A c \in DOMAIN claims : AllowedPaths(stored, claims[c]) # {}
        Disclosed(stored) ==
            Sd!SelectDisclosures(stored.authenticated[1],
                                 UNION {AllowedPaths(stored, claims[c]) : c \in DOMAIN claims})
        result == SelectCurrent(core, SelectSeq(core.credentials, Eligible), query.multiple)
    IN  [result EXCEPT !.items =
            [i \in DOMAIN @ |-> PreparedCredential(<<query.id>>, @[i], Disclosed(@[i]))]]

(* requested_mdoc_path: exactly a namespace and an element *)
IsMdocPath(path) == Len(path) = 2 /\ \A i \in DOMAIN path : "name" \in DOMAIN path[i]
MdocPath(path) == <<path[1].name, path[2].name>>

SelectMdoc(core, query, claims) ==
    LET paths == {MdocPath(claims[c].path) : c \in DOMAIN claims}
        Eligible(stored) ==
            /\ stored.holding.doctype \in query.types
            /\ \A c \in DOMAIN claims :
                   LET values == Iso!ValuesAt(stored.holding.issuerSigned, MdocPath(claims[c].path))
                   IN  /\ values # {}
                       /\ \A k \in DOMAIN claims[c].values :
                              values \intersect claims[c].values[k] # {}
        Disclosed(stored) ==
            [disclosures |-> Iso!Minimise(stored.holding.issuerSigned, paths),
             revealed |-> {claims[c].path : c \in DOMAIN claims}]
        result == SelectCurrent(core, SelectSeq(core.mdocs, Eligible), query.multiple)
    IN  IF \A c \in DOMAIN claims : IsMdocPath(claims[c].path)
        THEN [result EXCEPT !.items =
                 [i \in DOMAIN @ |-> PreparedCredential(<<query.id>>, @[i], Disclosed(@[i]))]]
        ELSE NotFound("NoEligibleCredential")

SelectForQueryClaims(core, query, claims) ==
    CASE query.format = "mso_mdoc"  -> SelectMdoc(core, query, claims)
      [] query.format = "dc+sd-jwt" -> SelectSdJwt(core, query, claims)
      [] OTHER                      -> NotFound("NoEligibleCredential")

(* The claim sets are tried in the verifier's order. *)
FirstFound(results) ==
    LET found == {o \in DOMAIN results : results[o].error = "none"}
    IN  IF found = {} THEN results[1] ELSE results[Min(found)]
AnswerWith(core, query, options) ==
    FirstFound([o \in DOMAIN options |-> SelectForQueryClaims(core, query, options[o])])
SelectForQuery(core, query) == AnswerWith(core, query, Query!ClaimSelectionOptions(query))

(* A request without a query: the first current credential with all claims. *)
SelectLegacySdJwt(core, names) ==
    LET Paths(stored, n) ==
            {m.path : m \in Sd!MatchingValues(stored.authenticated[1].value,
                                              <<Sd!Name(names[n])>>)}
        Eligible(stored) == \A n \in DOMAIN names : Paths(stored, n) # {}
        Disclosed(stored) ==
            Sd!SelectDisclosures(stored.authenticated[1],
                                 UNION {Paths(stored, n) : n \in DOMAIN names})
        result == SelectCurrent(core, SelectSeq(core.credentials, Eligible), FALSE)
    IN  [result EXCEPT !.items =
            [i \in DOMAIN @ |-> PreparedCredential(<<>>, @[i], Disclosed(@[i]))]]

-----------------------------------------------------------------------------
(* The complete selection *)

Concatenated(parts) == FoldSeq(LAMBDA part, rest : part \o rest, <<>>, parts)

(* Each query is answered on its own, then the plan says which answers are  *)
(* presented.                                                               *)
Planned(plan, answer, answered) ==
    LET order == SetToSortSeq(plan[1], <)
    IN  IF plan = <<>>
        THEN NotFound(IF answered = DOMAIN answer THEN "NoEligibleCredential"
                      ELSE answer[Min(DOMAIN answer \ answered)].error)
        ELSE IF plan[1] = {} THEN NotFound("NoEligibleCredential")
        ELSE Found(Concatenated([i \in DOMAIN order |-> answer[order[i]].items]))
PlanFor(query, answer) ==
    LET answered == {q \in DOMAIN answer : answer[q].error = "none"}
    IN  Planned(Query!CredentialSelectionPlan(query, answered), answer, answered)
PreparePresentationSelection(core, request) ==
    IF request.query = <<>> THEN SelectLegacySdJwt(core, request.claims)
    ELSE PlanFor(request.query[1],
                 [q \in DOMAIN request.query[1].credentials |->
                     SelectForQuery(core, request.query[1].credentials[q])])

-----------------------------------------------------------------------------
(* What is checked again before anything is released *)

HeldAs(core, source) ==
    LET held == IF source.format = "dc+sd-jwt" THEN core.credentials ELSE core.mdocs
        Same(stored) == /\ stored.holding = source.holding
                        /\ stored.authenticated = source.authenticated
    IN  SelectSeq(held, Same)

(* The key a registered relying party is known by, or <<>>: the key of the  *)
(* first certificate supplied.                                              *)
ResolveRp(core, chain) ==
    IF Path!CheckRelyingParty(
           chain, ParsedAnchorsAt(core.trust, "RelyingPartyAccess", core.now), core.now) = <<>>
    THEN <<>> ELSE <<chain[1].key>>

PresentationTrustIsCurrent(core, rp) ==
    Trust!IsValidAt(core.trust, core.now) /\ ResolveRp(core, rp.chain) = <<rp.key>>

(* The relying party is still registered under its key, and the frozen      *)
(* selection is still held and still current.                               *)
PresentationEvidenceIsCurrent(core, rp, items) ==
    /\ PresentationTrustIsCurrent(core, rp)
    /\ items # <<>>
    /\ \A i \in DOMAIN items :
           LET held == HeldAs(core, items[i].source)
           IN  held # <<>> /\ Passes(CredentialIsCurrent(core, held[1]))

(* In the order of the selection; a repeated reference decides nothing new. *)
StatusReferences(items) ==
    Concatenated([i \in DOMAIN items |->
                     IF items[i].source.format = "dc+sd-jwt"
                     THEN items[i].source.holding.status
                     ELSE items[i].source.holding.issuerSigned.mso.status])

(* The mdoc status reference is read again from the signed object. *)
UnusableReference(items) ==
    \E i \in DOMAIN items :
        /\ items[i].source.format = "mso_mdoc"
        /\ items[i].source.holding.issuerSigned.mso.status # <<>>
        /\ "status-uri" \in items[i].source.holding.issuerSigned.flaws

(* A cached list may be used while it is fresh and its provider is trusted. *)
Usable(core, uri) ==
    /\ uri \in DOMAIN core.status
    /\ Status!IsFreshAt(core.status[uri].list, core.now)
    /\ ResolveStatusProviderKey(core, core.status[uri].chain) # <<>>

PresentationStatusGate(core, items) ==
    LET references == StatusReferences(items)
        UsableAt(r) == Usable(core, references[r].uri)
        usable == {r \in DOMAIN references : UsableAt(r)}
        StateOf(r) == Status!StatusAt(core.status[references[r].uri].list, references[r].index)
        bad == {r \in usable : StateOf(r) # "Valid"}
    IN  IF \/ UnusableReference(items)
           \/ Cardinality(Range(references)) > MAX_STATUS_LISTS_PER_PRESENTATION
        THEN "Indeterminate"
        ELSE IF bad # {}
        THEN IF StateOf(Min(bad)) = "Unknown" THEN "Indeterminate" ELSE "Revoked"
        ELSE IF usable = DOMAIN references THEN "Ready" ELSE "Fetch"

=============================================================================
