-------------------------------- MODULE Dcql --------------------------------
(***************************************************************************)
(* Digital Credentials Query Language: the bounds a parsed query meets and *)
(* the plan of credential queries to answer (crates/oid4vp, dcql).         *)
(*                                                                         *)
(* An optional member is a sequence of at most one value.  The limits on   *)
(* the size of texts and of JSON values are flaws of the query.            *)
(***************************************************************************)
EXTENDS Naturals, Sequences, SequencesExt

CONSTANTS MAX_CREDENTIAL_QUERIES, MAX_CLAIMS_PER_QUERY, MAX_SETS, MAX_OPTIONS, MAX_PATH_DEPTH

ParseNeeds == {"size", "json", "string-budget", "container-budget", "depth",
               "non-empty-optional-arrays", "no-trusted-authorities",
               "boolean-modifiers", "intent-only-for-mdoc"}

(* Sequences of identifiers with the same members. *)
SameIdentifierSet(left, right) == Len(left) = Len(right) /\ Range(left) = Range(right)

DistinctSets(options) ==
    \A i, j \in DOMAIN options : i # j => ~SameIdentifierSet(options[i], options[j])

ValidOptions(options, ids) ==
    /\ Len(options) \in 1..MAX_OPTIONS
    /\ \A i \in DOMAIN options : /\ options[i] # <<>>
                                 /\ IsInjective(options[i])
                                 /\ Range(options[i]) \subseteq ids
    /\ DistinctSets(options)

ClaimIds(credential) == UNION {Range(credential.claims[i].id) : i \in DOMAIN credential.claims}

ValidClaim(credential, i) ==
    LET claim == credential.claims[i]
    IN  /\ Len(claim.path) \in 1..MAX_PATH_DEPTH
        /\ credential.claimSets # <<>> => claim.id # <<>>
        /\ \A j \in 1..i - 1 : /\ credential.claims[j].path # claim.path
                               /\ Range(credential.claims[j].id) \intersect Range(claim.id) = {}
        /\ \A k \in DOMAIN claim.values : claim.values[k] # {}

ValidCredential(query, i) ==
    LET credential == query.credentials[i]
    IN  /\ \A j \in 1..i - 1 : query.credentials[j].id # credential.id
        /\ credential.format = "dc+sd-jwt" => credential.types # {}
        /\ credential.format = "mso_mdoc" => Cardinality(credential.types) = 1
        /\ Len(credential.claims) <= MAX_CLAIMS_PER_QUERY
        /\ \A c \in DOMAIN credential.claims : ValidClaim(credential, c)
        /\ \A k \in DOMAIN credential.claimSets :
               ValidOptions(credential.claimSets[k], ClaimIds(credential))

CredentialIds(query) == {query.credentials[i].id : i \in DOMAIN query.credentials}

WithinBudget(query) ==
    /\ Len(query.credentials) \in 1..MAX_CREDENTIAL_QUERIES
    /\ \A i \in DOMAIN query.credentials : ValidCredential(query, i)
    /\ \A k \in DOMAIN query.credentialSets :
           /\ Len(query.credentialSets[k]) \in 1..MAX_SETS
           /\ \A s \in DOMAIN query.credentialSets[k] :
                  ValidOptions(query.credentialSets[k][s].options, CredentialIds(query))

Parses(query) == query.flaws \intersect ParseNeeds = {} /\ WithinBudget(query)

-----------------------------------------------------------------------------
(* The claims of a query in the verifier's order of preference: without    *)
(* claim sets, all of them.                                                *)
ClaimSelectionOptions(credential) ==
    LET Resolved(id) == CHOOSE i \in DOMAIN credential.claims : credential.claims[i].id = <<id>>
        Option(set) == [k \in DOMAIN set |-> credential.claims[Resolved(set[k])]]
    IN  IF credential.claimSets = <<>> THEN <<credential.claims>>
        ELSE [s \in DOMAIN credential.claimSets[1] |-> Option(credential.claimSets[1][s])]

-----------------------------------------------------------------------------
(* The plan: which of the credential queries are answered *)

IndexOf(query, id) == CHOOSE i \in DOMAIN query.credentials : query.credentials[i].id = id

(* The complete options of a credential set, as sets of query indices. *)
CompleteOptions(query, set, satisfiable) ==
    {o \in {{IndexOf(query, id) : id \in Range(set.options[k])} : k \in DOMAIN set.options} :
        o \subseteq satisfiable}

(* Fewer queries first, then the lower index where two plans first differ. *)
Preferred(left, right) ==
    LET differ == (left \ right) \union (right \ left)
    IN  \/ Cardinality(left) < Cardinality(right)
        \/ /\ Cardinality(left) = Cardinality(right)
           /\ differ = {} \/ Min(differ) \in left

(* Mutant: each required set is answered by its own preferred option. *)
MutantPlans(query, required, satisfiable) ==
    LET Best(set) == CHOOSE o \in CompleteOptions(query, set, satisfiable) :
                         \A p \in CompleteOptions(query, set, satisfiable) : Preferred(o, p)
    IN  IF \E s \in Range(required) : CompleteOptions(query, s, satisfiable) = {} THEN {}
        ELSE {UNION {Best(s) : s \in Range(required)}}

(* The unions of one complete option of every required set. *)
Plans(query, required, satisfiable) ==
    LET After[n \in 0..Len(required)] ==
            IF n = 0 THEN {{}}
            ELSE {p \union o : p \in After[n - 1],
                               o \in CompleteOptions(query, required[n], satisfiable)}
    IN  After[Len(required)]

(* The plan, as a sequence of at most one set of query indices. *)
CredentialSelectionPlan(query, satisfiable) ==
    LET Required(set) == set.required
        plans == Plans(query, SelectSeq(query.credentialSets[1], Required), satisfiable)
    IN  IF query.credentialSets = <<>>
        THEN IF satisfiable = DOMAIN query.credentials THEN <<satisfiable>> ELSE <<>>
        ELSE IF plans = {} THEN <<>>
        ELSE <<CHOOSE p \in plans : \A q \in plans : Preferred(p, q)>>

=============================================================================
