--------------------------- MODULE CertificatePath ---------------------------
(***************************************************************************)
(* Building and validating a certificate path from an unordered bundle to  *)
(* a trust anchor (crates/x509).                                           *)
(*                                                                         *)
(* A certificate is a record.  Its flaws are the needs of the certificate  *)
(* profile it does not meet.  Optional extension values are sequences of   *)
(* at most one value.  A distinguished name, a host, a mailbox or an       *)
(* address is the sequence of its labels, the most general first (a        *)
(* mailbox: its host, then the local part).  A signature is the key that   *)
(* made it.  Callers only ask whether validation succeeded, so its errors  *)
(* are not told apart.                                                     *)
(***************************************************************************)
EXTENDS Naturals, Sequences, FiniteSets, SequencesExt

CONSTANTS
    MAX_SUPPLIED_CERTIFICATES, MAX_TRUST_ANCHORS, MAX_ISSUER_CANDIDATES,
    MAX_PATH_BUILD_STEPS,
    AnyPolicy                       \* the anyPolicy identifier

-----------------------------------------------------------------------------
(* Parsing: what parse_cert refuses outright, and what it records as an    *)
(* error of the certificate that path validation reports later.            *)

ParseNeeds == {"der", "signature-algorithm", "public-key", "canonical-names",
               "unique-extensions", "general-names"}
Parses(cert) == cert.flaws \intersect ParseNeeds = {}

RecordedNeeds == {"policies", "policy-mappings", "policy-constraints",
                  "inhibit-any-policy", "name-constraints", "known-critical-extensions",
                  "same-signature-algorithm", "key-strength"}

Constrained(cert) == cert.permitted # {} \/ cert.excluded # {}

WellFormed(cert) ==
    /\ cert.flaws \intersect RecordedNeeds = {}
    /\ Constrained(cert) => cert.isCa

SelfIssued(cert) == cert.subject = cert.issuer

-----------------------------------------------------------------------------
(* Path building *)

IssuerNameMatches(child, parent) == child.issuer = parent.subject

AuthorityKeyMatches(child, parent) ==
    child.aki # <<>> /\ parent.ski # <<>> => child.aki = parent.ski

Issues(parent, child) == IssuerNameMatches(child, parent) /\ AuthorityKeyMatches(child, parent)

Candidates(child, pool) == {c \in pool \ {child} : Issues(c, child)}

(* The routes explore_paths visits: each starts at the leaf, follows       *)
(* candidate issuers and enters no certificate twice.                      *)
Routes(leaf, supplied) ==
    LET Extended(route) == {Append(route, c) :
                               c \in Candidates(Last(route), supplied) \ Range(route)}
        OfLength[n \in 1..Cardinality(supplied)] ==
            IF n = 1 THEN {<<leaf>>} ELSE UNION {Extended(r) : r \in OfLength[n - 1]}
    IN  UNION {OfLength[n] : n \in 1..Cardinality(supplied)}

BuiltPaths(routes, anchors) ==
    UNION {{Append(r, a) : a \in Candidates(Last(r), anchors)} : r \in routes}

(* A step is counted for every visit and for every candidate issuer seen. *)
WithinBudget(routes, supplied, anchors) ==
    LET Seen(r) == Cardinality(Candidates(Last(r), anchors))
                       + Cardinality(Candidates(Last(r), supplied))
        Steps(r) == 1 + Seen(r)
    IN  /\ \A r \in routes : Seen(r) <= MAX_ISSUER_CANDIDATES
        /\ MapThenSumSet(Steps, routes) <= MAX_PATH_BUILD_STEPS

-----------------------------------------------------------------------------
(* Name constraints *)

StrictlyBelow(labels, scope) == IsStrictPrefix(scope, labels)

(* A constraint covers a name: the host of a URI exactly, or strictly below *)
(* a domain; the others the subtree; a mailbox constraint one mailbox.      *)
ConstraintMatches(name, constraint) ==
    LET labels == IF name.form = "email" /\ constraint.scope # "mailbox"
                  THEN Front(name.labels) ELSE name.labels
    IN  CASE constraint.scope \in {"host", "mailbox"} -> labels = constraint.labels
          [] constraint.scope = "below"   -> StrictlyBelow(labels, constraint.labels)
          [] constraint.scope = "subtree" -> IsPrefix(constraint.labels, labels)

OfForm(form, constraints) == {c \in constraints : c.form = form}

NameConforms(name, permitted, excluded) ==
    LET may == OfForm(name.form, permitted)
        mustNot == OfForm(name.form, excluded)
    IN  \/ name.form = "uri" /\ may = {} /\ mustNot = {}
        \/ /\ name.canonical
           /\ \A c \in mustNot : ~ConstraintMatches(name, c)
           /\ may # {} => \E c \in may : ConstraintMatches(name, c)

NamesOf(cert) ==
    cert.names \union {[form |-> "directory", labels |-> cert.subject, canonical |-> TRUE]}

(* Every issuer constrains the certificates below it, except the           *)
(* self-issued ones that are not the leaf.                                 *)
NamesConform(path) ==
    \A i \in 2..Len(path) : \A j \in 1..i - 1 :
        Constrained(path[i]) /\ (j = 1 \/ ~SelfIssued(path[j])) =>
            \A name \in NamesOf(path[j]) :
                NameConforms(name, path[i].permitted, path[i].excluded)

-----------------------------------------------------------------------------
(* Certificate policies *)

Least(counter, limit) == IF limit # <<>> /\ limit[1] < counter THEN limit[1] ELSE counter
Decrement(counter) == IF counter = 0 THEN 0 ELSE counter - 1

(* The policies valid so far (<<>>: any) restricted by a certificate's own. *)
RestrictPolicies(valid, policies, anyAllowed) ==
    LET own == IF policies = <<>> THEN {} ELSE policies[1]
        concrete == own \ {AnyPolicy}
        any == AnyPolicy \in own /\ anyAllowed
    IN  CASE policies = <<>>     -> <<{}>>
          [] valid = <<>> /\ any -> <<>>
          [] valid = <<>>        -> <<concrete>>
          [] OTHER               -> <<IF any THEN valid[1] ELSE valid[1] \intersect concrete>>

MapPolicies(valid, mappings) ==
    LET Mapped(policies, m) == IF m.from \in valid[1]
                               THEN (policies \ {m.from}) \union {m.to} ELSE policies
    IN  IF valid = <<>> THEN valid ELSE <<FoldLeft(Mapped, valid[1], mappings)>>

(* One certificate, seen from the anchor's side. *)
PolicyStep(state, cert, isLeaf) ==
    LET valid == MapPolicies(RestrictPolicies(state.valid, cert.policies, state.anyPolicy > 0),
                             cert.mappings)
        Next(counter) == IF ~SelfIssued(cert) \/ isLeaf THEN Decrement(counter) ELSE counter
    IN  [ok |-> /\ state.ok
                /\ cert.mappings # <<>> => cert.isCa /\ state.mapping > 0
                /\ ~(state.explicit = 0 /\ valid = <<{}>>),
         valid |-> valid,
         explicit |-> Least(Next(state.explicit), cert.requireExplicitPolicy),
         mapping |-> Least(Next(state.mapping), cert.inhibitPolicyMapping),
         anyPolicy |-> Least(Next(state.anyPolicy), cert.inhibitAnyPolicy)]

PolicyResult(path) ==
    LET count == Len(path) - 1
        start == [ok |-> TRUE, valid |-> <<>>, explicit |-> count + 1,
                  mapping |-> count + 1, anyPolicy |-> count + 1]
        After[n \in 0..count] ==
            IF n = 0 THEN start
            ELSE PolicyStep(After[n - 1], path[Len(path) - n], n = count)
    IN  After[count]

EffectivePolicies(path) ==
    LET valid == PolicyResult(path).valid
        own == path[1].policies
    IN  IF valid # <<>> THEN valid[1] ELSE IF own = <<>> THEN {} ELSE own[1] \ {AnyPolicy}

-----------------------------------------------------------------------------
(* Validation of a built path, leaf first, anchor last *)

LeafNeeds == {"key-usage", "digital-signature"}
IssuerNeeds == {"basic-constraints", "critical-basic-constraints", "key-usage",
                "key-cert-sign"}

PathLengthRespected(path, i) ==
    LET below == {j \in 2..i - 1 : ~SelfIssued(path[j])}
    IN  \A k \in DOMAIN path[i].pathLen : Cardinality(below) <= path[i].pathLen[k]

SignatureVerifies(child, parent) ==
    child.signer = parent.key /\ "compatible-signature" \notin child.flaws

ValidBuiltPath(path, now) ==
    /\ \A i \in DOMAIN path : WellFormed(path[i]) /\ now \in path[i].notBefore..path[i].notAfter
    /\ ~path[1].isCa
    /\ path[1].flaws \intersect LeafNeeds = {}
    /\ \A i \in 2..Len(path) : /\ path[i].isCa
                               /\ path[i].flaws \intersect IssuerNeeds = {}
                               /\ PathLengthRespected(path, i)
    /\ NamesConform(path)
    /\ PolicyResult(path).ok
    /\ \A i \in 1..Len(path) - 1 : /\ Issues(path[i + 1], path[i])
                                   /\ SignatureVerifies(path[i], path[i + 1])

(* The supplied certificates that issued none of the others. *)
Leaves(supplied) ==
    {c \in supplied : \A d \in supplied \ {c} : ~IssuerNameMatches(d, c)}

(* The valid paths of a bundle: validation succeeds with the one there is. *)
ValidPaths(chain, trustAnchors, now) ==
    LET supplied == Range(chain)
        anchors == Range(trustAnchors)
        routes == Routes(CHOOSE c \in Leaves(supplied) : TRUE, supplied)
    IN  IF /\ chain # <<>> /\ Len(chain) <= MAX_SUPPLIED_CERTIFICATES
           /\ trustAnchors # <<>> /\ Len(trustAnchors) <= MAX_TRUST_ANCHORS
           /\ IsInjective(chain) /\ IsInjective(trustAnchors)
           /\ \A c \in supplied : Parses(c)
           /\ supplied \intersect anchors = {}
           /\ Cardinality(Leaves(supplied)) = 1
           /\ WithinBudget(routes, supplied, anchors)
        THEN {p \in BuiltPaths(routes, anchors) : ValidBuiltPath(p, now)}
        ELSE {}

(* Mutant: of several valid paths any one is taken. *)
MutantTheOnly(valid) == IF valid # {} THEN <<CHOOSE p \in valid : TRUE>> ELSE <<>>

(* Validation is refused when the bundle allows more than one path. *)
TheOnly(valid) == IF Cardinality(valid) = 1 THEN <<CHOOSE p \in valid : TRUE>> ELSE <<>>

(* The validated path, or <<>>. *)
ValidatePath(chain, trustAnchors, now) == TheOnly(ValidPaths(chain, trustAnchors, now))

-----------------------------------------------------------------------------
(* The credential issuer profile *)

UriNames(cert) == {n \in cert.names : n.form = "uri"}

(* A canonical HTTPS origin *)
ValidHttpsIssuerIdentity(name) == name.canonical /\ name.origin

(* The identity and key of the issuer at the end of a path, or <<>>. *)
IssuerOf(path) ==
    LET leaf == path[1][1]
        identity == CHOOSE n \in UriNames(leaf) : TRUE
    IN  IF /\ path # <<>>
           /\ ~leaf.isCa
           /\ Cardinality(UriNames(leaf)) = 1
           /\ ValidHttpsIssuerIdentity(identity)
        THEN <<[identity |-> identity.labels, key |-> leaf.key,
                notBefore |-> leaf.notBefore, notAfter |-> leaf.notAfter]>>
        ELSE <<>>

CheckCredentialIssuer(chain, trustAnchors, now) ==
    IssuerOf(ValidatePath(chain, trustAnchors, now))

-----------------------------------------------------------------------------
(* The relying party profile *)

(* A leaf for reader authentication with a policy that the path leaves it. *)
RelyingPartyOf(path) ==
    LET leaf == path[1][1]
        Dns(name) == name.form = "dns"
    IN  IF /\ path # <<>>
           /\ ~leaf.isCa
           /\ "reader-authentication" \notin leaf.flaws
           /\ EffectivePolicies(path[1]) # {}
        THEN <<[subject |-> leaf.subject, dnsSans |-> {n \in leaf.names : Dns(n)}]>>
        ELSE <<>>

CheckRelyingParty(chain, trustAnchors, now) ==
    RelyingPartyOf(ValidatePath(chain, trustAnchors, now))

=============================================================================
