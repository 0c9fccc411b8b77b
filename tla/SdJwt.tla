-------------------------------- MODULE SdJwt --------------------------------
(***************************************************************************)
(* SD-JWT credentials: parsing, recursive processing of the disclosures    *)
(* (crates/sdjwt), and the wallet's choice of the disclosures that answer  *)
(* a set of requested paths (crates/wallet-core).                          *)
(*                                                                         *)
(* A JSON value is a scalar, an object with its members and the digests of *)
(* its "_sd" member, or an array whose items are values or holes (the      *)
(* digest of an undisclosed element).  A disclosure is known by its        *)
(* digest.  The registered control claims (iss, vct, cnf, iat, ...) are    *)
(* the record `control` of a credential, the other claims its payload.     *)
(***************************************************************************)
EXTENDS Checks, Functions, SequencesExt

CONSTANTS MAX_NESTING_DEPTH, MAX_EMBEDDED_DIGESTS

SDJWT_CONTROL_CLAIMS == {"iss", "vct", "cnf", "iat", "nbf", "exp", "status",
                         "vct#integrity"}
Reserved == {"_sd", "_sd_alg", "..."}

(* The elements of a path *)
Name(name) == [name |-> name]
Index(index) == [index |-> index]

-----------------------------------------------------------------------------
(* Disclosure processing *)

Unchanged(value) == [value |-> value, verified |-> {}, seen |-> {}, count |-> 0, ok |-> TRUE]

(* What the parts of a value contribute to its own result. *)
Merged(value, parts, digests, ok) ==
    LET Count(p) == p[2].count
    IN  [value |-> value,
         verified |-> UNION {p[2].verified : p \in parts},
         seen |-> Range(digests) \union UNION {p[2].seen : p \in parts},
         count |-> Len(digests) + MapThenSumSet(Count, parts),
         ok |-> ok /\ \A p \in parts : p[2].ok]

RECURSIVE Process(_, _, _, _, _)

(* A disclosed value is processed below its own digest. *)
Open(d, path, parent, disclosures, depth) ==
    LET inner == Process(d.value, path, <<d.digest>>, disclosures, depth)
    IN  [inner EXCEPT !.verified = @ \union {[digest |-> d.digest, path |-> path,
                                              parent |-> parent]}]

ProcessObject(object, path, parent, disclosures, depth) ==
    LET found == {d \in disclosures : d.digest \in Range(object.sd)}
        named == {d \in found : d.name # <<>>}
        names == {d.name[1] : d \in named}
        Disclosed(name) == CHOOSE d \in named : d.name[1] = name
        part == [name \in DOMAIN object.members \union names |->
                    IF name \in DOMAIN object.members
                    THEN Process(object.members[name], Append(path, Name(name)), parent,
                                 disclosures, depth + 1)
                    ELSE Open(Disclosed(name), Append(path, Name(name)), parent,
                              disclosures, depth + 1)]
        value == [kind |-> "object", members |-> [n \in DOMAIN part |-> part[n].value],
                  sd |-> <<>>]
    IN  Merged(value, {<<n, part[n]>> : n \in DOMAIN part}, object.sd,
               /\ found = named
               /\ Cardinality(names) = Cardinality(named)
               /\ names \intersect (DOMAIN object.members \union Reserved) = {})

(* An undisclosed element vanishes and the ones after it move up. *)
ProcessArray(array, path, parent, disclosures, depth) ==
    LET Hole(item) == item.kind = "hole"
        Filling(item) == {d \in disclosures : d.digest = item.digest}
        Stays(item) == Hole(item) => Filling(item) # {}
        kept == SelectSeq(array.items, Stays)
        holes == SelectSeq(array.items, Hole)
        part == [i \in DOMAIN kept |->
                    IF Hole(kept[i])
                    THEN Open(CHOOSE d \in Filling(kept[i]) : TRUE, Append(path, Index(i - 1)),
                              parent, disclosures, depth + 1)
                    ELSE Process(kept[i], Append(path, Index(i - 1)), parent, disclosures,
                                 depth + 1)]
    IN  Merged([kind |-> "array", items |-> [i \in DOMAIN kept |-> part[i].value]],
               {<<i, part[i]>> : i \in DOMAIN kept},
               [i \in DOMAIN holes |-> holes[i].digest],
               \A i \in DOMAIN kept : Hole(kept[i]) => \A d \in Filling(kept[i]) : d.name = <<>>)

Process(value, path, parent, disclosures, depth) ==
    IF depth > MAX_NESTING_DEPTH THEN [Unchanged(value) EXCEPT !.ok = FALSE]
    ELSE CASE value.kind = "scalar" -> Unchanged(value)
           [] value.kind = "object" -> ProcessObject(value, path, parent, disclosures, depth)
           [] value.kind = "array"  -> ProcessArray(value, path, parent, disclosures, depth)

(* A digest met twice and a disclosure met nowhere are refused. *)
Complete(result, disclosures) ==
    [result EXCEPT !.ok = /\ @
                          /\ result.count = Cardinality(result.seen)
                          /\ result.count <= MAX_EMBEDDED_DIGESTS
                          /\ {d.digest : d \in disclosures} \subseteq result.seen]

(* The processed payload of a credential with the given disclosures. *)
Processed(payload, disclosures) ==
    Complete(Process(payload, <<>>, <<>>, disclosures, 0), disclosures)

-----------------------------------------------------------------------------
(* Verification of an issued credential *)

ParseNeeds == <<"utf8", "compact-size", "two-parts", "jws-size", "jws-form", "key-binding-form",
                "disclosure-count", "disclosure-size", "no-empty-disclosure">>

Parse(doc) == RequireAll(doc.flaws, ParseNeeds, "MalformedCredential")

IssuerAlgorithm(doc) ==
    RequireAll(doc.flaws, <<"jws-header", "typ", "no-crit", "known-alg">>, "MalformedCredential")

(* processed: what the payload of the document becomes *)
VerifyAndProcess(doc, issuerKey, processed) ==
       RequireAll(doc.flaws, <<"typ">>, "MalformedCredential")
    \o <<Require(doc.signer = issuerKey, "SignatureInvalid")>>
    \o RequireAll(doc.flaws, <<"payload-object", "sd-alg", "disclosure-form">>,
                  "MalformedCredential")
    \o <<Require(IsInjective(doc.disclosures), "MalformedCredential"),
         Require(processed.ok, "MalformedCredential")>>
    \o RequireAll(doc.flaws, <<"processed-size">>, "MalformedCredential")

(* A control claim is stated by the issuer in the clear, never disclosed. *)
ValidateIssuerProfile(doc, processed) ==
    <<Require(~doc.keyBinding, "MalformedCredential"),
      Require("required-controls" \notin doc.flaws, "MalformedCredential"),
      Require(DOMAIN processed.value.members \intersect SDJWT_CONTROL_CLAIMS = {},
              "MalformedCredential"),
      Require("no-placeholder-in-control" \notin doc.flaws, "MalformedCredential")>>

(* The compatibility view keeps the disclosures of top-level members. *)
HeldCredential(doc, processed) ==
    [issuerJwt |-> doc.jwt,
     disclosuresByClaim |-> {<<v.path[1], v.digest>> :
                                v \in {w \in processed.verified : Len(w.path) = 1}},
     status |-> doc.control.status]

-----------------------------------------------------------------------------
(* Paths into a processed payload *)

AnyIndex == [any |-> TRUE]

Steps(element, value) ==
    CASE value.kind = "object" ->
             {[at |-> Name(n), value |-> value.members[n]] :
                 n \in {m \in DOMAIN value.members : element = Name(m)}}
      [] value.kind = "array" ->
             {[at |-> Index(i - 1), value |-> value.items[i]] :
                 i \in {j \in DOMAIN value.items : element \in {AnyIndex, Index(j - 1)}}}
      [] OTHER -> {}

(* The paths of a value that a requested path leads to, with their values. *)
MatchingValues(root, requested) ==
    LET Onward(m, n) == {[path |-> Append(m.path, s.at), value |-> s.value] :
                            s \in Steps(requested[n], m.value)}
        After[n \in 0..Len(requested)] ==
            IF n = 0 THEN {[path |-> <<>>, value |-> root]}
            ELSE UNION {Onward(m, n) : m \in After[n - 1]}
    IN  After[Len(requested)]

RECURSIVE LeafPaths(_, _)

(* The paths of the leaves; an empty container is a leaf. *)
LeafPaths(value, path) ==
    CASE value.kind = "object" /\ DOMAIN value.members # {} ->
             UNION {LeafPaths(value.members[n], Append(path, Name(n))) :
                       n \in DOMAIN value.members}
      [] value.kind = "array" /\ value.items # <<>> ->
             UNION {LeafPaths(value.items[i], Append(path, Index(i - 1))) :
                       i \in DOMAIN value.items}
      [] OTHER -> {path} \ {<<>>}

-----------------------------------------------------------------------------
(* The choice of disclosures *)

(* Mutant: what lies below a requested container is not disclosed. *)
MutantTouching(verified, paths) ==
    {v.digest : v \in {w \in verified : \E p \in paths : IsPrefix(w.path, p)}}

(* The disclosures on the way to a requested path, or below it. *)
Touching(verified, paths) ==
    {v.digest : v \in {w \in verified : \E p \in paths : IsPrefix(w.path, p) \/ IsPrefix(p, w.path)}}

(* add_sdjwt_disclosure_dependencies, repeated until nothing is added *)
WithParents(verified, digests) ==
    LET Grown(set) == set \union UNION {Range(v.parent) : v \in {w \in verified : w.digest \in set}}
        After[n \in 0..Cardinality(verified)] ==
            IF n = 0 THEN digests ELSE Grown(After[n - 1])
    IN  After[Cardinality(verified)]

(* Mutant: a claim is shown when its innermost disclosure is selected. *)
MutantVisibleClaims(processed, digests) ==
    {p \in LeafPaths(processed.value, <<>>) :
        \A v \in processed.verified : v.path = p => v.digest \in digests}

(* What consent shows: the leaves all of whose enclosing disclosures are selected. *)
VisibleClaims(processed, digests) ==
    {p \in LeafPaths(processed.value, <<>>) :
        \A v \in processed.verified : IsPrefix(v.path, p) => v.digest \in digests}

SelectDisclosures(processed, paths) ==
    LET digests == WithParents(processed.verified, Touching(processed.verified, paths))
    IN  [disclosures |-> digests, revealed |-> VisibleClaims(processed, digests)]

=============================================================================
