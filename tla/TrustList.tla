------------------------------ MODULE TrustList ------------------------------
(***************************************************************************)
(* The signed trusted list: parsing and verification of a list, and the    *)
(* store that holds the newest one (crates/trust).                         *)
(*                                                                         *)
(* A signed list is a record: its signer, sequence number, validity,       *)
(* anchors and issuer registrations, and the set of needs of the format    *)
(* that it does not meet (flaws).  The store is a sequence of at most one  *)
(* list.                                                                   *)
(***************************************************************************)
EXTENDS Checks

ParseAnchors(flaws) ==
    RequireAll(flaws, <<"anchors-array", "anchor-cert", "anchor-cert-base64",
                        "anchor-service", "anchor-status">>, "Malformed")

ParseRelyingParties(flaws) ==
    RequireAll(flaws, <<"relying-parties-array", "relying-parties-count", "client-id",
                        "client-id-unique", "rp-display-name", "trust-mark", "retention",
                        "allowed-claims", "redirect-uris">>, "Malformed")

ParseIssuers(flaws) ==
    RequireAll(flaws, <<"issuers-array", "issuers-count", "issuer-id",
                        "issuer-id-unique", "issuer-display-name">>, "Malformed")

ParseAndVerify(list, operatorKey, now) ==
       RequireAll(list.flaws, <<"utf8", "three-parts", "header">>, "Malformed")
    \o RequireAll(list.flaws, <<"known-alg">>, "UnsupportedAlg")
    \o RequireAll(list.flaws, <<"signature-base64">>, "Malformed")
    \o <<Require(list.signer = operatorKey, "BadSignature")>>
    \o RequireAll(list.flaws, <<"payload", "seq", "valid-from", "valid-until">>, "Malformed")
    \o <<Require(now \in list.validFrom..list.validUntil, "Expired")>>
    \o ParseAnchors(list.flaws)
    \o ParseRelyingParties(list.flaws)
    \o ParseIssuers(list.flaws)

NoList == <<>>

Update(store, list) ==
    <<Require(\A i \in DOMAIN store : list.sequence > store[i].sequence, "Rollback")>>

IsValidAt(store, now) ==
    \E i \in DOMAIN store : now >= store[i].validFrom /\ now <= store[i].validUntil

(* The certificates of the granted anchors of a service, in the list's order. *)
GrantedAnchors(store, service) ==
    LET Granted(a) == a.service = service /\ a.status = "granted"
        anchors == IF store = NoList THEN <<>> ELSE SelectSeq(store[1].anchors, Granted)
    IN  [i \in DOMAIN anchors |-> anchors[i].cert]

GrantedAnchorsAt(store, service, now) ==
    IF IsValidAt(store, now) THEN GrantedAnchors(store, service) ELSE <<>>

=============================================================================
