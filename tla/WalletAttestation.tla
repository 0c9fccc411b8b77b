-------------------------- MODULE WalletAttestation --------------------------
(***************************************************************************)
(* The Wallet Unit Attestation: verification, and what it attests at a     *)
(* later time (crates/wua).                                                *)
(***************************************************************************)
EXTENDS Checks

Rank == [Low |-> 0, Substantial |-> 1, High |-> 2]

ParseAndVerify(wua, providerKey, now) ==
       RequireAll(wua.flaws, <<"utf8", "three-parts", "header">>, "Malformed")
    \o RequireAll(wua.flaws, <<"known-alg">>, "UnsupportedAlg")
    \o RequireAll(wua.flaws, <<"signature-base64">>, "Malformed")
    \o <<Require(wua.signer = providerKey, "BadSignature")>>
    \o RequireAll(wua.flaws, <<"payload", "exp">>, "Malformed")
    \o <<Require(now < wua.validUntil, "Expired")>>
    \o RequireAll(wua.flaws, <<"aal", "cnf-jwk">>, "Malformed")

AttestsKey(wua, key) == wua.key = key
Meets(wua, min) == Rank[wua.level] >= Rank[min]
IsValidFor(wua, key, min) == AttestsKey(wua, key) /\ Meets(wua, min)
IsValidForAt(wua, key, min, now) == now < wua.validUntil /\ IsValidFor(wua, key, min)

=============================================================================
