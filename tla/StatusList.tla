----------------------------- MODULE StatusList -----------------------------
(***************************************************************************)
(* Token status lists: verification of a status list token, how long the   *)
(* verified list may be used, and the status it gives an index             *)
(* (crates/status).  A token is a record with a set of unmet needs         *)
(* (flaws); expires and ttl are sequences of at most one number.           *)
(***************************************************************************)
EXTENDS Checks

CONSTANTS
    MAX_STATUS_AGE_SECONDS,     \* a list is never used longer after its issue
    DEFAULT_CACHE_TTL_SECONDS,  \* the time to live of a list that states none
    CLOCK_SKEW_SECONDS          \* how far in the future a list may be issued

HeaderNeeds == <<"typ", "no-crit", "no-jwk", "no-jku", "no-x5u">>

TimeChecks(token, now) ==
    <<Require("iat" \notin token.flaws, "Malformed"),
      Require(token.issuedAt <= now + CLOCK_SKEW_SECONDS, "NotYetValid"),
      Require(token.issuedAt + MAX_STATUS_AGE_SECONDS >= now, "Stale"),
      Require("exp" \notin token.flaws, "Malformed"),
      Require(\A i \in DOMAIN token.expires :
                  token.expires[i] > token.issuedAt /\ now < token.expires[i], "Expired"),
      Require(\A i \in DOMAIN token.ttl : token.ttl[i] > 0, "Malformed")>>

ListChecks(token) ==
    <<Require("status-list" \notin token.flaws, "Malformed"),
      Require(token.bits \in {1, 2, 4, 8}, "UnsupportedBits"),
      Require("lst" \notin token.flaws, "Malformed"),
      Require("encoded-size" \notin token.flaws, "ResourceLimit"),
      Require("base64" \notin token.flaws, "Malformed"),
      Require("inflated-size" \notin token.flaws, "ResourceLimit"),
      Require("deflate" \notin token.flaws, "Malformed"),
      Require(token.list # <<>>, "Malformed")>>

ParseAndVerify(token, expectedUri, providerKey, now) ==
       RequireAll(token.flaws, <<"token-size">>, "ResourceLimit")
    \o RequireAll(token.flaws, <<"utf8", "three-parts", "header">>, "Malformed")
    \o RequireAll(token.flaws, <<"alg">>, "UnsupportedAlg")
    \o RequireAll(token.flaws, HeaderNeeds, "UnsupportedHeader")
    \o RequireAll(token.flaws, <<"signature-base64">>, "Malformed")
    \o <<Require(token.signer = providerKey, "BadSignature")>>
    \o RequireAll(token.flaws, <<"payload", "sub">>, "Malformed")
    \o <<Require(token.subject = expectedUri, "SubjectMismatch")>>
    \o TimeChecks(token, now)
    \o ListChecks(token)

Ttl(token) ==
    IF token.ttl = <<>> THEN DEFAULT_CACHE_TTL_SECONDS
    ELSE Min({token.ttl[1], MAX_STATUS_AGE_SECONDS})

(* Mutant: the age limit counts from when the list was received. *)
MutantFreshUntil(token, now) ==
    Min({now + Ttl(token), now + MAX_STATUS_AGE_SECONDS}
            \union {token.expires[i] : i \in DOMAIN token.expires})

FreshUntil(token, now) ==
    Min({now + Ttl(token), token.issuedAt + MAX_STATUS_AGE_SECONDS}
            \union {token.expires[i] : i \in DOMAIN token.expires})

(* The verified list of a token that ParseAndVerify admits at now. *)
Verified(token, now) ==
    [subject |-> token.subject, bits |-> token.bits, list |-> token.list,
     issuedAt |-> token.issuedAt, freshUntil |-> FreshUntil(token, now)]

IsFreshAt(list, now) ==
    now + CLOCK_SKEW_SECONDS >= list.issuedAt /\ now < list.freshUntil

(* Entries of `bits` bits are packed into bytes, the first one lowest. *)
StatusAt(list, index) ==
    LET perByte == 8 \div list.bits
        byte == index \div perByte + 1
        slot == index % perByte
        value == (list.list[byte] \div 2^(slot * list.bits)) % 2^list.bits
    IN  IF byte > Len(list.list) THEN "Unknown"
        ELSE IF value < 3 THEN <<"Valid", "Invalid", "Suspended">>[value + 1]
        ELSE "Unknown"

=============================================================================
