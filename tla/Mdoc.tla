-------------------------------- MODULE Mdoc --------------------------------
(***************************************************************************)
(* ISO mdoc credentials: dates, verification of the issuer-signed items    *)
(* (crates/mdoc), and the wallet's minimisation of what it presents        *)
(* (crates/wallet-core).                                                   *)
(*                                                                         *)
(* A date is the record of its written components; its fraction is the     *)
(* sequence of its decimal digits and its offset is in minutes.  The       *)
(* digest of an item is the item itself, so it is injective.               *)
(***************************************************************************)
EXTENDS Integers, Checks, Functions, SequencesExt

-----------------------------------------------------------------------------
(* Dates *)

IsLeap(year) == year % 4 = 0 /\ (year % 100 # 0 \/ year % 400 = 0)

MonthDays(year, month) ==
    <<31, IF IsLeap(year) THEN 29 ELSE 28, 31, 30, 31, 30, 31, 31, 30, 31, 30, 31>>[month]

(* The components are in range; an offset of -00:00 is the flaw "date". *)
ValidDate(date) ==
    /\ date.year \in 1..9999
    /\ date.month \in 1..12
    /\ date.day \in 1..MonthDays(date.year, date.month)
    /\ date.hour \in 0..23 /\ date.minute \in 0..59 /\ date.second \in 0..59
    /\ date.offset \in -(23 * 60 + 59)..(23 * 60 + 59)

(* Days since 1970-01-01, counted in eras of 400 years that start in March. *)
CivilDays(date) ==
    LET year == date.year - IF date.month <= 2 THEN 1 ELSE 0
        era == year \div 400
        yearOfEra == year - era * 400
        month == date.month + IF date.month > 2 THEN -3 ELSE 9
        dayOfYear == (153 * month + 2) \div 5 + date.day - 1
        dayOfEra == yearOfEra * 365 + yearOfEra \div 4 - yearOfEra \div 100 + dayOfYear
    IN  era * 146097 + dayOfEra - 719468

UnixSeconds(date) ==
    CivilDays(date) * 86400 + date.hour * 3600 + date.minute * 60 + date.second
        - date.offset * 60

(* Trailing zeroes of a fraction do not count. *)
Fraction(date) ==
    LET used == {i \in DOMAIN date.fraction : date.fraction[i] # 0}
    IN  IF used = {} THEN <<>> ELSE SubSeq(date.fraction, 1, Max(used))

UnixSecondsCeil(date) == UnixSeconds(date) + IF Fraction(date) = <<>> THEN 0 ELSE 1

(* The order of the instants. *)
Later(a, b) ==
    LET x == Fraction(a)
        y == Fraction(b)
        Digit(f, i) == IF i \in DOMAIN f THEN f[i] ELSE 0
        differ == {i \in DOMAIN x \union DOMAIN y : Digit(x, i) # Digit(y, i)}
    IN  \/ UnixSeconds(a) > UnixSeconds(b)
        \/ /\ UnixSeconds(a) = UnixSeconds(b)
           /\ differ # {}
           /\ Digit(x, Min(differ)) > Digit(y, Min(differ))

-----------------------------------------------------------------------------
(* Verification *)

ParseItems(doc) ==
    RequireAll(doc.flaws, <<"item-map", "item-digest-id", "item-random", "item-element",
                            "item-value">>, "MalformedCredential")

ParseIssuerSigned(doc) ==
       RequireAll(doc.flaws, <<"utf8", "base64", "canonical-cbor", "issuer-signed-map",
                               "name-spaces">>, "MalformedCredential")
    \o ParseItems(doc)
    \o RequireAll(doc.flaws, <<"issuer-auth">>, "MalformedCredential")

(* What MobileSecurityObject::from_value needs of the signed payload *)
MsoNeeds == <<"mso-map", "value-digests", "digest-length", "validity-info", "mso-status",
              "mso-version-text", "mso-algorithm-text", "mso-doctype-text">>

DatesParse(mso) == \A date \in {mso.signed, mso.validFrom, mso.validUntil} : ValidDate(date)

VerifyIssuerSigned(doc, issuerKey) ==
       <<Require("payload" \notin doc.flaws, "SignatureInvalid"),
         Require(doc.signer = issuerKey, "SignatureInvalid")>>
    \o RequireAll(doc.flaws, MsoNeeds, "SignatureInvalid")
    \o <<Require(DatesParse(doc.mso), "SignatureInvalid"),
         Require(doc.items \subseteq doc.mso.digests, "SignatureInvalid")>>

-----------------------------------------------------------------------------
(* Presentation *)

ValuesAt(doc, path) ==
    {i.value : i \in {j \in doc.items : j.namespace = path[1] /\ j.element = path[2]}}

(* The issuer-signed items a request asks for. *)
Minimise(doc, paths) ==
    {i \in doc.items : \E p \in paths : i.namespace = p[1] /\ i.element = p[2]}

=============================================================================
