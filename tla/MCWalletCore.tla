---------------------------- MODULE MCWalletCore ----------------------------
(***************************************************************************)
(* Small instances of WalletCore.                                          *)
(***************************************************************************)
EXTENDS WalletCore, TLC

CONSTANTS r1, r2, r3, n1, n2, c1, c2, u1, u2

(* Two requests share a nonce: a request sent again with other content.    *)
MCNonceOf == (r1 :> n1) @@ (r2 :> n1) @@ (r3 :> n2)
DistinctNonces == (r1 :> n1) @@ (r2 :> n2)
MCGrantOf == (r1 :> "AuthorizationCode") @@ (r2 :> "PreAuthorizedTxCode")
             @@ (r3 :> "PreAuthorized")
PreAuthorizedGrantOf == (r1 :> "PreAuthorized") @@ (r2 :> "AuthorizationCode")

OneExpires == (c1 :> 2) @@ (c2 :> 3)
NoneExpires == (c1 :> 3) @@ (c2 :> 3)
OneList == (c1 :> u1) @@ (c2 :> None)
TwoLists == (c1 :> u1) @@ (c2 :> u2)
NoLists == (c1 :> None) @@ (c2 :> None)

TrustedList(until) == [rp |-> TRUE, issuer |-> TRUE, status |-> TRUE, until |-> until]
StableTrust == <<TrustedList(3)>>
ChangingTrust == <<TrustedList(2), [TrustedList(3) EXCEPT !.rp = FALSE],
                   [TrustedList(3) EXCEPT !.status = FALSE]>>

Says(verdict) == [x \in {c1, c2} |-> IF x = c1 THEN verdict ELSE "Valid"]
MCStatusLists == {[until |-> 2, says |-> Says("Valid")],
                  [until |-> 3, says |-> Says("Invalid")],
                  [until |-> 3, says |-> Says("Unknown")]}
ValidLists == {[until |-> 2, says |-> Says("Valid")],
               [until |-> 4, says |-> Says("Valid")]}

=============================================================================
