------------------------------- MODULE Checks -------------------------------
(***************************************************************************)
(* A validator of the wallet is a list of checks with early returns: the   *)
(* first check that fails decides the error.  A validator is modelled as   *)
(* the sequence of its checks in the order of the code.                    *)
(*                                                                         *)
(* The content of a document that a validator only accepts or rejects is   *)
(* abstracted to the set of needs it leaves unmet, its flaws.              *)
(***************************************************************************)
EXTENDS Naturals, Sequences, FiniteSetsExt

Require(holds, error) == [holds |-> holds, error |-> error]

(* The needs, met or not by a document with these flaws, that share an error. *)
RequireAll(flaws, needs, error) ==
    [i \in DOMAIN needs |-> Require(needs[i] \notin flaws, error)]

Failing(checks) == {i \in DOMAIN checks : ~checks[i].holds}
Passes(checks) == Failing(checks) = {}
FirstError(checks) == checks[Min(Failing(checks))].error

(* Checks made only when the ones before them hold. *)
Then(checks, more) == IF Passes(checks) THEN checks \o more ELSE checks

(* The same checks made on a member of a document: a flaw of the member is *)
(* the pair of the member's name and the flaw.                             *)
FlawsOf(member, flaws) == {f[2] : f \in {g \in flaws : g[1] = member}}

=============================================================================
