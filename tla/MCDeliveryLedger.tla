-------------------------- MODULE MCDeliveryLedger --------------------------
(* Instance of DeliveryLedger for TLC. *)
EXTENDS DeliveryLedger, TLC

CONSTANTS empty, full, a1, a2

MCSizeOf == (empty :> 0) @@ (full :> 2)

\* A delivery that may be retried and one that may not; two of the larger
\* ones do not fit into the budget together.
MCSpecs == {[kind |-> "Http", request |-> empty, capacity |-> 2],
            [kind |-> "Sign", request |-> full, capacity |-> 2]}
=============================================================================
