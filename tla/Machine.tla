------------------------------ MODULE Machine -------------------------------
(***************************************************************************)
(* The shape every sans-IO protocol machine of the wallet shares: a step   *)
(* takes a state and an input and returns the next state and the outputs   *)
(* for the facade.  req is the request a machine carries, left the number  *)
(* of signatures still to be made, why the reason of an abort.             *)
(*                                                                         *)
(* Every machine calls its transition function step and its states Phases; *)
(* a prefix (Vci, Vp, Pay, Qes, W2w, Iso) names the machine.               *)
(***************************************************************************)
EXTENDS Naturals, Sequences

CONSTANTS None,
          NonceOf  \* the nonce each request carries

Idle == [at |-> "Idle", req |-> None, left |-> 0, why |-> None]
Aborted(reason) == [Idle EXCEPT !.at = "Aborted", !.why = reason]

To(state, outputs) == [to |-> state, out |-> outputs]
Goto(s, phase, output) == To([s EXCEPT !.at = phase], <<output>>)

=============================================================================
