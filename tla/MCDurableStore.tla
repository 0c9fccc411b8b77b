--------------------------- MODULE MCDurableStore ---------------------------
(* Instance of DurableStore for TLC. *)
EXTENDS DurableStore, TLC

CONSTANTS c1, c2, c3, small, big, n1, x1, x2

\* Two processes of one application context and one of another.
MCClients == {c1, c2, c3}
MCContexts == {x1, x2}
MCContextOf == (c1 :> x1) @@ (c2 :> x1) @@ (c3 :> x2)

\* One of the two plaintexts is above the size limit.
MCPayloads == {small, big}
MCTooLarge == {big}
MCNonces == {n1}
=============================================================================
