------------------------ MODULE MCDurableLifecycle ------------------------
(***************************************************************************)
(* Instances of DurableLifecycle for TLC: two concurrent executor calls,   *)
(* on one executor or on two executors over the same coordinator.          *)
(***************************************************************************)
EXTENDS DurableLifecycle, TLC

CONSTANTS t1, t2, x1, x2

OneExecutor == [t \in Tasks |-> x1]
TwoExecutors == (t1 :> x1) @@ (t2 :> x2)

\* A screen; a delivery followed by nothing, answered by close; the error
\* screen with close; the offer publication; an effect after close.
SmallBatches == {<<"render">>, <<"deliver">>, <<"close">>}
RichBatches == SmallBatches \union
  {<<>>, <<"error", "close">>, <<"publish">>, <<"operate", "emit">>, <<"close", "render">>}
=============================================================================
