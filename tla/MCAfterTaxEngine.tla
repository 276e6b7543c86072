-------------------------- MODULE MCAfterTaxEngine --------------------------
(* A small market for AfterTaxEngine: two tickers, a handful of market days *)
(* and the weights a rule switches between.                                 *)
EXTENDS AfterTaxEngine

CONSTANTS a, b

Day(pa, pb, fx, settleFx) ==
  [price |-> (a :> pa @@ b :> pb), fx |-> fx, settleFx |-> settleFx]

MCTickers == {a, b}
Flat == Day(2, 2, 1, 1)
Boom == Day(4, 2, 2, 2)
WonFalls == Day(4, 2, 1, 2)
SteadyRates == {Flat, Boom}
MovingRates == {Flat, WonFalls}

Weights(wa, wb, wc) == a :> wa @@ b :> wb @@ Cash :> wc
MCTargets == {Weights(1, 1, 0), Weights(0, 1, 1)}
=============================================================================
