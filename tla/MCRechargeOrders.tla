---------------------------- MODULE MCRechargeOrders ----------------------------
(* One order, a repay or none, one or two requests at a time.                   *)
EXTENDS RechargeOrders, TLC

CONSTANTS h1, h2

OneHandler == {h1}
TwoHandlers == {h1, h2}
Symmetry == Permutations(Handlers)
=================================================================================
