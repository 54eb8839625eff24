----------------------------- MODULE MCBalanceTx -----------------------------
(* BalanceTx for TLC: two users, two connections, a request that adds, one   *)
(* that takes back, and an order of the other user.  The balance limit is    *)
(* within reach of one credit.                                               *)
EXTENDS BalanceTx, TLC

CONSTANTS alice, bob, c1, c2, addReq, backReq, order

TwoUsers == {alice, bob}
TwoSlots == {c1, c2}
MCReqs == {addReq, backReq}
MCReclaims == {backReq}
MCOrders == {order}

\* The order is bob's.
OrderOfBob == [d \in MCReqs \cup MCOrders |-> IF d = order THEN bob ELSE alice]
MCDocAmount == [d \in MCReqs \cup MCOrders |-> IF d = backReq THEN 2 ELSE 1]
MCInit == [u \in Users |-> 1]
===============================================================================
