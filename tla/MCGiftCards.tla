------------------------------ MODULE MCGiftCards ------------------------------
(* Two users and three connections meet over one card, of either kind.       *)
EXTENDS GiftCards, TLC

CONSTANTS alice, bob, card, s1, s2, s3

TwoUsers == {alice, bob}
OneCard == {card}
ThreeSlots == {s1, s2, s3}

\* Only alice can pay for the card.
Balances == [u \in TwoUsers |-> IF u = alice THEN 2 ELSE 1]
===============================================================================
