--------------------------- MODULE MCInstanceTransfer ---------------------------
(* Two users, one instance, two requests at a time.                             *)
EXTENDS InstanceTransfer, TLC

CONSTANTS alice, bob, h1, h2

TwoUsers == {alice, bob}
TwoHandlers == {h1, h2}
=================================================================================
