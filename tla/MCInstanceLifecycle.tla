------------------------- MODULE MCInstanceLifecycle -------------------------
(* One instance, the four jobs, two requests at a time.                      *)
EXTENDS InstanceLifecycle, TLC

CONSTANTS h1, h2

TwoHandlers == {h1, h2}
Perms == Permutations(TwoHandlers)
=============================================================================
