-------------------------- MODULE MCProvisioning --------------------------
(* One purchase, one retry of its task, one crash of the server.          *)
EXTENDS Provisioning
===========================================================================
