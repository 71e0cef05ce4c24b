---------------------------- MODULE MCPageAlloc ----------------------------
(* Six pages of 28 bytes: five can be handed out, and then there is room   *)
(* for one node, so that the metadata runs out with pages still to free.   *)
EXTENDS PageAlloc
=============================================================================
