---------------------------- MODULE MCVirtioGpu ----------------------------
(* The GPU driver for TLC.                                                 *)
EXTENDS VirtioGpu
=============================================================================
