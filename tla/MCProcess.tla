----------------------------- MODULE MCProcess -----------------------------
(* Processes for TLC.  The constants are given in the .cfg files: the slots *)
(* of the table, the priority of user processes and the exit statuses.      *)
EXTENDS Process
=============================================================================
