----------------------------- MODULE MCConsole -----------------------------
(* One tab of an administrator, one run and one device with two streams. The  *)
(* tab starts on the list of devices, on that of the runs, or at a live view. *)
EXTENDS Console, TLC

=============================================================================
