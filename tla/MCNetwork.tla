------------------------------ MODULE MCNetwork ------------------------------
(* An instance of NetworkSetup: a printer with a lease and no wireless network. *)
EXTENDS NetworkSetup
=============================================================================
