----------------------------- MODULE MCClients -----------------------------
(* Instances of PrintClients: one upload that needs another material, one     *)
(* that does not, and the second also on a USB stick.                         *)
EXTENDS PrintClients
=============================================================================
