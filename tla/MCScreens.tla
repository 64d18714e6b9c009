------------------------------ MODULE MCScreens ------------------------------
(* An instance of TouchScreens: a printer at rest that shows its status.      *)
EXTENDS TouchScreens
=============================================================================
