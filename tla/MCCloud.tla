------------------------------ MODULE MCCloud ------------------------------
(* An instance of CloudConnector: a printer that starts paired or not.       *)
EXTENDS CloudConnector
=============================================================================
